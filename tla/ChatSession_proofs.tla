-------------------------- MODULE ChatSession_proofs --------------------------
(***************************************************************************)
(* Proofs about the terminal application, for any number of chat workers,  *)
(* prompts and questions: a prompt is handed over once, the questions on   *)
(* the screen are those that are waited for, and the busy mark belongs to  *)
(* a worker that is still there.                                           *)
(***************************************************************************)
EXTENDS ChatSession, TLAPS

\* A worker that has a prompt it has not handed to the runtime yet.
ToHand(r) == worker[r].pc \in {"start", "resume"}

\* Workers and questions are numbered as they come.
Numbered ==
  /\ busy => runId \in Runs
  /\ \A r \in Runs : worker[r].pc = "none" <=> r > runId
  /\ \A r \in Runs : worker[r].prompt <= prompts
  /\ \A a \in Asks : ask[a].pc = "none" <=> a > asks
  /\ \A a \in Asks : a <= asks => ask[a].run \in 1..runId

\* A prompt that waits, in the slot or at a worker, waits in one place and has
\* not been handed over.
Handing ==
  /\ \A p \in Prompts : p > prompts => handed[p] = 0
  /\ pending # 0 => handed[pending] = 0
  /\ \A r \in Runs : ToHand(r) => handed[worker[r].prompt] = 0 /\ worker[r].prompt # pending
  /\ \A r, q \in Runs : ToHand(r) /\ ToHand(q) /\ worker[r].prompt = worker[q].prompt => r = q

\* A worker waits with its own question or with that of its tool call, and for
\* one at a time.
Asking ==
  /\ \A a \in Asks, r \in Runs :
       /\ Open(a, r, "agent") => worker[r].pc = "asking"
       /\ Open(a, r, "tool") => worker[r].pc = "tool"
  /\ \A a, b \in Asks, r \in Runs, c, d \in {"agent", "tool"} :
       Open(a, r, c) /\ Open(b, r, d) => a = b

\* The inductive invariant.
IInv ==
  /\ TypeOK /\ Numbered /\ Handing /\ Asking
  /\ PromptRunsOnce /\ ShownIsAwaited /\ WaitingIsShown /\ BusyHasWorker

USE ChatSessionAssumption DEF Runs, Prompts, Asks, Kinds

\* The parts of the type invariant.
Flags ==
  /\ busy \in BOOLEAN /\ cancel \in [Runs -> BOOLEAN]
  /\ interrupt \in BOOLEAN /\ hard \in BOOLEAN /\ talked \in BOOLEAN

Numbers ==
  /\ runId \in 0..MaxRuns /\ pending \in 0..prompts /\ slot \in [Kinds -> 0..asks]
  /\ prompts \in 0..MaxPrompts /\ asks \in 0..MaxAsks

Records ==
  /\ worker \in [Runs -> Worker] /\ ask \in [Asks -> Asker]
  /\ handed \in [Prompts -> Nat]

HavePrompts == \A r \in Runs : worker[r].pc # "none" => worker[r].prompt # 0

LEMMA TypeParts == TypeOK <=> Flags /\ Numbers /\ Records /\ HavePrompts
  BY Zenon DEF TypeOK, Flags, Numbers, Records, HavePrompts

\* The fields of workers and questions.
LEMMA Fields ==
  ASSUME TypeOK
  PROVE  /\ \A r \in Runs : worker[r].prompt \in 0..MaxPrompts
         /\ \A a \in Asks : ask[a].kind \in Kinds /\ ask[a].by \in {"agent", "tool", "orphan"}
  BY DEF TypeOK, Worker, Asker

\* The invariant holds before the first prompt.
LEMMA Initial == Init => IInv
<1> SUFFICES ASSUME Init PROVE IInv
  OBVIOUS
<1>1. worker \in [Runs -> Worker] /\ ask \in [Asks -> Asker]
  BY DEF Init, Worker, Asker
<1>2. /\ busy \in BOOLEAN /\ cancel \in [Runs -> BOOLEAN]
      /\ interrupt \in BOOLEAN /\ hard \in BOOLEAN /\ talked \in BOOLEAN
  BY Zenon DEF Init
<1>3. /\ runId \in 0..MaxRuns /\ pending \in 0..prompts /\ slot \in [Kinds -> 0..asks]
      /\ prompts \in 0..MaxPrompts /\ asks \in 0..MaxAsks /\ handed \in [Prompts -> Nat]
      /\ \A r \in Runs : worker[r].pc = "none"
  BY DEF Init
<1>4. TypeOK
  BY <1>1, <1>2, <1>3 DEF TypeOK
<1>. QED
  BY <1>4 DEF Init, IInv, Numbered, Handing, Asking, ToHand, Open,
       PromptRunsOnce, ShownIsAwaited, WaitingIsShown, BusyHasWorker

\* What answering a question changes.
LEMMA AnswerFacts ==
  ASSUME TypeOK, NEW a \in Asks, Answer(a)
  PROVE  /\ ask' \in [Asks -> Asker]
         /\ \A b \in Asks :
              /\ ask'[b].run = ask[b].run /\ ask'[b].kind = ask[b].kind /\ ask'[b].by = ask[b].by
              /\ b # a => ask'[b].pc = ask[b].pc
         /\ ask'[a].pc = "answered"
<1>1. ask \in [Asks -> Asker] /\ ask' = [ask EXCEPT ![a] = [ask[a] EXCEPT !.pc = "answered"]]
  BY DEF TypeOK, Answer
<1>2. [ask[a] EXCEPT !.pc = "answered"] \in Asker
  BY <1>1 DEF Asker
<1>. QED  BY <1>1, <1>2 DEF Asker

\* What moving a worker changes.
LEMMA GotoFacts ==
  ASSUME TypeOK, NEW r \in Runs, NEW label, Goto(r, label),
         label \in {"clear", "report", "tool", "agent", "returned", "free", "unbusy",
                    "over", "asking"}
  PROVE  /\ worker' \in [Runs -> Worker]
         /\ \A q \in Runs :
              /\ worker'[q].prompt = worker[q].prompt
              /\ q # r => worker'[q].pc = worker[q].pc
         /\ worker'[r].pc = label
<1>1. worker \in [Runs -> Worker] /\ worker' = [worker EXCEPT ![r] = [worker[r] EXCEPT !.pc = label]]
  BY DEF TypeOK, Goto
<1>2. [worker[r] EXCEPT !.pc = label] \in Worker
  BY <1>1 DEF Worker
<1>. QED  BY <1>1, <1>2 DEF Worker

\* A worker that has no question open may move on, if it does not stay busy when it
\* leaves.
LEMMA MoveKeeps ==
  ASSUME IInv, NEW r \in Runs,
         NEW label \in {"agent", "tool", "returned", "report", "free", "unbusy", "over"},
         Goto(r, label), worker[r].pc # "none",
         UNCHANGED <<runId, pending, slot, ask, prompts, asks, handed>>, Flags',
         busy' => busy /\ (runId = r => label \notin {"unbusy", "over"}),
         \A a \in Asks : ~Open(a, r, "agent") /\ ~Open(a, r, "tool")
  PROVE  IInv'
<1>1. /\ worker' \in [Runs -> Worker]
      /\ \A q \in Runs : worker'[q].prompt = worker[q].prompt
      /\ \A q \in Runs : q # r => worker'[q].pc = worker[q].pc
      /\ worker'[r].pc = label
  BY GotoFacts DEF IInv
<1>2. UNCHANGED <<runId, pending, slot, ask, prompts, asks, handed>>
  OBVIOUS
<1>3. TypeOK'
  <2>1. Flags /\ Numbers /\ Records /\ HavePrompts
    BY TypeParts DEF IInv
  <2>2. Numbers'
    BY <2>1, <1>2 DEF Numbers
  <2>3. Records'
    BY <2>1, <1>1, <1>2 DEF Records
  <2>4. HavePrompts'
    BY <2>1, <1>1 DEF HavePrompts
  <2>. QED
    BY <2>2, <2>3, <2>4, Zenon DEF TypeOK, Flags, Numbers, Records, HavePrompts
<1>4. Numbered'
  BY <1>1, <1>2 DEF IInv, Numbered
<1>5. Handing'
  <2>1. \A q \in Runs : ToHand(q)' => ToHand(q)
    BY <1>1 DEF ToHand
  <2>. QED  BY <1>1, <1>2, <2>1 DEF IInv, Handing
<1>6. Asking'
  <2>1. \A x \in Asks, q \in Runs, by \in {"agent", "tool"} : Open(x, q, by)' <=> Open(x, q, by)
    BY <1>2 DEF Open
  <2>2. \A x \in Asks, q \in Runs :
          /\ Open(x, q, "agent")' => worker'[q].pc = "asking"
          /\ Open(x, q, "tool")' => worker'[q].pc = "tool"
    BY <1>1, <2>1 DEF IInv, Asking
  <2>3. ASSUME NEW x \in Asks, NEW y \in Asks, NEW q \in Runs,
               NEW c \in {"agent", "tool"}, NEW d \in {"agent", "tool"},
               Open(x, q, c)', Open(y, q, d)'
        PROVE  x = y
    <3>1. Open(x, q, c) /\ Open(y, q, d)
      BY <2>1, <2>3
    <3>. QED  BY <3>1 DEF IInv, Asking
  <2>. QED  BY <2>2, <2>3 DEF Asking
<1>7. PromptRunsOnce' /\ ShownIsAwaited' /\ WaitingIsShown'
  BY <1>2 DEF IInv, PromptRunsOnce, ShownIsAwaited, WaitingIsShown
<1>8. BusyHasWorker'
  BY <1>1, <1>2 DEF IInv, Numbered, BusyHasWorker
<1>. QED  BY <1>3, <1>4, <1>5, <1>6, <1>7, <1>8 DEF IInv

\* An answer closes the question it was given to and takes it off the screen.
LEMMA SubmitAnswerKeeps == \A k \in Kinds : IInv /\ SubmitAnswer(k) => IInv'
<1> SUFFICES ASSUME NEW k \in Kinds, IInv, SubmitAnswer(k) PROVE IInv'
  OBVIOUS
<1>1. PICK a \in Asks : slot[k] = a /\ Answer(a)
  BY DEF IInv, TypeOK, SubmitAnswer
<1>2. /\ ask' \in [Asks -> Asker] /\ ask'[a].pc = "answered"
      /\ \A b \in Asks :
           /\ ask'[b].run = ask[b].run /\ ask'[b].kind = ask[b].kind /\ ask'[b].by = ask[b].by
           /\ b # a => ask'[b].pc = ask[b].pc
  BY <1>1, AnswerFacts DEF IInv
<1>3. /\ slot' = [slot EXCEPT ![k] = 0]
      /\ UNCHANGED <<busy, runId, pending, cancel, interrupt, hard, talked, worker, prompts, asks, handed>>
  BY DEF SubmitAnswer, flags
<1>4. a \in 1..asks /\ ask[a].pc = "waiting"
  <2>1. slot \in [Kinds -> 0..asks]
    BY DEF IInv, TypeOK
  <2>. QED  BY <1>1, <2>1 DEF IInv, ShownIsAwaited
<1>5. TypeOK'
  <2>1. Flags /\ Numbers /\ Records /\ HavePrompts
    BY TypeParts DEF IInv
  <2>2. Flags'
    BY <2>1, <1>1, <1>2, <1>3, Zenon DEF Flags
  <2>3. Numbers'
    BY <2>1, <1>1, <1>2, <1>3 DEF Numbers
  <2>4. Records'
    BY <2>1, <1>1, <1>2, <1>3 DEF Records
  <2>5. HavePrompts'
    BY <2>1, <1>1, <1>2, <1>3 DEF HavePrompts
  <2>. QED
    BY <2>2, <2>3, <2>4, <2>5, Zenon DEF TypeOK, Flags, Numbers, Records, HavePrompts
<1>6. Numbers /\ (\A q \in Runs : worker[q].prompt \in 0..MaxPrompts)
      /\ (\A b \in Asks : ask[b].kind \in Kinds /\ ask[b].by \in {"agent", "tool", "orphan"})
      /\ HavePrompts
  BY TypeParts, Fields DEF IInv
<1>7. Numbered'
  <2>1. \A b \in Asks : ask'[b].pc = "none" <=> ask[b].pc = "none"
    BY <1>2, <1>4
  <2>. QED  BY <1>2, <1>3, <2>1 DEF IInv, Numbered
<1>8. Handing'
  BY <1>1, <1>2, <1>3, <1>4, <1>6 DEF IInv, Numbers, HavePrompts, Numbered, Handing, ToHand
<1>9. Asking'
  <2>1. \A x \in Asks, q \in Runs, d \in {"agent", "tool"} : Open(x, q, d)' => Open(x, q, d)
    BY <1>1, <1>2, <1>3, <1>4, <1>6 DEF Open
  <2>. QED  BY <1>1, <1>2, <1>3, <1>4, <1>6, <2>1 DEF IInv, Asking
<1>10. PromptRunsOnce'
  BY <1>1, <1>2, <1>3, <1>4, <1>6 DEF IInv, Numbers, HavePrompts, Handing, ToHand, PromptRunsOnce
<1>11. ShownIsAwaited'
  BY <1>1, <1>2, <1>3, <1>4, <1>6 DEF IInv, Numbers, HavePrompts, Numbered, ShownIsAwaited
<1>12. WaitingIsShown'
  <2> SUFFICES ASSUME NEW x \in Asks, ask'[x].pc = "waiting"
               PROVE  \/ \E m \in Kinds : slot'[m] = x
                      \/ \E b \in Asks \ {x} : /\ ask'[b].pc # "none" /\ ask'[b].kind = ask'[x].kind
                                               /\ "orphan" \in {ask'[x].by, ask'[b].by}
    BY DEF WaitingIsShown
  <2>1. ask[x].pc = "waiting" /\ \A m \in Kinds : slot[m] = x => slot'[m] = x
    BY <1>1, <1>2, <1>3, <1>4, <1>6 DEF Numbers
  <2>2. \A b \in Asks : ask[b].pc # "none" => ask'[b].pc # "none"
    BY <1>1, <1>2, <1>3, <1>4, <1>6
  <2>. QED  BY <1>1, <1>2, <1>3, <1>4, <1>6, <2>1, <2>2 DEF IInv, WaitingIsShown
<1>13. BusyHasWorker'
  BY <1>1, <1>2, <1>3, <1>4, <1>6 DEF IInv, Numbers, HavePrompts, Numbered, BusyHasWorker
<1>. QED  BY <1>5, <1>7, <1>8, <1>9, <1>10, <1>11, <1>12, <1>13 DEF IInv

\* A clarification is a new prompt and replaces the one that was queued.
LEMMA SubmitClarificationKeeps == IInv /\ SubmitClarification => IInv'
<1> SUFFICES ASSUME IInv, SubmitClarification PROVE IInv'
  OBVIOUS
<1>1. /\ prompts' = prompts + 1 /\ prompts + 1 \in Prompts /\ pending' = prompts + 1
      /\ UNCHANGED <<busy, runId, slot, cancel, hard, talked, worker, ask, asks, handed>>
  BY DEF IInv, TypeOK, SubmitClarification
<1>2. interrupt' \in BOOLEAN
  BY DEF SubmitClarification
<1>3. TypeOK'
  <2>1. Flags /\ Numbers /\ Records /\ HavePrompts
    BY TypeParts DEF IInv
  <2>2. Flags'
    BY <2>1, <1>1, <1>2, Zenon DEF Flags
  <2>3. Numbers'
    BY <2>1, <1>1, <1>2 DEF Numbers
  <2>4. Records'
    BY <2>1, <1>1, <1>2 DEF Records
  <2>5. HavePrompts'
    BY <2>1, <1>1, <1>2 DEF HavePrompts
  <2>. QED
    BY <2>2, <2>3, <2>4, <2>5, Zenon DEF TypeOK, Flags, Numbers, Records, HavePrompts
<1>4. Numbers /\ (\A q \in Runs : worker[q].prompt \in 0..MaxPrompts)
      /\ (\A b \in Asks : ask[b].kind \in Kinds /\ ask[b].by \in {"agent", "tool", "orphan"})
      /\ HavePrompts
  BY TypeParts, Fields DEF IInv
<1>5. Numbered'
  BY <1>1, <1>4 DEF IInv, Numbers, HavePrompts, Numbered
<1>6. Handing'
  BY <1>1, <1>4 DEF IInv, Numbers, HavePrompts, Numbered, Handing, ToHand
<1>7. Asking'
  BY <1>1 DEF IInv, Asking, Open
<1>8. PromptRunsOnce'
  BY <1>1, <1>4 DEF IInv, Numbers, HavePrompts, Handing, ToHand, PromptRunsOnce
<1>9. ShownIsAwaited'
  BY <1>1, <1>4 DEF IInv, Numbers, HavePrompts, Numbered, ShownIsAwaited
<1>10. WaitingIsShown'
  BY <1>1, <1>4 DEF IInv, Numbers, HavePrompts, Numbered, WaitingIsShown
<1>11. BusyHasWorker'
  BY <1>1, <1>4 DEF IInv, Numbers, HavePrompts, Numbered, BusyHasWorker
<1>. QED  BY <1>3, <1>5, <1>6, <1>7, <1>8, <1>9, <1>10, <1>11 DEF IInv

\* A prompt starts a worker that did not exist, when nothing is on the screen.
LEMMA SubmitPromptKeeps == IInv /\ SubmitPrompt => IInv'
<1> SUFFICES ASSUME IInv, SubmitPrompt PROVE IInv'
  OBVIOUS
<1>1. /\ runId' = runId + 1 /\ prompts' = prompts + 1 /\ ~busy
      /\ runId + 1 \in Runs /\ prompts + 1 \in Prompts
      /\ UNCHANGED <<pending, slot, cancel, interrupt, hard, talked, ask, asks, handed>>
      /\ \A k \in Kinds : slot[k] = 0
  BY DEF IInv, TypeOK, SubmitPrompt, NothingShown, flags
<1>2. [worker[runId + 1] EXCEPT !.pc = "start", !.prompt = prompts', !.followup = talked] \in Worker
  <2>1. worker[runId + 1] \in Worker /\ prompts' \in 0..MaxPrompts /\ talked \in BOOLEAN
    BY <1>1 DEF IInv, TypeOK
  <2>. QED  BY <2>1 DEF Worker
<1>3. /\ worker' \in [Runs -> Worker]
      /\ worker'[runId + 1].pc = "start" /\ worker'[runId + 1].prompt = prompts + 1
      /\ \A q \in Runs : q # runId + 1 => worker'[q] = worker[q]
  BY <1>1, <1>2 DEF IInv, TypeOK, SubmitPrompt, Worker
<1>4. busy' \in BOOLEAN /\ busy'
  BY DEF SubmitPrompt
<1>5. TypeOK'
  <2>1. Flags /\ Numbers /\ Records /\ HavePrompts
    BY TypeParts DEF IInv
  <2>2. Flags'
    BY <2>1, <1>1, <1>3, <1>4, Zenon DEF Flags
  <2>3. Numbers'
    BY <2>1, <1>1, <1>3, <1>4 DEF Numbers
  <2>4. Records'
    BY <2>1, <1>1, <1>3, <1>4 DEF Records
  <2>5. HavePrompts'
    BY <2>1, <1>1, <1>3, <1>4 DEF HavePrompts
  <2>. QED
    BY <2>2, <2>3, <2>4, <2>5, Zenon DEF TypeOK, Flags, Numbers, Records, HavePrompts
<1>6. Numbers /\ (\A q \in Runs : worker[q].prompt \in 0..MaxPrompts)
      /\ (\A b \in Asks : ask[b].kind \in Kinds /\ ask[b].by \in {"agent", "tool", "orphan"})
      /\ HavePrompts
  BY TypeParts, Fields DEF IInv
<1>7. Numbered'
  <2>1. \A q \in Runs : worker'[q].pc = "none" <=> q > runId + 1
    BY <1>1, <1>3, <1>6 DEF IInv, Numbered, Numbers
  <2>2. \A q \in Runs : worker'[q].prompt <= prompts + 1
    BY <1>1, <1>3, <1>6 DEF IInv, Numbered, Numbers
  <2>3. \A b \in Asks : b <= asks => ask[b].run \in 1..(runId + 1)
    BY <1>6 DEF IInv, Numbered, Numbers
  <2>. QED  BY <1>1, <2>1, <2>2, <2>3 DEF IInv, Numbered
<1>8. Handing'
  <2>1. \A q \in Runs : ToHand(q)' <=> ToHand(q) \/ q = runId + 1
    BY <1>1, <1>3 DEF ToHand
  <2>2. \A q \in Runs : q # runId + 1 => worker'[q].prompt = worker[q].prompt /\ worker[q].prompt <= prompts
    BY <1>1, <1>3 DEF IInv, Numbered
  <2>3. ~ToHand(runId + 1)
    BY <1>1, <1>6 DEF IInv, Numbered, Numbers, ToHand
  <2>4. /\ \A p \in Prompts : p > prompts' => handed'[p] = 0
        /\ pending' # 0 => handed'[pending'] = 0
    BY <1>1, <1>6 DEF IInv, Handing, Numbers
  <2>5. \A q \in Runs : ToHand(q)' => handed'[worker'[q].prompt] = 0 /\ worker'[q].prompt # pending'
    BY <1>1, <1>3, <1>6, <2>1, <2>2, <2>3 DEF IInv, Handing, Numbers
  <2>6. \A q, w \in Runs : ToHand(q)' /\ ToHand(w)' /\ worker'[q].prompt = worker'[w].prompt => q = w
    BY <1>1, <1>3, <1>6, <2>1, <2>2, <2>3 DEF IInv, Handing, Numbers
  <2>. QED  BY <2>4, <2>5, <2>6 DEF Handing
<1>9. Asking'
  <2>1. \A x \in Asks, q \in Runs, d \in {"agent", "tool"} : Open(x, q, d)' <=> Open(x, q, d)
    BY <1>1 DEF Open
  <2>2. worker[runId + 1].pc = "none"
    BY <1>1, <1>6 DEF IInv, Numbered, Numbers
  <2>3. \A x \in Asks, q \in Runs :
          /\ Open(x, q, "agent")' => worker'[q].pc = "asking"
          /\ Open(x, q, "tool")' => worker'[q].pc = "tool"
    BY <1>3, <2>1, <2>2 DEF IInv, Asking
  <2>4. ASSUME NEW x \in Asks, NEW y \in Asks, NEW q \in Runs,
               NEW c \in {"agent", "tool"}, NEW d \in {"agent", "tool"},
               Open(x, q, c)', Open(y, q, d)'
        PROVE  x = y
    <3>1. Open(x, q, c) /\ Open(y, q, d)
      BY <2>1, <2>4
    <3>. QED  BY <3>1 DEF IInv, Asking
  <2>. QED  BY <2>3, <2>4 DEF Asking
<1>10. PromptRunsOnce'
  BY <1>1, <1>3, <1>4, <1>6 DEF IInv, Numbers, HavePrompts, Handing, ToHand, PromptRunsOnce
<1>11. ShownIsAwaited'
  BY <1>1, <1>3, <1>4, <1>6 DEF IInv, Numbers, HavePrompts, Numbered, ShownIsAwaited
<1>12. WaitingIsShown'
  BY <1>1, <1>3, <1>4, <1>6 DEF IInv, Numbers, HavePrompts, Numbered, WaitingIsShown
<1>13. BusyHasWorker'
  BY <1>1, <1>3, <1>4, <1>6 DEF IInv, Numbers, HavePrompts, Numbered, BusyHasWorker
<1>. QED  BY <1>5, <1>7, <1>8, <1>9, <1>10, <1>11, <1>12, <1>13 DEF IInv

\* Escape answers all that is on the screen.
LEMMA EscapeKeeps == IInv /\ Escape => IInv'
<1> SUFFICES ASSUME IInv, Escape PROVE IInv'
  OBVIOUS
<1>1. \A a \in Asks : [ask[a] EXCEPT !.pc = "answered"] \in Asker
  BY DEF IInv, TypeOK, Asker
<1>2. /\ ask' \in [Asks -> Asker]
      /\ \A b \in Asks :
           /\ ask'[b].run = ask[b].run /\ ask'[b].kind = ask[b].kind /\ ask'[b].by = ask[b].by
           /\ (\E k \in Kinds : slot[k] = b) => ask'[b].pc = "answered"
           /\ (\A k \in Kinds : slot[k] # b) => ask'[b].pc = ask[b].pc
  BY <1>1 DEF IInv, TypeOK, Escape, Asker
<1>3. /\ slot' = [k \in Kinds |-> 0] /\ interrupt' = TRUE /\ hard' = (hard \/ interrupt)
      /\ cancel' = [cancel EXCEPT ![runId] = @ \/ interrupt]
      /\ UNCHANGED <<busy, runId, pending, talked, worker, prompts, asks, handed>>
  BY DEF Escape
<1>4. interrupt' \in BOOLEAN /\ hard' \in BOOLEAN /\ cancel' \in [Runs -> BOOLEAN]
  BY <1>3, ZenonT(20) DEF IInv, TypeOK
<1>5. \A b \in Asks : (\E k \in Kinds : slot[k] = b) => b \in 1..asks /\ ask[b].pc = "waiting"
  <2>1. slot \in [Kinds -> 0..asks]
    BY DEF IInv, TypeOK
  <2>. QED  BY <2>1 DEF IInv, ShownIsAwaited
<1>6. \A b \in Asks : ask'[b].pc = "none" <=> ask[b].pc = "none"
  BY <1>2, <1>5
<1>7. TypeOK'
  <2>1. Flags /\ Numbers /\ Records /\ HavePrompts
    BY TypeParts DEF IInv
  <2>2. Flags'
    BY <2>1, <1>2, <1>3, <1>4, Zenon DEF Flags
  <2>3. Numbers'
    BY <2>1, <1>2, <1>3, <1>4 DEF Numbers
  <2>4. Records'
    BY <2>1, <1>2, <1>3, <1>4 DEF Records
  <2>5. HavePrompts'
    BY <2>1, <1>2, <1>3, <1>4 DEF HavePrompts
  <2>. QED
    BY <2>2, <2>3, <2>4, <2>5, Zenon DEF TypeOK, Flags, Numbers, Records, HavePrompts
<1>8. Numbers /\ (\A q \in Runs : worker[q].prompt \in 0..MaxPrompts)
      /\ (\A b \in Asks : ask[b].kind \in Kinds /\ ask[b].by \in {"agent", "tool", "orphan"})
      /\ HavePrompts
  BY TypeParts, Fields DEF IInv
<1>9. Numbered'
  BY <1>2, <1>3, <1>6, <1>8 DEF IInv, Numbers, HavePrompts, Numbered
<1>10. Handing'
  BY <1>2, <1>3, <1>6, <1>8 DEF IInv, Numbers, HavePrompts, Numbered, Handing, ToHand
<1>11. Asking'
  <2>1. \A x \in Asks, q \in Runs, d \in {"agent", "tool"} : Open(x, q, d)' => Open(x, q, d)
    BY <1>2, <1>3, <1>6, <1>8 DEF Open
  <2>. QED  BY <1>2, <1>3, <1>6, <1>8, <2>1 DEF IInv, Asking
<1>12. PromptRunsOnce'
  BY <1>2, <1>3, <1>6, <1>8 DEF IInv, Numbers, HavePrompts, Handing, ToHand, PromptRunsOnce
<1>13. ShownIsAwaited'
  BY <1>2, <1>3, <1>6, <1>8 DEF IInv, Numbers, HavePrompts, Numbered, ShownIsAwaited
<1>14. WaitingIsShown'
  <2> SUFFICES ASSUME NEW x \in Asks, ask'[x].pc = "waiting"
               PROVE  \/ \E m \in Kinds : slot'[m] = x
                      \/ \E b \in Asks \ {x} : /\ ask'[b].pc # "none" /\ ask'[b].kind = ask'[x].kind
                                               /\ "orphan" \in {ask'[x].by, ask'[b].by}
    BY DEF WaitingIsShown
  <2>1. ask[x].pc = "waiting" /\ \A m \in Kinds : slot[m] # x
    BY <1>2, <1>3, <1>6, <1>8
  <2>2. \A b \in Asks : ask[b].pc # "none" => ask'[b].pc # "none"
    BY <1>2, <1>3, <1>6, <1>8
  <2>. QED  BY <1>2, <1>3, <1>6, <1>8, <2>1, <2>2 DEF IInv, WaitingIsShown
<1>15. BusyHasWorker'
  BY <1>2, <1>3, <1>6, <1>8 DEF IInv, Numbers, HavePrompts, Numbered, BusyHasWorker
<1>. QED  BY <1>7, <1>9, <1>10, <1>11, <1>12, <1>13, <1>14, <1>15 DEF IInv

\* A new conversation forgets the queued prompt.
LEMMA NewChatKeeps == IInv /\ NewChat => IInv'
<1> SUFFICES ASSUME IInv, NewChat PROVE IInv'
  OBVIOUS
<1>1. /\ pending' = 0 /\ ~busy
      /\ UNCHANGED <<busy, runId, slot, cancel, worker, ask, prompts, asks, handed>>
  BY DEF NewChat
<1>2. interrupt' \in BOOLEAN /\ hard' \in BOOLEAN /\ talked' \in BOOLEAN
  BY DEF NewChat
<1>3. TypeOK'
  <2>1. Flags /\ Numbers /\ Records /\ HavePrompts
    BY TypeParts DEF IInv
  <2>2. Flags'
    BY <2>1, <1>1, <1>2, Zenon DEF Flags
  <2>3. Numbers'
    BY <2>1, <1>1, <1>2 DEF Numbers
  <2>4. Records'
    BY <2>1, <1>1, <1>2 DEF Records
  <2>5. HavePrompts'
    BY <2>1, <1>1, <1>2 DEF HavePrompts
  <2>. QED
    BY <2>2, <2>3, <2>4, <2>5, Zenon DEF TypeOK, Flags, Numbers, Records, HavePrompts
<1>4. Numbers /\ (\A q \in Runs : worker[q].prompt \in 0..MaxPrompts)
      /\ (\A b \in Asks : ask[b].kind \in Kinds /\ ask[b].by \in {"agent", "tool", "orphan"})
      /\ HavePrompts
  BY TypeParts, Fields DEF IInv
<1>5. Numbered'
  BY <1>1, <1>4 DEF IInv, Numbers, HavePrompts, Numbered
<1>6. Handing'
  BY <1>1, <1>4 DEF IInv, Numbers, HavePrompts, Numbered, Handing, ToHand
<1>7. Asking'
  BY <1>1, <1>4 DEF IInv, Numbers, HavePrompts, Numbered, Asking, Open
<1>8. PromptRunsOnce'
  BY <1>1, <1>4 DEF IInv, Numbers, HavePrompts, Handing, ToHand, PromptRunsOnce
<1>9. ShownIsAwaited'
  BY <1>1, <1>4 DEF IInv, Numbers, HavePrompts, Numbered, ShownIsAwaited
<1>10. WaitingIsShown'
  BY <1>1, <1>4 DEF IInv, Numbers, HavePrompts, Numbered, WaitingIsShown
<1>11. BusyHasWorker'
  BY <1>1, <1>4 DEF IInv, Numbers, HavePrompts, Numbered, BusyHasWorker
<1>. QED  BY <1>3, <1>5, <1>6, <1>7, <1>8, <1>9, <1>10, <1>11 DEF IInv

\* The worker hands its prompt over.
LEMMA BeginKeeps == \A r \in Runs : IInv /\ Begin(r) => IInv'
<1> SUFFICES ASSUME NEW r \in Runs, IInv, Begin(r) PROVE IInv'
  OBVIOUS
<1>1. /\ worker' \in [Runs -> Worker]
      /\ \A q \in Runs : worker'[q].prompt = worker[q].prompt
      /\ \A q \in Runs : q # r => worker'[q].pc = worker[q].pc
      /\ worker'[r].pc = "clear"
  BY GotoFacts DEF IInv, Begin
<1>2. /\ UNCHANGED <<busy, runId, pending, slot, interrupt, hard, talked, ask, prompts, asks>>
      /\ worker[r].pc \in {"start", "resume"}
  BY DEF Begin, ui, flags
<1>3. worker[r].prompt \in Prompts
  BY <1>2 DEF IInv, TypeOK, Worker
<1>4. /\ handed' \in [Prompts -> Nat]
      /\ handed[worker[r].prompt] = 0 /\ handed'[worker[r].prompt] = 1
      /\ \A p \in Prompts : p # worker[r].prompt => handed'[p] = handed[p]
  BY <1>2, <1>3 DEF IInv, TypeOK, Begin, Hand, Handing, ToHand
<1>5. cancel' \in [Runs -> BOOLEAN]
  <2>1. cancel \in [Runs -> BOOLEAN] /\ [cancel EXCEPT ![runId] = FALSE] \in [Runs -> BOOLEAN]
    BY Zenon DEF IInv, TypeOK
  <2>. QED  BY <2>1 DEF Begin
<1>6. TypeOK'
  <2>1. Flags /\ Numbers /\ Records /\ HavePrompts
    BY TypeParts DEF IInv
  <2>2. Flags'
    BY <2>1, <1>1, <1>2, <1>4, <1>5, Zenon DEF Flags
  <2>3. Numbers'
    BY <2>1, <1>1, <1>2, <1>4, <1>5 DEF Numbers
  <2>4. Records'
    BY <2>1, <1>1, <1>2, <1>4, <1>5 DEF Records
  <2>5. HavePrompts'
    BY <2>1, <1>1, <1>2, <1>4, <1>5 DEF HavePrompts
  <2>. QED
    BY <2>2, <2>3, <2>4, <2>5, Zenon DEF TypeOK, Flags, Numbers, Records, HavePrompts
<1>7. Numbers /\ (\A q \in Runs : worker[q].prompt \in 0..MaxPrompts)
      /\ (\A b \in Asks : ask[b].kind \in Kinds /\ ask[b].by \in {"agent", "tool", "orphan"})
      /\ HavePrompts
  BY TypeParts, Fields DEF IInv
<1>8. Numbered'
  BY <1>1, <1>2, <1>3, <1>4, <1>7 DEF IInv, Numbers, HavePrompts, Numbered
<1>9. Handing'
  <2>1. \A q \in Runs : ToHand(q)' <=> ToHand(q) /\ q # r
    BY <1>1, <1>2 DEF ToHand
  <2>2. ToHand(r)
    BY <1>2 DEF ToHand
  <2>3. \A q \in Runs : ToHand(q) => worker[q].prompt \in Prompts
    BY <1>7 DEF HavePrompts, ToHand
  <2>4. /\ \A p \in Prompts : p > prompts' => handed'[p] = 0
        /\ pending' # 0 => handed'[pending'] = 0
    <3>1. worker[r].prompt <= prompts /\ worker[r].prompt # pending
      BY <2>2 DEF IInv, Numbered, Handing
    <3>2. \A p \in Prompts : p > prompts' => handed'[p] = 0
      <4> SUFFICES ASSUME NEW p \in Prompts, p > prompts PROVE handed'[p] = 0
        BY <1>2
      <4>1. p # worker[r].prompt
        BY <1>3, <1>7, <3>1 DEF Numbers
      <4>. QED  BY <1>4, <4>1 DEF IInv, Handing
    <3>3. pending' # 0 => handed'[pending'] = 0
      <4>1. pending # 0 => pending \in Prompts
        BY <1>7 DEF Numbers
      <4>. QED  BY <1>2, <1>4, <3>1, <4>1 DEF IInv, Handing
    <3>. QED  BY <3>2, <3>3
  <2>5. \A q \in Runs : ToHand(q)' => handed'[worker'[q].prompt] = 0 /\ worker'[q].prompt # pending'
    BY <1>1, <1>2, <1>4, <2>1, <2>2, <2>3 DEF IInv, Handing
  <2>6. \A q, w \in Runs : ToHand(q)' /\ ToHand(w)' /\ worker'[q].prompt = worker'[w].prompt => q = w
    BY <1>1, <2>1 DEF IInv, Handing
  <2>. QED  BY <2>4, <2>5, <2>6 DEF Handing
<1>10. Asking'
  <2>1. \A x \in Asks, q \in Runs, by \in {"agent", "tool"} : Open(x, q, by)' <=> Open(x, q, by)
    BY <1>1, <1>2 DEF Open
  <2>2. \A x \in Asks, q \in Runs :
          /\ Open(x, q, "agent") => worker'[q].pc = "asking"
          /\ Open(x, q, "tool") => worker'[q].pc = "tool"
    BY <1>1, <1>2 DEF IInv, Asking
  <2>3. ASSUME NEW x \in Asks, NEW y \in Asks, NEW q \in Runs,
               NEW c \in {"agent", "tool"}, NEW d \in {"agent", "tool"},
               Open(x, q, c)', Open(y, q, d)'
        PROVE  x = y
    <3>1. Open(x, q, c) /\ Open(y, q, d)
      BY <2>1, <2>3
    <3>. QED  BY <3>1 DEF IInv, Asking
  <2>4. \A x \in Asks, q \in Runs :
          /\ Open(x, q, "agent")' => worker'[q].pc = "asking"
          /\ Open(x, q, "tool")' => worker'[q].pc = "tool"
    BY <2>1, <2>2
  <2>. QED  BY <2>3, <2>4 DEF Asking
<1>11. PromptRunsOnce'
  BY <1>1, <1>2, <1>3, <1>4, <1>7 DEF IInv, Numbers, HavePrompts, Handing, ToHand, PromptRunsOnce
<1>12. ShownIsAwaited'
  BY <1>1, <1>2, <1>3, <1>4, <1>7 DEF IInv, Numbers, HavePrompts, Numbered, ShownIsAwaited
<1>13. WaitingIsShown'
  BY <1>2 DEF IInv, WaitingIsShown
<1>14. BusyHasWorker'
  BY <1>1, <1>2, <1>3, <1>4, <1>7 DEF IInv, Numbers, HavePrompts, Numbered, BusyHasWorker
<1>. QED  BY <1>6, <1>8, <1>9, <1>10, <1>11, <1>12, <1>13, <1>14 DEF IInv

\* The flags are in no conjunct.
LEMMA ClearFlagsKeeps == \A r \in Runs : IInv /\ ClearFlags(r) => IInv'
<1> SUFFICES ASSUME NEW r \in Runs, IInv, ClearFlags(r) PROVE IInv'
  OBVIOUS
<1>1. /\ Goto(r, "agent") /\ worker[r].pc # "none"
      /\ UNCHANGED <<busy, runId, pending, slot, cancel, talked, ask, prompts, asks, handed>>
  BY DEF ClearFlags, ui, flags
<1>2. Flags'
  <2>1. Flags
    BY TypeParts DEF IInv
  <2>. QED  BY <1>1, <2>1, Zenon DEF Flags, ClearFlags
<1>3. \A a \in Asks : ~Open(a, r, "agent") /\ ~Open(a, r, "tool")
  BY DEF ClearFlags, IInv, Asking
<1>. QED  BY <1>1, <1>2, <1>3, MoveKeeps

\* A run that fails has no question open.
LEMMA RunFailsKeeps == \A r \in Runs : IInv /\ RunFails(r) => IInv'
<1> SUFFICES ASSUME NEW r \in Runs, IInv, RunFails(r) PROVE IInv'
  OBVIOUS
<1>1. /\ Goto(r, "report") /\ worker[r].pc # "none"
      /\ UNCHANGED <<busy, runId, pending, slot, cancel, interrupt, hard, talked, ask, prompts, asks, handed>>
  BY DEF RunFails, ui, flags
<1>2. Flags'
  <2>1. Flags
    BY TypeParts DEF IInv
  <2>. QED  BY <1>1, <2>1, Zenon DEF Flags
<1>3. \A a \in Asks : ~Open(a, r, "agent") /\ ~Open(a, r, "tool")
  BY DEF RunFails, IInv, Asking
<1>. QED  BY <1>1, <1>2, <1>3, MoveKeeps

\* A tool call starts without a question.
LEMMA CallToolKeeps == \A r \in Runs : IInv /\ CallTool(r) => IInv'
<1> SUFFICES ASSUME NEW r \in Runs, IInv, CallTool(r) PROVE IInv'
  OBVIOUS
<1>1. /\ Goto(r, "tool") /\ worker[r].pc # "none"
      /\ UNCHANGED <<busy, runId, pending, slot, cancel, interrupt, hard, talked, ask, prompts, asks, handed>>
  BY DEF CallTool, ui, flags
<1>2. Flags'
  <2>1. Flags
    BY TypeParts DEF IInv
  <2>. QED  BY <1>1, <2>1, Zenon DEF Flags
<1>3. \A a \in Asks : ~Open(a, r, "agent") /\ ~Open(a, r, "tool")
  BY DEF CallTool, IInv, Asking
<1>. QED  BY <1>1, <1>2, <1>3, MoveKeeps

\* A tool call ends when its question is closed.
LEMMA ToolEndsKeeps == \A r \in Runs : IInv /\ ToolEnds(r) => IInv'
<1> SUFFICES ASSUME NEW r \in Runs, IInv, ToolEnds(r) PROVE IInv'
  OBVIOUS
<1>1. /\ Goto(r, "agent") /\ worker[r].pc # "none"
      /\ UNCHANGED <<busy, runId, pending, slot, cancel, interrupt, hard, talked, ask, prompts, asks, handed>>
  BY DEF ToolEnds, ui, flags
<1>2. Flags'
  <2>1. Flags
    BY TypeParts DEF IInv
  <2>. QED  BY <1>1, <2>1, Zenon DEF Flags
<1>3. \A a \in Asks : ~Open(a, r, "agent") /\ ~Open(a, r, "tool")
  BY DEF ToolEnds, IInv, Asking
<1>. QED  BY <1>1, <1>2, <1>3, MoveKeeps

\* The question of a tool call that is given up belongs to its thread alone.
LEMMA AbandonToolKeeps == \A r \in Runs : IInv /\ AbandonTool(r) => IInv'
<1> SUFFICES ASSUME NEW r \in Runs, IInv, AbandonTool(r) PROVE IInv'
  OBVIOUS
<1>1. /\ worker[r].pc = "tool" /\ talked'
      /\ worker' = [worker EXCEPT ![r] = [worker[r] EXCEPT !.pc = "returned", !.orphans = TRUE]]
      /\ ask' = [a \in Asks |-> IF Open(a, r, "tool") THEN [ask[a] EXCEPT !.by = "orphan"] ELSE ask[a]]
      /\ UNCHANGED <<busy, runId, pending, slot, cancel, interrupt, hard, prompts, asks, handed>>
  BY DEF AbandonTool, ui, flags, IInv, TypeOK
<1>2. worker \in [Runs -> Worker] /\ ask \in [Asks -> Asker] /\ talked' \in BOOLEAN
  BY DEF IInv, TypeOK, AbandonTool
<1>3. [worker[r] EXCEPT !.pc = "returned", !.orphans = TRUE] \in Worker
  BY <1>2 DEF Worker
<1>4. /\ worker' \in [Runs -> Worker]
      /\ \A q \in Runs : worker'[q].prompt = worker[q].prompt
      /\ \A q \in Runs : q # r => worker'[q].pc = worker[q].pc
      /\ worker'[r].pc = "returned"
  BY <1>1, <1>2, <1>3 DEF Worker
<1>5. \A a \in Asks : [ask[a] EXCEPT !.by = "orphan"] \in Asker
  BY <1>2 DEF Asker
<1>6. /\ ask' \in [Asks -> Asker]
      /\ \A a \in Asks :
           /\ ask'[a].pc = ask[a].pc /\ ask'[a].run = ask[a].run /\ ask'[a].kind = ask[a].kind
           /\ ask'[a].by = IF Open(a, r, "tool") THEN "orphan" ELSE ask[a].by
  BY <1>1, <1>2, <1>5 DEF Asker
<1>7. TypeOK'
  <2>1. Flags /\ Numbers /\ Records /\ HavePrompts
    BY TypeParts DEF IInv
  <2>2. Flags'
    BY <2>1, <1>1, <1>2, <1>4, <1>6, Zenon DEF Flags
  <2>3. Numbers'
    BY <2>1, <1>1, <1>2, <1>4, <1>6 DEF Numbers
  <2>4. Records'
    BY <2>1, <1>1, <1>2, <1>4, <1>6 DEF Records
  <2>5. HavePrompts'
    BY <2>1, <1>1, <1>2, <1>4, <1>6 DEF HavePrompts
  <2>. QED
    BY <2>2, <2>3, <2>4, <2>5, Zenon DEF TypeOK, Flags, Numbers, Records, HavePrompts
<1>8. Numbers /\ (\A q \in Runs : worker[q].prompt \in 0..MaxPrompts)
      /\ (\A b \in Asks : ask[b].kind \in Kinds /\ ask[b].by \in {"agent", "tool", "orphan"})
      /\ HavePrompts
  BY TypeParts, Fields DEF IInv
<1>9. Numbered'
  BY <1>1, <1>4, <1>6, <1>8 DEF IInv, Numbers, HavePrompts, Numbered
<1>10. Handing'
  <2>1. \A q \in Runs : ToHand(q)' => ToHand(q)
    BY <1>4 DEF ToHand
  <2>. QED  BY <1>1, <1>4, <2>1 DEF IInv, Handing
<1>11. Asking'
  <2>1. \A x \in Asks, q \in Runs, d \in {"agent", "tool"} :
          Open(x, q, d)' => Open(x, q, d) /\ ~(q = r /\ d = "tool")
    BY <1>6 DEF Open
  <2>2. \A x \in Asks, q \in Runs :
          /\ Open(x, q, "agent")' => worker'[q].pc = "asking"
          /\ Open(x, q, "tool")' => worker'[q].pc = "tool"
    BY <1>1, <1>4, <2>1 DEF IInv, Asking
  <2>3. ASSUME NEW x \in Asks, NEW y \in Asks, NEW q \in Runs,
               NEW c \in {"agent", "tool"}, NEW d \in {"agent", "tool"},
               Open(x, q, c)', Open(y, q, d)'
        PROVE  x = y
    <3>1. Open(x, q, c) /\ Open(y, q, d)
      BY <2>1, <2>3
    <3>. QED  BY <3>1 DEF IInv, Asking
  <2>. QED  BY <2>2, <2>3 DEF Asking
<1>12. PromptRunsOnce'
  BY <1>1, <1>4, <1>6, <1>8 DEF IInv, Numbers, HavePrompts, Handing, ToHand, PromptRunsOnce
<1>13. ShownIsAwaited'
  BY <1>1, <1>4, <1>6, <1>8 DEF IInv, Numbers, HavePrompts, Numbered, ShownIsAwaited
<1>14. WaitingIsShown'
  <2>1. \A x \in Asks : ask[x].by = "orphan" => ask'[x].by = "orphan"
    BY <1>6
  <2>. QED  BY <1>1, <1>6, <2>1 DEF IInv, WaitingIsShown
<1>15. BusyHasWorker'
  BY <1>1, <1>4, <1>6, <1>8 DEF IInv, Numbers, HavePrompts, Numbered, BusyHasWorker
<1>. QED  BY <1>7, <1>9, <1>10, <1>11, <1>12, <1>13, <1>14, <1>15 DEF IInv

\* A run returns without a question.
LEMMA ReturnKeeps == \A r \in Runs : IInv /\ Return(r) => IInv'
<1> SUFFICES ASSUME NEW r \in Runs, IInv, Return(r) PROVE IInv'
  OBVIOUS
<1>1. /\ Goto(r, "returned") /\ worker[r].pc # "none"
      /\ UNCHANGED <<busy, runId, pending, slot, cancel, interrupt, hard, ask, prompts, asks, handed>>
  BY DEF Return, ui, flags
<1>2. Flags'
  <2>1. Flags
    BY TypeParts DEF IInv
  <2>. QED  BY <1>1, <2>1, Zenon DEF Flags, Return
<1>3. \A a \in Asks : ~Open(a, r, "agent") /\ ~Open(a, r, "tool")
  BY DEF Return, IInv, Asking
<1>. QED  BY <1>1, <1>2, <1>3, MoveKeeps

\* The queued prompt moves from the slot to the worker.
LEMMA PopKeeps == \A r \in Runs : IInv /\ Pop(r) => IInv'
<1> SUFFICES ASSUME NEW r \in Runs, IInv, Pop(r) PROVE IInv'
  OBVIOUS
<1>1. /\ worker[r].pc = "returned"
      /\ UNCHANGED <<busy, runId, slot, cancel, interrupt, hard, talked, ask, prompts, asks, handed>>
  BY DEF Pop, flags
<1>2. /\ worker' \in [Runs -> Worker]
      /\ \A q \in Runs : q # r => worker'[q].pc = worker[q].pc /\ worker'[q].prompt = worker[q].prompt
      /\ \/ /\ worker'[r].pc = "resume" /\ worker'[r].prompt = pending
            /\ pending # 0 /\ pending' = 0
         \/ /\ worker'[r].pc = "report" /\ worker'[r].prompt = worker[r].prompt
            /\ pending' = pending
  <2>1. CASE Active(r) /\ pending # 0
    <3>1. [worker[r] EXCEPT !.pc = "resume", !.prompt = pending, !.followup = TRUE] \in Worker
      <4>1. worker[r] \in Worker /\ pending \in 0..MaxPrompts
        BY DEF IInv, TypeOK
      <4>. QED  BY <4>1 DEF Worker
    <3>2. worker' = [worker EXCEPT ![r] =
                 [worker[r] EXCEPT !.pc = "resume", !.prompt = pending, !.followup = TRUE]]
          /\ pending' = 0
      BY <2>1 DEF Pop, IInv, TypeOK
    <3>. QED  BY <2>1, <3>1, <3>2 DEF IInv, TypeOK, Worker
  <2>2. CASE ~(Active(r) /\ pending # 0)
    <3>1. Goto(r, "report") /\ pending' = pending
      BY <2>2 DEF Pop
    <3>. QED  BY <3>1, GotoFacts DEF IInv
  <2>. QED  BY <2>1, <2>2
<1>3. TypeOK'
  <2>1. Flags /\ Numbers /\ Records /\ HavePrompts
    BY TypeParts DEF IInv
  <2>2. Flags'
    BY <2>1, <1>1, <1>2, Zenon DEF Flags
  <2>3. Numbers'
    BY <2>1, <1>1, <1>2 DEF Numbers
  <2>4. Records'
    BY <2>1, <1>1, <1>2 DEF Records
  <2>5. HavePrompts'
    BY <2>1, <1>1, <1>2 DEF HavePrompts
  <2>. QED
    BY <2>2, <2>3, <2>4, <2>5, Zenon DEF TypeOK, Flags, Numbers, Records, HavePrompts
<1>4. Numbers /\ (\A q \in Runs : worker[q].prompt \in 0..MaxPrompts)
      /\ (\A b \in Asks : ask[b].kind \in Kinds /\ ask[b].by \in {"agent", "tool", "orphan"})
      /\ HavePrompts
  BY TypeParts, Fields DEF IInv
<1>5. Numbered'
  <2>1. \A q \in Runs : worker'[q].pc = "none" <=> worker[q].pc = "none"
    BY <1>1, <1>2
  <2>2. \A q \in Runs : worker'[q].prompt <= prompts
    BY <1>2, <1>4 DEF IInv, Numbered, Numbers
  <2>. QED  BY <1>1, <2>1, <2>2 DEF IInv, Numbered
<1>6. Handing'
  <2>1. \A q \in Runs : ToHand(q)' <=> ToHand(q) \/ (q = r /\ worker'[r].pc = "resume")
    BY <1>1, <1>2 DEF ToHand
  <2>2. ~ToHand(r)
    BY <1>1 DEF ToHand
  <2>3. /\ \A p \in Prompts : p > prompts' => handed'[p] = 0
        /\ pending' # 0 => handed'[pending'] = 0
    BY <1>1, <1>2 DEF IInv, Handing
  <2>4. \A q \in Runs : ToHand(q)' => handed'[worker'[q].prompt] = 0 /\ worker'[q].prompt # pending'
    <3> SUFFICES ASSUME NEW q \in Runs, ToHand(q)'
                 PROVE  handed'[worker'[q].prompt] = 0 /\ worker'[q].prompt # pending'
      OBVIOUS
    <3>1. CASE q = r
      BY <1>1, <1>2, <2>1, <2>2, <3>1 DEF IInv, Handing
    <3>2. CASE q # r
      <4>1. ToHand(q) /\ worker'[q].prompt = worker[q].prompt /\ worker[q].prompt # 0
        BY <1>2, <1>4, <2>1, <3>2 DEF HavePrompts, ToHand
      <4>. QED  BY <1>1, <1>2, <4>1 DEF IInv, Handing
    <3>. QED  BY <3>1, <3>2
  <2>5. \A q, w \in Runs : ToHand(q)' /\ ToHand(w)' /\ worker'[q].prompt = worker'[w].prompt => q = w
    <3> SUFFICES ASSUME NEW q \in Runs, NEW w \in Runs, ToHand(q)', ToHand(w)',
                        worker'[q].prompt = worker'[w].prompt, q # w
                 PROVE  FALSE
      OBVIOUS
    <3>1. CASE q # r /\ w # r
      BY <1>2, <2>1, <3>1 DEF IInv, Handing
    <3>2. CASE q = r
      BY <1>2, <2>1, <2>2, <3>2 DEF IInv, Handing
    <3>3. CASE w = r
      BY <1>2, <2>1, <2>2, <3>3 DEF IInv, Handing
    <3>. QED  BY <3>1, <3>2, <3>3
  <2>. QED  BY <2>3, <2>4, <2>5 DEF Handing
<1>7. Asking'
  <2>1. \A x \in Asks, q \in Runs, by \in {"agent", "tool"} : Open(x, q, by)' <=> Open(x, q, by)
    BY <1>1, <1>2 DEF Open
  <2>2. \A x \in Asks, q \in Runs :
          /\ Open(x, q, "agent") => worker'[q].pc = "asking"
          /\ Open(x, q, "tool") => worker'[q].pc = "tool"
    BY <1>1, <1>2 DEF IInv, Asking
  <2>3. ASSUME NEW x \in Asks, NEW y \in Asks, NEW q \in Runs,
               NEW c \in {"agent", "tool"}, NEW d \in {"agent", "tool"},
               Open(x, q, c)', Open(y, q, d)'
        PROVE  x = y
    <3>1. Open(x, q, c) /\ Open(y, q, d)
      BY <2>1, <2>3
    <3>. QED  BY <3>1 DEF IInv, Asking
  <2>4. \A x \in Asks, q \in Runs :
          /\ Open(x, q, "agent")' => worker'[q].pc = "asking"
          /\ Open(x, q, "tool")' => worker'[q].pc = "tool"
    BY <2>1, <2>2
  <2>. QED  BY <2>3, <2>4 DEF Asking
<1>8. PromptRunsOnce'
  BY <1>1, <1>2, <1>4 DEF IInv, Numbers, HavePrompts, Handing, ToHand, PromptRunsOnce
<1>9. ShownIsAwaited'
  BY <1>1, <1>2, <1>4 DEF IInv, Numbers, HavePrompts, Numbered, ShownIsAwaited
<1>10. WaitingIsShown'
  BY <1>1, <1>2, <1>4 DEF IInv, Numbers, HavePrompts, Numbered, WaitingIsShown
<1>11. BusyHasWorker'
  BY <1>1, <1>2, <1>4 DEF IInv, Numbers, HavePrompts, Numbered, BusyHasWorker
<1>. QED  BY <1>3, <1>5, <1>6, <1>7, <1>8, <1>9, <1>10, <1>11 DEF IInv

\* Reporting only moves the worker.
LEMMA ReportKeeps == \A r \in Runs : IInv /\ Report(r) => IInv'
<1> SUFFICES ASSUME NEW r \in Runs, IInv, Report(r) PROVE IInv'
  OBVIOUS
<1>1. /\ Goto(r, "free") /\ worker[r].pc # "none"
      /\ UNCHANGED <<busy, runId, pending, slot, cancel, interrupt, hard, talked, ask, prompts, asks, handed>>
  BY DEF Report, ui, flags
<1>2. Flags'
  <2>1. Flags
    BY TypeParts DEF IInv
  <2>. QED  BY <1>1, <2>1, Zenon DEF Flags
<1>3. \A a \in Asks : ~Open(a, r, "agent") /\ ~Open(a, r, "tool")
  BY DEF Report, IInv, Asking
<1>. QED  BY <1>1, <1>2, <1>3, MoveKeeps

\* The worker that leaves takes the busy mark back.
LEMMA FreeKeeps == \A r \in Runs : IInv /\ Free(r) => IInv'
<1> SUFFICES ASSUME NEW r \in Runs, IInv, Free(r) PROVE IInv'
  OBVIOUS
<1>1. /\ worker[r].pc = "free"
      /\ UNCHANGED <<runId, pending, slot, cancel, interrupt, hard, talked, ask, prompts, asks, handed>>
  BY DEF Free, flags
<1>2. \/ Goto(r, "unbusy") /\ ~busy' /\ busy' \in BOOLEAN
      \/ Goto(r, "over") /\ busy' = busy /\ ~Active(r)
  BY DEF Free
<1>3. Flags'
  <2>1. Flags
    BY TypeParts DEF IInv
  <2>. QED  BY <1>1, <1>2, <2>1, Zenon DEF Flags
<1>4. \A a \in Asks : ~Open(a, r, "agent") /\ ~Open(a, r, "tool")
  BY <1>1 DEF IInv, Asking
<1>5. CASE Goto(r, "unbusy") /\ ~busy'
  BY <1>1, <1>3, <1>4, <1>5, MoveKeeps
<1>6. CASE Goto(r, "over") /\ busy' = busy /\ ~Active(r)
  BY <1>1, <1>3, <1>4, <1>6, MoveKeeps DEF Active
<1>. QED  BY <1>2, <1>5, <1>6

\* No run is busy afterwards.
LEMMA UnbusyKeeps == \A r \in Runs : IInv /\ Unbusy(r) => IInv'
<1> SUFFICES ASSUME NEW r \in Runs, IInv, Unbusy(r) PROVE IInv'
  OBVIOUS
<1>1. /\ Goto(r, "over") /\ worker[r].pc # "none"
      /\ UNCHANGED <<runId, pending, slot, cancel, interrupt, hard, talked, ask, prompts, asks, handed>>
  BY DEF Unbusy, ui, flags
<1>2. Flags'
  <2>1. Flags
    BY TypeParts DEF IInv
  <2>. QED  BY <1>1, <2>1, Zenon DEF Flags, Unbusy
<1>3. \A a \in Asks : ~Open(a, r, "agent") /\ ~Open(a, r, "tool")
  BY DEF Unbusy, IInv, Asking
<1>4. ~busy'
  BY DEF Unbusy
<1>. QED  BY <1>1, <1>2, <1>3, <1>4, MoveKeeps

\* A worker goes on when its question is closed.
LEMMA ResumeKeeps == \A r \in Runs : IInv /\ Resume(r) => IInv'
<1> SUFFICES ASSUME NEW r \in Runs, IInv, Resume(r) PROVE IInv'
  OBVIOUS
<1>1. /\ Goto(r, "agent") /\ worker[r].pc # "none"
      /\ UNCHANGED <<busy, runId, pending, slot, cancel, interrupt, hard, talked, ask, prompts, asks, handed>>
  BY DEF Resume, ui, flags
<1>2. Flags'
  <2>1. Flags
    BY TypeParts DEF IInv
  <2>. QED  BY <1>1, <2>1, Zenon DEF Flags
<1>3. \A a \in Asks : ~Open(a, r, "agent") /\ ~Open(a, r, "tool")
  BY DEF Resume, IInv, Asking
<1>. QED  BY <1>1, <1>2, <1>3, MoveKeeps

\* A question gets a new number, and whoever asks has no other open.
LEMMA PostKeeps == \A r \in Runs, by \in {"agent", "tool", "orphan"}, kind \in Kinds : IInv /\ Post(r, by, kind) => IInv'
<1> SUFFICES ASSUME NEW r \in Runs, NEW by \in {"agent", "tool", "orphan"}, NEW kind \in Kinds, IInv, Post(r, by, kind) PROVE IInv'
  OBVIOUS
<1>1. /\ asks' = asks + 1 /\ asks + 1 \in Asks
      /\ UNCHANGED <<busy, runId, pending, slot, cancel, interrupt, hard, talked, prompts, handed>>
  BY DEF IInv, TypeOK, Post, ui, flags
<1>2. busy /\ runId = r
  BY DEF Post, Cancelled, Active
<1>3. [pc |-> "posted", run |-> r, kind |-> kind, by |-> by] \in Asker
  BY DEF Asker
<1>4. /\ ask' \in [Asks -> Asker]
      /\ ask'[asks + 1].pc = "posted" /\ ask'[asks + 1].run = r
      /\ ask'[asks + 1].kind = kind /\ ask'[asks + 1].by = by
      /\ \A b \in Asks : b # asks + 1 => ask'[b] = ask[b]
  BY <1>1, <1>3 DEF IInv, TypeOK, Post
<1>5. /\ worker' \in [Runs -> Worker]
      /\ \A q \in Runs : worker'[q].prompt = worker[q].prompt
      /\ \A q \in Runs : (q # r \/ by # "agent") => worker'[q].pc = worker[q].pc
      /\ by = "agent" => worker[r].pc = "agent" /\ worker'[r].pc = "asking"
      /\ by = "tool" => worker[r].pc = "tool" /\ \A a \in Asks : ~Open(a, r, "tool")
  <2>1. CASE by = "agent"
    <3>1. Goto(r, "asking") /\ worker[r].pc = "agent"
      BY <2>1 DEF Post, MayAsk
    <3>. QED  BY <2>1, <3>1, GotoFacts DEF IInv
  <2>2. CASE by # "agent"
    <3>1. worker' = worker
      BY <2>2 DEF Post
    <3>2. by = "tool" => worker[r].pc = "tool" /\ \A a \in Asks : ~Open(a, r, "tool")
      BY <2>2 DEF Post, MayAsk
    <3>. QED  BY <2>2, <3>1, <3>2 DEF IInv, TypeOK
  <2>. QED  BY <2>1, <2>2
<1>6. TypeOK'
  <2>1. Flags /\ Numbers /\ Records /\ HavePrompts
    BY TypeParts DEF IInv
  <2>2. Flags'
    BY <2>1, <1>1, <1>4, <1>5, Zenon DEF Flags
  <2>3. Numbers'
    BY <2>1, <1>1, <1>4, <1>5 DEF Numbers
  <2>4. Records'
    BY <2>1, <1>1, <1>4, <1>5 DEF Records
  <2>5. HavePrompts'
    BY <2>1, <1>1, <1>4, <1>5 DEF HavePrompts
  <2>. QED
    BY <2>2, <2>3, <2>4, <2>5, Zenon DEF TypeOK, Flags, Numbers, Records, HavePrompts
<1>7. Numbers /\ (\A q \in Runs : worker[q].prompt \in 0..MaxPrompts)
      /\ (\A b \in Asks : ask[b].kind \in Kinds /\ ask[b].by \in {"agent", "tool", "orphan"})
      /\ HavePrompts
  BY TypeParts, Fields DEF IInv
<1>8. Numbered'
  <2>1. \A q \in Runs : worker'[q].pc = "none" <=> worker[q].pc = "none"
    BY <1>5
  <2>2. \A b \in Asks : ask'[b].pc = "none" <=> b > asks + 1
    BY <1>1, <1>4, <1>7 DEF IInv, Numbered, Numbers
  <2>3. ASSUME NEW b \in Asks, b <= asks + 1 PROVE ask'[b].run \in 1..runId
    <3>1. CASE b = asks + 1
      BY <1>2, <1>4, <3>1
    <3>2. CASE b # asks + 1
      <4>1. b <= asks
        BY <1>7, <2>3, <3>2 DEF Numbers
      <4>. QED  BY <1>4, <3>2, <4>1 DEF IInv, Numbered
    <3>. QED  BY <3>1, <3>2
  <2>. QED  BY <1>1, <1>5, <2>1, <2>2, <2>3 DEF IInv, Numbered
<1>9. Handing'
  <2>1. \A q \in Runs : ToHand(q)' => ToHand(q)
    BY <1>5 DEF ToHand
  <2>. QED  BY <1>1, <1>5, <2>1 DEF IInv, Handing
<1>10. Asking'
  <2>1. \A x \in Asks, q \in Runs, d \in {"agent", "tool"} :
          Open(x, q, d)' <=> (Open(x, q, d) /\ x # asks + 1) \/ (x = asks + 1 /\ q = r /\ d = by)
    BY <1>4 DEF Open
  <2>2. by \in {"agent", "tool"} => \A x \in Asks, d \in {"agent", "tool"} : ~Open(x, r, d)
    BY <1>5 DEF IInv, Asking
  <2>3. \A x \in Asks, q \in Runs :
          /\ Open(x, q, "agent")' => worker'[q].pc = "asking"
          /\ Open(x, q, "tool")' => worker'[q].pc = "tool"
    BY <1>5, <2>1, <2>2 DEF IInv, Asking
  <2>4. \A x, y \in Asks, q \in Runs, c, d \in {"agent", "tool"} :
          Open(x, q, c)' /\ Open(y, q, d)' => x = y
    BY <2>1, <2>2 DEF IInv, Asking
  <2>. QED  BY <2>3, <2>4 DEF Asking
<1>11. PromptRunsOnce'
  BY <1>1, <1>2, <1>4, <1>5, <1>7 DEF IInv, Numbers, HavePrompts, Handing, ToHand, PromptRunsOnce
<1>12. ShownIsAwaited'
  BY <1>1, <1>2, <1>4, <1>5, <1>7 DEF IInv, Numbers, HavePrompts, Numbered, ShownIsAwaited
<1>13. WaitingIsShown'
  <2> SUFFICES ASSUME NEW x \in Asks, ask'[x].pc = "waiting"
               PROVE  \/ \E m \in Kinds : slot'[m] = x
                      \/ \E b \in Asks \ {x} : /\ ask'[b].pc # "none" /\ ask'[b].kind = ask'[x].kind
                                               /\ "orphan" \in {ask'[x].by, ask'[b].by}
    BY DEF WaitingIsShown
  <2>1. x # asks + 1 /\ ask'[x] = ask[x]
    BY <1>4
  <2>2. ASSUME NEW b \in Asks, ask[b].pc # "none" PROVE ask'[b] = ask[b]
    BY <1>4, <1>7, <2>2 DEF IInv, Numbered, Numbers
  <2>. QED  BY <1>1, <2>1, <2>2 DEF IInv, WaitingIsShown
<1>14. BusyHasWorker'
  BY <1>1, <1>2, <1>4, <1>5, <1>7 DEF IInv, Numbers, HavePrompts, Numbered, BusyHasWorker
<1>. QED  BY <1>6, <1>8, <1>9, <1>10, <1>11, <1>12, <1>13, <1>14 DEF IInv

\* A question of the latest run goes on the screen, over one of another thread.
LEMMA ShowKeeps == \A a \in Asks : IInv /\ Show(a) => IInv'
<1> SUFFICES ASSUME NEW a \in Asks, IInv, Show(a) PROVE IInv'
  OBVIOUS
<1>1. /\ ask[a].pc = "posted"
      /\ UNCHANGED <<busy, runId, pending, cancel, interrupt, hard, talked, worker, prompts, asks, handed>>
  BY DEF Show, flags
<1>2. /\ ask' \in [Asks -> Asker]
      /\ \A b \in Asks :
           /\ ask'[b].run = ask[b].run /\ ask'[b].kind = ask[b].kind /\ ask'[b].by = ask[b].by
           /\ b # a => ask'[b].pc = ask[b].pc
      /\ \/ /\ ask'[a].pc = "waiting" /\ ask[a].run = runId
            /\ slot' = [slot EXCEPT ![ask[a].kind] = a]
         \/ ask'[a].pc = "answered" /\ slot' = slot
  <2>1. CASE Active(ask[a].run)
    <3>1. [ask[a] EXCEPT !.pc = "waiting"] \in Asker
      <4>1. ask[a] \in Asker
        BY DEF IInv, TypeOK
      <4>. QED  BY <4>1 DEF Asker
    <3>2. /\ ask' = [ask EXCEPT ![a] = [ask[a] EXCEPT !.pc = "waiting"]]
          /\ slot' = [slot EXCEPT ![ask[a].kind] = a]
          /\ ask[a].run = runId
      BY <2>1 DEF Show, Active, IInv, TypeOK
    <3>. QED  BY <3>1, <3>2 DEF IInv, TypeOK, Asker
  <2>2. CASE ~Active(ask[a].run)
    <3>1. Answer(a) /\ slot' = slot
      BY <2>2 DEF Show
    <3>. QED  BY <3>1, AnswerFacts DEF IInv
  <2>. QED  BY <2>1, <2>2
<1>3. ask[a].kind \in Kinds /\ a \in 1..asks
  BY <1>1 DEF IInv, TypeOK, Numbered, Asker
<1>4. TypeOK'
  <2>1. Flags /\ Numbers /\ Records /\ HavePrompts
    BY TypeParts DEF IInv
  <2>2. Flags'
    BY <2>1, <1>1, <1>2, <1>3, Zenon DEF Flags
  <2>3. Numbers'
    BY <2>1, <1>1, <1>2, <1>3 DEF Numbers
  <2>4. Records'
    BY <2>1, <1>1, <1>2, <1>3 DEF Records
  <2>5. HavePrompts'
    BY <2>1, <1>1, <1>2, <1>3 DEF HavePrompts
  <2>. QED
    BY <2>2, <2>3, <2>4, <2>5, Zenon DEF TypeOK, Flags, Numbers, Records, HavePrompts
<1>5. Numbers /\ (\A q \in Runs : worker[q].prompt \in 0..MaxPrompts)
      /\ (\A b \in Asks : ask[b].kind \in Kinds /\ ask[b].by \in {"agent", "tool", "orphan"})
      /\ HavePrompts
  BY TypeParts, Fields DEF IInv
<1>6. Numbered'
  BY <1>1, <1>2, <1>3, <1>5 DEF IInv, Numbers, HavePrompts, Numbered
<1>7. Handing'
  BY <1>1, <1>2, <1>3, <1>5 DEF IInv, Numbers, HavePrompts, Numbered, Handing, ToHand
<1>8. Asking'
  <2>1. \A x \in Asks, q \in Runs, d \in {"agent", "tool"} : Open(x, q, d)' => Open(x, q, d)
    BY <1>1, <1>2 DEF Open
  <2>. QED  BY <1>1, <2>1 DEF IInv, Asking
<1>9. PromptRunsOnce'
  BY <1>1, <1>2, <1>3, <1>5 DEF IInv, Numbers, HavePrompts, Handing, ToHand, PromptRunsOnce
<1>10. ShownIsAwaited'
  BY <1>1, <1>2, <1>3, <1>5 DEF IInv, Numbers, HavePrompts, Numbered, ShownIsAwaited
<1>11. WaitingIsShown'
  <2> SUFFICES ASSUME NEW x \in Asks, ask'[x].pc = "waiting"
               PROVE  \/ \E m \in Kinds : slot'[m] = x
                      \/ \E b \in Asks \ {x} : /\ ask'[b].pc # "none" /\ ask'[b].kind = ask'[x].kind
                                               /\ "orphan" \in {ask'[x].by, ask'[b].by}
    BY DEF WaitingIsShown
  <2>1. CASE x = a
    BY <1>2, <1>3, <1>5, <2>1 DEF Numbers
  <2>2. CASE x # a
    <3>1. ask[x].pc = "waiting"
      BY <1>2, <2>2
    <3>2. CASE \E m \in Kinds : slot[m] = x
      <4>1. PICK m \in Kinds : slot[m] = x
        BY <3>2
      <4>2. CASE slot'[m] = x
        BY <4>2
      <4>3. CASE slot'[m] # x
        <5>1. ask'[a].pc = "waiting" /\ ask[a].run = runId /\ m = ask[a].kind
          BY <1>2, <1>3, <1>5, <4>1, <4>3 DEF Numbers
        <5>2. ask[x].kind = m /\ ask[x].run = runId
          BY <4>1 DEF IInv, ShownIsAwaited
        <5>3. runId \in Runs
          BY <1>3, <1>5, <5>1 DEF IInv, Numbered, Numbers
        <5>4. "orphan" \in {ask[x].by, ask[a].by}
          <6> SUFFICES ASSUME ask[x].by # "orphan", ask[a].by # "orphan" PROVE FALSE
            OBVIOUS
          <6>1. Open(x, runId, ask[x].by) /\ Open(a, runId, ask[a].by)
            BY <1>1, <3>1, <5>1, <5>2 DEF Open
          <6>2. ask[x].by \in {"agent", "tool"} /\ ask[a].by \in {"agent", "tool"}
            BY <1>5
          <6>. QED  BY <2>2, <5>3, <6>1, <6>2 DEF IInv, Asking
        <5>. QED  BY <1>2, <2>2, <5>1, <5>2, <5>4
      <4>. QED  BY <4>2, <4>3
    <3>3. CASE ~\E m \in Kinds : slot[m] = x
      <4>1. PICK b \in Asks \ {x} : /\ ask[b].pc # "none" /\ ask[b].kind = ask[x].kind
                                    /\ "orphan" \in {ask[x].by, ask[b].by}
        BY <3>1, <3>3 DEF IInv, WaitingIsShown
      <4>2. ask'[b].pc # "none"
        BY <1>2, <4>1
      <4>. QED  BY <1>2, <4>1, <4>2
    <3>. QED  BY <3>2, <3>3
  <2>. QED  BY <2>1, <2>2
<1>12. BusyHasWorker'
  BY <1>1, <1>2, <1>3, <1>5 DEF IInv, Numbers, HavePrompts, Numbered, BusyHasWorker
<1>. QED  BY <1>4, <1>6, <1>7, <1>8, <1>9, <1>10, <1>11, <1>12 DEF IInv

\* A step in which nothing changes.
LEMMA Stutters == IInv /\ UNCHANGED vars => IInv'
<1> SUFFICES ASSUME IInv, UNCHANGED vars PROVE IInv'
  OBVIOUS
<1>1. UNCHANGED <<busy, runId, pending, slot, cancel, interrupt, hard, talked,
                  worker, ask, prompts, asks, handed>>
  BY DEF vars, ui, flags
<1>2. TypeOK'
  BY <1>1 DEF IInv, TypeOK
<1>3. Numbered' /\ Handing' /\ Asking'
  BY <1>1 DEF IInv, Numbered, Handing, ToHand, Asking, Open
<1>4. PromptRunsOnce' /\ ShownIsAwaited' /\ WaitingIsShown' /\ BusyHasWorker'
  BY <1>1 DEF IInv, PromptRunsOnce, ShownIsAwaited, WaitingIsShown, BusyHasWorker
<1>. QED  BY <1>2, <1>3, <1>4 DEF IInv

\* Every step keeps the invariant.
LEMMA StepKeeps == IInv /\ [Next]_vars => IInv'
<1> SUFFICES ASSUME IInv, [Next]_vars PROVE IInv'
  OBVIOUS
<1>1. CASE SubmitClarification \/ SubmitPrompt \/ Escape \/ NewChat
  BY <1>1, SubmitClarificationKeeps, SubmitPromptKeeps, EscapeKeeps, NewChatKeeps
<1>2. ASSUME NEW k \in Kinds, SubmitAnswer(k) PROVE IInv'
  BY <1>2, SubmitAnswerKeeps
<1>3. ASSUME NEW r \in Runs, Chat(r) PROVE IInv'
  <2>1. CASE Begin(r) \/ ClearFlags(r) \/ RunFails(r) \/ CallTool(r)
    BY <2>1, BeginKeeps, ClearFlagsKeeps, RunFailsKeeps, CallToolKeeps
  <2>2. CASE ToolEnds(r) \/ AbandonTool(r) \/ Return(r) \/ Pop(r)
    BY <2>2, ToolEndsKeeps, AbandonToolKeeps, ReturnKeeps, PopKeeps
  <2>3. CASE Report(r) \/ Free(r) \/ Unbusy(r) \/ Resume(r)
    BY <2>3, ReportKeeps, FreeKeeps, UnbusyKeeps, ResumeKeeps
  <2>. QED  BY <1>3, <2>1, <2>2, <2>3 DEF Chat
<1>4. ASSUME NEW r \in Runs, NEW by \in {"agent", "tool", "orphan"}, NEW kind \in Kinds,
             Post(r, by, kind)
      PROVE  IInv'
  BY <1>4, PostKeeps
<1>5. ASSUME NEW a \in Asks, Show(a) PROVE IInv'
  BY <1>5, ShowKeeps
<1>6. CASE UNCHANGED vars
  BY <1>6, Stutters
<1>. QED  BY <1>1, <1>2, <1>3, <1>4, <1>5, <1>6 DEF Next

\* The invariant holds in every state.
THEOREM Invariance == Spec => []IInv
<1>1. Init => IInv
  BY Initial
<1>2. IInv /\ [Next]_vars => IInv'
  BY StepKeeps
<1>. QED  BY <1>1, <1>2, PTL DEF Spec

\* The variables keep their types.
THEOREM TypeCorrect == Spec => []TypeOK
<1>1. IInv => TypeOK
  BY DEF IInv
<1>. QED  BY <1>1, Invariance, PTL

\* No prompt is given to the runtime twice, however many clarifications,
\* cancellations and runs there are: what run_chat takes from the slot is gone
\* from it.
THEOREM PromptsRunOnce == Spec => []PromptRunsOnce
<1>1. IInv => PromptRunsOnce
  BY DEF IInv
<1>. QED  BY <1>1, Invariance, PTL

\* What is on the screen is a question of the latest run whose thread waits for
\* the answer: on_input_submitted never gives an answer to nobody.
THEOREM AnswersAreAwaited == Spec => []ShownIsAwaited
<1>1. IInv => ShownIsAwaited
  BY DEF IInv
<1>. QED  BY <1>1, Invariance, PTL

\* A thread that waits for the user is on the screen, unless the thread of a
\* tool call that was given up asked over it: a run alone never replaces its own
\* question.
THEOREM QuestionsAreShown == Spec => []WaitingIsShown
<1>1. IInv => WaitingIsShown
  BY DEF IInv
<1>. QED  BY <1>1, Invariance, PTL

\* The busy mark belongs to a run whose worker has not left, on every way out of
\* run_chat: the application does not queue prompts that nobody takes.
THEOREM BusyIsFreed == Spec => []BusyHasWorker
<1>1. IInv => BusyHasWorker
  BY DEF IInv
<1>. QED  BY <1>1, Invariance, PTL

==============================================================================

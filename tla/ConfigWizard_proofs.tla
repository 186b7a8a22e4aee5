-------------------------- MODULE ConfigWizard_proofs --------------------------
(***************************************************************************)
(* Proofs about the wizard and the menu, for any number of answers: a      *)
(* session that can be used stays so, and a wizard that ends well leaves   *)
(* one whose provider has answered.                                        *)
(***************************************************************************)
EXTENDS ConfigWizard, SequenceTheorems, TLAPS

-----------------------------------------------------------------------------
(* The invariant.                                                          *)

Models == {"OPENROUTER_MODEL", "OLLAMA_MODEL", "OPENAI_COMPATIBLE_MODEL"}

\* The provider whose model is asked for.
ProviderOf(s) == CASE s = "OPENROUTER_MODEL" -> "open_router"
                   [] s = "OLLAMA_MODEL" -> "ollama"
                   [] s = "OPENAI_COMPATIBLE_MODEL" -> "openai_compatible"

\* The providers past whose connect check the user gets with the settings there
\* are: the check of Ollama is no answer when another URL was given.
Passed == checked \union (IF ollama = "other" THEN {"ollama"} ELSE {})

\* First a provider is set up and tried, then its model is chosen, then the
\* questions come that all providers share.
Rank(s) == IF s \in Models THEN 2
           ELSE IF s \in Common \union {"DONE", "EXIT"} THEN 3 ELSE 1

\* The states that ask on a page.
Fits(p, s) ==
  \/ p = "PROVIDER" /\ s = "PROVIDER"
  \/ p = "KEY_CHOICE" /\ s = "OPENROUTER_KEY_CHOICE"
  \/ p = "KEY" /\ s = "OPENROUTER_KEY_INPUT"
  \/ p \in {"URL", "OPTIONAL_KEY"} /\ s = "OPENAI_COMPATIBLE_URL"
  \/ p = "OLLAMA_URL" /\ s = "OLLAMA_URL_INPUT"
  \/ p = "RETRY" /\ s = "OPENROUTER_MODEL"
  \/ p = "MODEL" /\ s \in Models
  \/ p = "EXIT" /\ s \in {"OLLAMA_MODEL", "OLLAMA_INSTALL_CHECK"}
  \/ p \in Common /\ s = p

\* A page on screen is the one the worker waits for, and what was answered
\* belongs to it.
Prompted ==
  /\ screen # "none" => pc = "wait" /\ screen = page /\ reply = "none"
  /\ pc \in {"ask", "show", "wait"} => Fits(page, state)
  /\ pc = "wait" /\ reply \notin {"none", "back", "cancel"} => reply \in Answers(page)

\* Going back never leads forward.
Ordered ==
  /\ \A i \in 1..Len(history) : Rank(history[i]) <= Rank(state)
  /\ \A i, j \in 1..Len(history) : i <= j => Rank(history[i]) <= Rank(history[j])

\* A provider whose model is asked for, or was and can be again, has passed.
Tried ==
  /\ state \in Models => ProviderOf(state) \in Passed
  /\ \A i \in 1..Len(history) : history[i] \in Models => ProviderOf(history[i]) \in Passed

\* Past the models, the session's provider has passed.
Usable == state \in Common \union {"DONE"} => chosen \in Passed

\* A provider that has answered has settings.
HasSettings ==
  /\ "open_router" \in checked => key # ""
  /\ "openai_compatible" \in checked => url # ""

\* The menu is closed while the worker runs, and its success is its last state.
Resting ==
  /\ pc = "idle" => state = "PROVIDER" /\ history = <<>>
  /\ menu # "closed" => pc = "idle"
  /\ pc = "finish" /\ result = 0 => state = "DONE"

IInv == TypeOK /\ Prompted /\ Ordered /\ Tried /\ Usable /\ HasSettings /\ Resting

-----------------------------------------------------------------------------
(* Facts about the parts of the state.                                     *)

Places == /\ pc \in {"idle", "enter", "ask", "show", "wait", "done", "finish"}
          /\ state \in States \union {"DONE", "EXIT"} /\ page \in Pages \union {"none"}
          /\ history \in Seq(Interactive)
Prompts == /\ screen \in Pages \union {"none"}
           /\ reply \in {"none", "back", "cancel"} \union UNION {Answers(p) : p \in Pages}
Settings == /\ key \in {"", "good", "bad"} /\ url \in {"", "good", "bad"}
            /\ ollama \in {"local", "other"}
            /\ chosen \in Providers \union {"none", "other"} /\ checked \in SUBSET Providers
Session == /\ host \in {"app", "panel"} /\ mode \in {"initial", "provider"}
           /\ cancelled \in BOOLEAN /\ result \in {0, 1} /\ closed \in BOOLEAN
           /\ using \in Providers \union {"none"}
           /\ menu \in {"closed", "main", "models", "settings"}
           /\ answers \in 0..MaxAnswers /\ opens \in 0..MaxOpens

LEMMA TypeParts == TypeOK <=> Places /\ Prompts /\ Settings /\ Session
<1>. QED  BY DEF TypeOK, Places, Prompts, Settings, Session

LEMMA AnswerSets ==
  /\ Answers("PROVIDER") = Providers /\ Answers("KEY_CHOICE") = {"keep", "new"}
  /\ Answers("KEY") = {"", "good", "bad"} /\ Answers("URL") = {"", "good", "bad"}
  /\ Answers("OLLAMA_URL") = {"local", "other"}
<1>1. Answers("PROVIDER") = Providers
  <2>1. "PROVIDER" \notin {"EXIT", "RETRY", "MODEL", "OPTIONAL_KEY"} \union Common
    BY DEF Common
  <2>. QED  BY <2>1 DEF Answers
<1>2. Answers("KEY_CHOICE") = {"keep", "new"}
  <2>1. "KEY_CHOICE" \notin {"EXIT", "RETRY", "MODEL", "OPTIONAL_KEY"} \union Common
    BY DEF Common
  <2>. QED  BY <2>1 DEF Answers
<1>3. Answers("KEY") = {"", "good", "bad"}
  <2>1. "KEY" \notin {"EXIT", "RETRY", "MODEL", "OPTIONAL_KEY"} \union Common
    BY DEF Common
  <2>. QED  BY <2>1 DEF Answers
<1>4. Answers("URL") = {"", "good", "bad"}
  <2>1. "URL" \notin {"EXIT", "RETRY", "MODEL", "OPTIONAL_KEY"} \union Common
    BY DEF Common
  <2>. QED  BY <2>1 DEF Answers
<1>5. Answers("OLLAMA_URL") = {"local", "other"}
  <2>1. "OLLAMA_URL" \notin {"EXIT", "RETRY", "MODEL", "OPTIONAL_KEY"} \union Common
    BY DEF Common
  <2>. QED  BY <2>1 DEF Answers
<1>. QED  BY <1>1, <1>2, <1>3, <1>4, <1>5

LEMMA Ranks ==
  /\ \A s \in Models : Rank(s) = 2 /\ s \in States /\ s \notin NonInteractive
  /\ \A s \in Common : Rank(s) = 3 /\ s \in States /\ s \notin NonInteractive /\ s \notin Models
  /\ Rank("DONE") = 3 /\ Rank("EXIT") = 3
  /\ {"DONE", "EXIT"} \cap States = {}
  /\ \A s \in States : /\ Rank(s) \in 1..3
                       /\ Rank(s) = 1 <=> s \notin Models \union Common
                       /\ Rank(s) = 3 <=> s \in Common
<1>1. \A s \in Models : s \in States /\ s \notin NonInteractive /\ s \notin Common
  BY DEF Models, States, NonInteractive, Common
<1>2. \A s \in Common : s \in States /\ s \notin NonInteractive /\ s \notin Models
  BY DEF Models, States, NonInteractive, Common
<1>3. {"DONE", "EXIT"} \cap States = {}
  BY DEF States, NonInteractive, Common
<1>4. "DONE" \notin Models /\ "EXIT" \notin Models
  BY DEF Models
<1>. QED  BY <1>1, <1>2, <1>3, <1>4 DEF Rank

\* Before any model, none was asked for and no common question.
LEMMA EarlyHistory ==
  ASSUME Places, Ordered, Rank(state) = 1
  PROVE  state \notin Models \union Common \union {"DONE"} /\ \A i \in 1..Len(history) : history[i] \notin Models
<1>1. \A i \in 1..Len(history) : history[i] \in States
  BY ElementOfSeq DEF Places, Interactive
<1>2. \A i \in 1..Len(history) : Rank(history[i]) = 1
  BY <1>1, Ranks DEF Ordered
<1>3. state \notin Models \union Common \union {"DONE"}
  BY Ranks DEF Places
<1>. QED  BY <1>1, <1>2, <1>3, Ranks

\* The worker asks within one of the states.
LEMMA FitsStates ==
  ASSUME NEW p, NEW s, Fits(p, s)
  PROVE  s \in States /\ p \in Pages
<1>. QED  BY DEF Fits, States, Pages, NonInteractive, Common, Models

\* The menu is closed unless the worker rests.
LEMMA Busy ==
  ASSUME IInv, pc # "idle"
  PROVE  menu = "closed"
<1>. QED  BY DEF IInv, Resting

\* What a step may do to the settings: the only provider that is no longer taken
\* for tried is one that is being set up.
StoreStep ==
  /\ Settings' /\ HasSettings'
  /\ Passed \subseteq Passed' \/ Rank(state) = 1

LEMMA TriedStays ==
  ASSUME Places, Ordered, Tried, StoreStep
  PROVE  /\ state \in Models => ProviderOf(state) \in Passed'
         /\ \A i \in 1..Len(history) : history[i] \in Models => ProviderOf(history[i]) \in Passed'
<1>1. CASE Passed \subseteq Passed'
  BY <1>1 DEF Tried
<1>2. CASE Rank(state) = 1
  BY <1>2, EarlyHistory
<1>. QED  BY <1>1, <1>2 DEF StoreStep

LEMMA StoreSame ==
  ASSUME IInv, UNCHANGED store
  PROVE  StoreStep /\ chosen' = chosen /\ Passed' = Passed
<1>. QED  BY TypeParts DEF store, StoreStep, IInv, Settings, HasSettings, Passed

\* A step that moves neither the state of the worker nor what was stored.
LEMMA FramedKeeps ==
  ASSUME IInv, UNCHANGED <<state, page, history, store>>, Prompts', Session', Prompted', Resting',
         pc' \in {"idle", "enter", "ask", "show", "wait", "done", "finish"}
  PROVE  IInv'
<1>1. Places /\ Ordered /\ Tried /\ Usable
  BY TypeParts DEF IInv
<1>2. StoreStep /\ chosen' = chosen /\ Passed' = Passed
  BY StoreSame
<1>3. Places'
  BY <1>1 DEF Places
<1>4. TypeOK'
  BY <1>2, <1>3 DEF StoreStep, TypeOK, Places, Prompts, Settings, Session
<1>5. Ordered' /\ Tried' /\ Usable'
  BY <1>1, <1>2 DEF Ordered, Tried, Usable
<1>. QED  BY <1>2, <1>4, <1>5 DEF IInv, StoreStep

-----------------------------------------------------------------------------
(* The steps of the worker.                                                *)

LEMMA StopKeeps ==
  ASSUME IInv, Stop, pc # "idle", screen = "none"
  PROVE  IInv'
<1>1. /\ pc' = "finish" /\ state' = state /\ page' = page /\ history' = history /\ result' = 1
      /\ screen' = screen /\ reply' = reply /\ UNCHANGED store
      /\ UNCHANGED <<host, mode, cancelled, closed, using, menu, opens, answers>>
  BY DEF Stop, At, prompt
<1>2. Places /\ Prompts /\ Session /\ menu = "closed" /\ Ordered /\ Tried /\ Usable
  BY TypeParts, Busy DEF IInv
<1>3. StoreStep /\ chosen' = chosen /\ Passed' = Passed
  BY <1>1, StoreSame
<1>4. Places' /\ Prompts' /\ Session'
  <2>1. Places'
    BY <1>1, <1>2 DEF Places
  <2>2. Prompts'
    BY <1>1, <1>2 DEF Prompts
  <2>3. Session'
    BY <1>1, <1>2 DEF Session
  <2>. QED  BY <2>1, <2>2, <2>3
<1>5. TypeOK'
  BY <1>3, <1>4 DEF StoreStep, TypeOK, Places, Prompts, Settings, Session
<1>6. Prompted' /\ Resting'
  BY <1>1, <1>2 DEF Prompted, Resting
<1>7. Ordered' /\ Tried' /\ Usable'
  BY <1>1, <1>2, <1>3 DEF Ordered, Tried, Usable
<1>. QED  BY <1>3, <1>5, <1>6, <1>7 DEF IInv, StoreStep

\* A handler that asks stays in its state.
LEMMA AskKeeps ==
  ASSUME IInv, NEW p, Ask(p), Fits(p, state), pc \in {"enter", "wait"}, screen = "none",
         StoreStep, chosen' = chosen
  PROVE  IInv'
<1>1. /\ pc' = "ask" /\ state' = state /\ page' = p /\ history' = history /\ reply' = "none"
      /\ screen' = screen
      /\ UNCHANGED <<host, mode, cancelled, result, closed, using, menu, opens, answers>>
  BY DEF Ask, app
<1>2. /\ Places /\ Prompts /\ Session /\ menu = "closed" /\ Ordered /\ Tried /\ Usable
      /\ state \in States /\ p \in Pages
  BY TypeParts, Busy, FitsStates DEF IInv
<1>3. Places' /\ Prompts' /\ Session'
  <2>1. Places'
    BY <1>1, <1>2 DEF Places
  <2>2. Prompts'
    BY <1>1, <1>2 DEF Prompts
  <2>3. Session'
    BY <1>1, <1>2 DEF Session
  <2>. QED  BY <2>1, <2>2, <2>3
<1>4. TypeOK'
  BY <1>3 DEF StoreStep, TypeOK, Places, Prompts, Settings, Session
<1>5. Prompted' /\ Resting'
  BY <1>1, <1>2 DEF Prompted, Resting
<1>6. Ordered'
  BY <1>1, <1>2 DEF Ordered
<1>7. Tried'
  BY <1>1, <1>2, TriedStays DEF Tried
<1>8. Usable'
  <2>1. state \in Common \union {"DONE"} => Passed \subseteq Passed'
    BY <1>2, EarlyHistory DEF StoreStep
  <2>. QED  BY <1>1, <1>2, <2>1 DEF Usable
<1>. QED  BY <1>4, <1>5, <1>6, <1>7, <1>8 DEF IInv, StoreStep

\* A handler that returns leads on, never back.
LEMMA AdvanceKeeps ==
  ASSUME IInv, NEW next \in States \union {"DONE", "EXIT"}, Advance(next),
         state \in States, Rank(state) <= Rank(next),
         pc \in {"enter", "wait"}, screen = "none", StoreStep,
         next \in Models => ProviderOf(next) \in Passed',
         next \in Common \union {"DONE"} => chosen' \in Passed'
  PROVE  IInv'
<1>1. /\ pc' \in {"enter", "done"} /\ state' = next /\ page' = "none" /\ reply' = "none"
      /\ history' = history \/ (history' = Append(history, state) /\ state \in Interactive)
      /\ screen' = screen
      /\ UNCHANGED <<host, mode, cancelled, result, closed, using, menu, opens, answers>>
  BY DEF Advance, app, Interactive
<1>2. Places /\ Prompts /\ Session /\ menu = "closed" /\ Ordered /\ Tried
  BY TypeParts, Busy DEF IInv
<1>3. /\ history \in Seq(Interactive) /\ history' \in Seq(Interactive)
      /\ Len(history) \in Nat /\ Len(history') \in {Len(history), Len(history) + 1}
      /\ \A i \in 1..Len(history) : history'[i] = history[i] /\ history[i] \in States
      /\ Len(history') = Len(history) + 1 => history'[Len(history) + 1] = state
  <2>1. history \in Seq(Interactive) /\ Len(history) \in Nat
    BY <1>2, LenProperties DEF Places
  <2>2. CASE history' = history
    BY <2>1, <2>2, ElementOfSeq DEF Interactive
  <2>3. CASE history' = Append(history, state) /\ state \in Interactive
    BY <2>1, <2>3, ElementOfSeq, AppendProperties DEF Interactive
  <2>. QED  BY <1>1, <2>2, <2>3
<1>4. Places' /\ Prompts' /\ Session'
  <2>1. Places'
    BY <1>1, <1>3 DEF Places
  <2>2. Prompts'
    BY <1>1, <1>2 DEF Prompts
  <2>3. Session'
    BY <1>1, <1>2 DEF Session
  <2>. QED  BY <2>1, <2>2, <2>3
<1>5. TypeOK'
  BY <1>4 DEF StoreStep, TypeOK, Places, Prompts, Settings, Session
<1>6. Prompted' /\ Resting'
  BY <1>1, <1>2 DEF Prompted, Resting
<1>7. \A i \in 1..Len(history') : i \in 1..Len(history) \/ (i = Len(history) + 1 /\ history'[i] = state)
  BY <1>3
<1>8. Ordered'
  <2>1. Rank(state) \in 1..3 /\ Rank(next) \in 1..3 /\ \A i \in 1..Len(history) : Rank(history[i]) \in 1..3
    BY <1>3, Ranks
  <2>2. \A i \in 1..Len(history') : Rank(history'[i]) <= Rank(state)
    BY <1>2, <1>3, <1>7, <2>1 DEF Ordered
  <2>3. \A i \in 1..Len(history') : Rank(history'[i]) <= Rank(next)
    BY <1>3, <1>7, <2>1, <2>2
  <2>4. \A i, j \in 1..Len(history') : i <= j => Rank(history'[i]) <= Rank(history'[j])
    <3> SUFFICES ASSUME NEW i \in 1..Len(history'), NEW j \in 1..Len(history'), i <= j
                 PROVE  Rank(history'[i]) <= Rank(history'[j])
      OBVIOUS
    <3>1. CASE j \in 1..Len(history)
      <4>1. i \in 1..Len(history)
        BY <1>3, <3>1
      <4>. QED  BY <1>2, <1>3, <3>1, <4>1 DEF Ordered
    <3>2. CASE history'[j] = state
      BY <2>2, <3>2
    <3>. QED  BY <1>7, <3>1, <3>2
  <2>. QED  BY <1>1, <2>3, <2>4 DEF Ordered
<1>9. Tried'
  BY <1>1, <1>2, <1>3, <1>7, TriedStays DEF Tried
<1>10. Usable'
  BY <1>1 DEF Usable
<1>. QED  BY <1>5, <1>6, <1>8, <1>9, <1>10 DEF IInv, StoreStep

\* The states in which a provider is set up.
LEMMA EarlyStates ==
  \A s \in {"PROVIDER", "OPENROUTER_KEY_CHOICE", "OPENROUTER_KEY_INPUT", "OLLAMA_URL_INPUT",
            "OPENAI_COMPATIBLE_URL"} \union NonInteractive : s \in States /\ Rank(s) = 1
<1>. SUFFICES ASSUME NEW s \in {"PROVIDER", "OPENROUTER_KEY_CHOICE", "OPENROUTER_KEY_INPUT",
                                "OLLAMA_URL_INPUT", "OPENAI_COMPATIBLE_URL"} \union NonInteractive
              PROVE  s \in States /\ Rank(s) = 1
  OBVIOUS
<1>1. s \in States
  BY DEF States
<1>2. s \notin Models /\ s \notin Common
  BY DEF Models, Common, NonInteractive
<1>. QED  BY <1>1, <1>2, Ranks

\* A handler that goes on to a model, of a provider that has answered.
LEMMA ModelAdvance ==
  ASSUME IInv, NEW next \in Models, Advance(next), state \in States, Rank(state) = 1,
         pc \in {"enter", "wait"}, screen = "none", StoreStep, ProviderOf(next) \in Passed'
  PROVE  IInv'
<1>1. next \in States /\ Rank(next) = 2 /\ next \notin Common
  BY Ranks
<1>2. next # "DONE"
  BY <1>1, Ranks
<1>3. Rank(state) <= Rank(next)
  BY <1>1
<1>. QED  BY <1>1, <1>2, <1>3, AdvanceKeeps

\* Once a page is answered it is no longer on screen, and the answer is one of the page's.
LEMMA RepliedFacts ==
  ASSUME IInv, NEW p, Replied(p)
  PROVE  /\ pc = "wait" /\ screen = "none" /\ Fits(p, state) /\ state \in States
         /\ reply \in Answers(p)
<1>1. pc = "wait" /\ page = p /\ reply \notin {"none", "back", "cancel"}
  BY DEF Replied
<1>2. screen = "none" /\ Fits(p, state) /\ reply \in Answers(p)
  BY <1>1 DEF IInv, Prompted
<1>. QED  BY <1>1, <1>2, FitsStates

\* A handler that neither stores anything nor leaves its state.
LEMMA PlainAsk ==
  ASSUME IInv, NEW p, Ask(p), Fits(p, state), pc \in {"enter", "wait"}, screen = "none",
         UNCHANGED store
  PROVE  IInv'
<1>. QED  BY StoreSame, AskKeeps

\* A handler that stores nothing and stays before the models.
LEMMA PlainAdvance ==
  ASSUME IInv, NEW next \in States, Advance(next), state \in States, Rank(state) = 1,
         Rank(next) = 1, pc \in {"enter", "wait"}, screen = "none", UNCHANGED store
  PROVE  IInv'
<1>1. next \notin Models \union Common \union {"DONE"}
  BY Ranks
<1>. QED  BY <1>1, StoreSame, AdvanceKeeps

\* A handler that gives up.
LEMMA ExitAdvance ==
  ASSUME IInv, Advance("EXIT"), state \in States, pc \in {"enter", "wait"}, screen = "none",
         UNCHANGED store
  PROVE  IInv'
<1>1. "EXIT" \notin Models \union Common \union {"DONE"}
  BY DEF Models, Common
<1>2. Rank(state) <= Rank("EXIT")
  BY Ranks
<1>. QED  BY <1>1, <1>2, StoreSame, AdvanceKeeps

\* At the start of a state nothing is on screen.
LEMMA Blank ==
  ASSUME IInv, pc # "wait"
  PROVE  screen = "none"
<1>. QED  BY DEF IInv, Prompted

\* The states that ask.
LEMMA EnterPageKeeps ==
  ASSUME IInv, EnterPage
  PROVE  IInv'
<1>1. pc = "enter" /\ screen = "none"
  BY Blank DEF EnterPage, In
<1>2. ASSUME NEW s, NEW p, In(s), Fits(p, s), Ask(p), UNCHANGED store
      PROVE  IInv'
  BY <1>1, <1>2, PlainAsk DEF In
<1>3. CASE In("PROVIDER") /\ Ask("PROVIDER") /\ UNCHANGED store
  <2>1. Fits("PROVIDER", "PROVIDER")
    BY DEF Fits
  <2>. QED  BY <1>2, <1>3, <2>1
<1>4. CASE In("PROVIDER") /\ Advance("EXIT") /\ UNCHANGED store
  BY <1>1, <1>4, ExitAdvance, EarlyStates DEF In
<1>5. CASE In("PROVIDER") /\ Stop
  BY <1>1, <1>5, StopKeeps
<1>6. CASE In("OPENROUTER_KEY_CHOICE") /\ Ask("KEY_CHOICE") /\ UNCHANGED store
  <2>1. Fits("KEY_CHOICE", "OPENROUTER_KEY_CHOICE")
    BY DEF Fits
  <2>. QED  BY <1>2, <1>6, <2>1
<1>7. CASE In("OPENROUTER_KEY_INPUT") /\ Ask("KEY") /\ UNCHANGED store
  <2>1. Fits("KEY", "OPENROUTER_KEY_INPUT")
    BY DEF Fits
  <2>. QED  BY <1>2, <1>7, <2>1
<1>8. CASE In("OPENROUTER_MODEL") /\ (Ask("MODEL") \/ Ask("RETRY")) /\ UNCHANGED store
  <2>1. Fits("MODEL", "OPENROUTER_MODEL") /\ Fits("RETRY", "OPENROUTER_MODEL")
    BY DEF Fits, Models
  <2>. QED  BY <1>2, <1>8, <2>1
<1>9. CASE In("OLLAMA_URL_INPUT") /\ Ask("OLLAMA_URL") /\ UNCHANGED store
  <2>1. Fits("OLLAMA_URL", "OLLAMA_URL_INPUT")
    BY DEF Fits
  <2>. QED  BY <1>2, <1>9, <2>1
<1>10. CASE In("OLLAMA_MODEL") /\ (Ask("MODEL") \/ Ask("EXIT")) /\ UNCHANGED store
  <2>1. Fits("MODEL", "OLLAMA_MODEL") /\ Fits("EXIT", "OLLAMA_MODEL")
    BY DEF Fits, Models
  <2>. QED  BY <1>2, <1>10, <2>1
<1>11. CASE In("OPENAI_COMPATIBLE_URL") /\ Ask("URL") /\ UNCHANGED store
  <2>1. Fits("URL", "OPENAI_COMPATIBLE_URL")
    BY DEF Fits
  <2>. QED  BY <1>2, <1>11, <2>1
<1>12. CASE In("OPENAI_COMPATIBLE_MODEL") /\ Ask("MODEL") /\ UNCHANGED store
  <2>1. Fits("MODEL", "OPENAI_COMPATIBLE_MODEL")
    BY DEF Fits, Models
  <2>. QED  BY <1>2, <1>12, <2>1
<1>13. ASSUME NEW c \in Common, In(c), Ask(c), UNCHANGED store
       PROVE  IInv'
  <2>1. Fits(c, c)
    BY DEF Fits
  <2>. QED  BY <1>2, <1>13, <2>1
<1>. QED  BY <1>3, <1>4, <1>5, <1>6, <1>7, <1>8, <1>9, <1>10, <1>11, <1>12, <1>13 DEF EnterPage

\* The URL of Ollama is set anew while Ollama is being set up.
LEMMA InstallCheckKeeps ==
  ASSUME IInv, InstallCheck
  PROVE  IInv'
<1>1. /\ pc = "enter" /\ screen = "none" /\ state = "OLLAMA_INSTALL_CHECK"
      /\ state \in States /\ Rank(state) = 1
  BY Blank, EarlyStates DEF InstallCheck, In, NonInteractive
<1>2. CASE Ask("EXIT") /\ UNCHANGED store
  <2>1. Fits("EXIT", state)
    BY <1>1 DEF Fits
  <2>. QED  BY <1>1, <1>2, <2>1, PlainAsk
<1>3. CASE Stop
  BY <1>1, <1>3, StopKeeps
<1>4. CASE /\ ollama' \in {"local", "other"} /\ checked' = checked \ {"ollama"}
           /\ Advance("OLLAMA_CONNECT") /\ UNCHANGED <<key, url, chosen>>
  <2>1. StoreStep
    BY <1>1, <1>4, TypeParts DEF IInv, StoreStep, Settings, HasSettings, Passed
  <2>2. "OLLAMA_CONNECT" \in States /\ Rank("OLLAMA_CONNECT") = 1
    BY EarlyStates DEF NonInteractive
  <2>3. "OLLAMA_CONNECT" \notin Models \union Common \union {"DONE"}
    BY <2>2, Ranks
  <2>. QED  BY <1>1, <1>4, <2>1, <2>2, <2>3, AdvanceKeeps
<1>. QED  BY <1>2, <1>3, <1>4 DEF InstallCheck

\* A provider that answers has settings that are not empty.
LEMMA ConnectKeeps ==
  ASSUME IInv, NEW s \in NonInteractive, NEW provider \in Providers, NEW accepted \in BOOLEAN,
         NEW answered \in SUBSET {provider},
         provider \in answered \/ (provider = "ollama" /\ ollama = "other"),
         NEW yes \in Models, NEW no \in States, Connect(s, accepted, answered, yes, no),
         Rank(no) = 1, ProviderOf(yes) = provider,
         accepted /\ provider = "open_router" => key # "",
         accepted /\ provider = "openai_compatible" => url # ""
  PROVE  IInv'
<1>1. pc = "enter" /\ screen = "none" /\ state = s /\ state \in States /\ Rank(state) = 1
  BY Blank, EarlyStates DEF Connect, In
<1>2. CASE /\ accepted /\ checked' = checked \union answered /\ Advance(yes)
           /\ UNCHANGED <<key, url, ollama, chosen>>
  <2>1. StoreStep
    BY <1>1, <1>2, TypeParts DEF IInv, StoreStep, Settings, HasSettings, Passed
  <2>2. ProviderOf(yes) \in Passed'
    BY <1>2 DEF Passed
  <2>. QED  BY <1>1, <1>2, <2>1, <2>2, ModelAdvance
<1>3. CASE Advance(no) /\ UNCHANGED store
  BY <1>1, <1>3, PlainAdvance
<1>4. CASE Stop
  BY <1>1, <1>4, StopKeeps
<1>. QED  BY <1>2, <1>3, <1>4 DEF Connect

\* The three of them.
LEMMA ConnectsKeeps ==
  ASSUME IInv, Connects
  PROVE  IInv'
<1>1. CASE Connect("OPENROUTER_CONNECT", key = "good", {"open_router"},
                   "OPENROUTER_MODEL", "OPENROUTER_KEY_INPUT")
  <2>1. /\ "OPENROUTER_CONNECT" \in NonInteractive /\ "open_router" \in Providers
        /\ "OPENROUTER_MODEL" \in Models /\ (key = "good") \in BOOLEAN
    BY DEF NonInteractive, Providers, Models
  <2>2. "OPENROUTER_KEY_INPUT" \in States /\ Rank("OPENROUTER_KEY_INPUT") = 1
    BY EarlyStates
  <2>3. ProviderOf("OPENROUTER_MODEL") = "open_router"
    BY DEF ProviderOf
  <2>. QED  BY <1>1, <2>1, <2>2, <2>3, ConnectKeeps
<1>2. CASE Connect("OPENAI_COMPATIBLE_CONNECT", url = "good", {"openai_compatible"},
                   "OPENAI_COMPATIBLE_MODEL", "OPENAI_COMPATIBLE_URL")
  <2>1. /\ "OPENAI_COMPATIBLE_CONNECT" \in NonInteractive /\ "openai_compatible" \in Providers
        /\ "OPENAI_COMPATIBLE_MODEL" \in Models /\ (url = "good") \in BOOLEAN
    BY DEF NonInteractive, Providers, Models
  <2>2. "OPENAI_COMPATIBLE_URL" \in States /\ Rank("OPENAI_COMPATIBLE_URL") = 1
    BY EarlyStates
  <2>3. ProviderOf("OPENAI_COMPATIBLE_MODEL") = "openai_compatible"
    BY DEF ProviderOf
  <2>. QED  BY <1>2, <2>1, <2>2, <2>3, ConnectKeeps
<1>3. CASE Connect("OLLAMA_CONNECT", TRUE, OllamaAnswers, "OLLAMA_MODEL", "OLLAMA_URL_INPUT")
  <2>1. "OLLAMA_CONNECT" \in NonInteractive /\ "ollama" \in Providers /\ "OLLAMA_MODEL" \in Models
    BY DEF NonInteractive, Providers, Models
  <2>2. "OLLAMA_URL_INPUT" \in States /\ Rank("OLLAMA_URL_INPUT") = 1
    BY EarlyStates
  <2>3. ProviderOf("OLLAMA_MODEL") = "ollama"
    BY DEF ProviderOf
  <2>4. ollama \in {"local", "other"}
    BY TypeParts DEF IInv, Settings
  <2>5. OllamaAnswers \in SUBSET {"ollama"} /\ ("ollama" \in OllamaAnswers \/ ollama = "other")
    BY <2>4 DEF OllamaAnswers
  <2>. QED  BY <1>3, <2>1, <2>2, <2>3, <2>5, ConnectKeeps
<1>. QED  BY <1>1, <1>2, <1>3 DEF Connects

\* A handler that goes on before the models.
LEMMA EarlyAdvance ==
  ASSUME IInv, NEW next \in States, Advance(next), state \in States, Rank(state) = 1,
         Rank(next) = 1, pc \in {"enter", "wait"}, screen = "none", StoreStep
  PROVE  IInv'
<1>1. next \notin Models \union Common \union {"DONE"}
  BY Ranks
<1>. QED  BY <1>1, AdvanceKeeps

\* Before a page the worker looks at the cancellation, then has the loop show it.
LEMMA CheckAliveKeeps ==
  ASSUME IInv, CheckAlive
  PROVE  IInv'
<1>1. pc = "ask" /\ screen = "none"
  BY Blank DEF CheckAlive
<1>2. CASE Stop
  BY <1>1, <1>2, StopKeeps
<1>3. CASE At("show") /\ UNCHANGED <<prompt, store, app, answers>>
  <2>1. pc' = "show" /\ UNCHANGED <<state, page, history, screen, reply>>
    BY <1>3 DEF At, prompt
  <2>2. UNCHANGED <<host, mode, cancelled, result, closed, using, menu, opens, answers>>
    BY <1>3 DEF app
  <2>3. Prompts /\ Session /\ menu = "closed" /\ Fits(page, state)
    BY <1>1, TypeParts, Busy DEF IInv, Prompted
  <2>4. Prompts' /\ Session'
    BY <2>1, <2>2, <2>3 DEF Prompts, Session
  <2>5. Prompted' /\ Resting'
    BY <1>1, <2>1, <2>2, <2>3 DEF Prompted, Resting
  <2>. QED  BY <1>3, <2>1, <2>4, <2>5, FramedKeeps
<1>. QED  BY <1>2, <1>3 DEF CheckAlive

LEMMA ShowKeeps ==
  ASSUME IInv, Show
  PROVE  IInv'
<1>1. pc = "show" /\ screen = "none" /\ menu = "closed"
  BY Blank, Busy DEF Show
<1>2. CASE Stop
  BY <1>1, <1>2, StopKeeps
<1>3. CASE /\ pc' = "wait" /\ screen' = page /\ reply' = "none"
           /\ UNCHANGED <<state, page, history, store, app, answers>>
  <2>1. UNCHANGED <<host, mode, cancelled, result, closed, using, menu, opens, answers>>
    BY <1>3 DEF app
  <2>2. Fits(page, state) /\ page \in Pages
    BY <1>1, FitsStates DEF IInv, Prompted
  <2>3. Prompts /\ Session
    BY TypeParts DEF IInv
  <2>4. Prompts' /\ Session'
    BY <1>3, <2>1, <2>2, <2>3 DEF Prompts, Session
  <2>5. Prompted' /\ Resting'
    BY <1>1, <1>3, <2>1, <2>2 DEF Prompted, Resting
  <2>. QED  BY <1>3, <2>4, <2>5, FramedKeeps
<1>. QED  BY <1>2, <1>3 DEF Show

\* The answers with which a provider is set up.
LEMMA ProviderGivenKeeps ==
  ASSUME IInv, ProviderGiven
  PROVE  IInv'
<1>1. /\ pc = "wait" /\ screen = "none" /\ Fits("PROVIDER", state) /\ state \in States
      /\ reply \in Providers
  BY RepliedFacts, AnswerSets DEF ProviderGiven
<1>2. state = "PROVIDER"
  BY <1>1 DEF Fits, Common
<1>3. ASSUME NEW next \in {"OPENROUTER_KEY_CHOICE", "OPENROUTER_KEY_INPUT", "OPENAI_COMPATIBLE_URL"}
                 \union NonInteractive, Advance(next), UNCHANGED store
      PROVE  IInv'
  BY <1>1, <1>2, <1>3, EarlyStates, PlainAdvance
<1>4. CASE reply = "open_router"
  BY <1>3, <1>4 DEF ProviderGiven
<1>5. CASE reply = "openai_compatible"
  BY <1>3, <1>5 DEF ProviderGiven
<1>6. CASE reply = "ollama"
  BY <1>3, <1>6 DEF ProviderGiven, NonInteractive
<1>. QED  BY <1>1, <1>4, <1>5, <1>6 DEF Providers

LEMMA KeyChoiceGivenKeeps ==
  ASSUME IInv, KeyChoiceGiven
  PROVE  IInv'
<1>1. pc = "wait" /\ screen = "none" /\ Fits("KEY_CHOICE", state) /\ state \in States
  BY RepliedFacts DEF KeyChoiceGiven
<1>2. state = "OPENROUTER_KEY_CHOICE"
  BY <1>1 DEF Fits, Common
<1>3. ASSUME NEW next \in {"OPENROUTER_KEY_INPUT", "OPENROUTER_CONNECT"}, Advance(next), UNCHANGED store
      PROVE  IInv'
  BY <1>1, <1>2, <1>3, EarlyStates, PlainAdvance DEF NonInteractive
<1>. QED  BY <1>3 DEF KeyChoiceGiven

\* A new key is not empty, and makes the provider one that has not answered.
LEMMA KeyGivenKeeps ==
  ASSUME IInv, KeyGiven
  PROVE  IInv'
<1>1. /\ pc = "wait" /\ screen = "none" /\ Fits("KEY", state) /\ state \in States
      /\ reply \in {"", "good", "bad"}
  BY RepliedFacts, AnswerSets DEF KeyGiven
<1>2. state = "OPENROUTER_KEY_INPUT"
  BY <1>1 DEF Fits, Common
<1>3. CASE Ask("KEY") /\ UNCHANGED store
  BY <1>1, <1>3, PlainAsk
<1>4. CASE /\ reply # "" /\ key' = reply /\ checked' = checked \ {"open_router"}
           /\ Advance("OPENROUTER_CONNECT") /\ UNCHANGED <<url, ollama, chosen>>
  <2>1. Rank(state) = 1 /\ "OPENROUTER_CONNECT" \in States /\ Rank("OPENROUTER_CONNECT") = 1
    BY <1>2, EarlyStates DEF NonInteractive
  <2>2. StoreStep
    BY <1>1, <1>4, <2>1, TypeParts DEF IInv, StoreStep, Settings, HasSettings, Passed
  <2>. QED  BY <1>1, <1>4, <2>1, <2>2, EarlyAdvance
<1>. QED  BY <1>3, <1>4 DEF KeyGiven

LEMMA UrlGivenKeeps ==
  ASSUME IInv, UrlGiven
  PROVE  IInv'
<1>1. /\ pc = "wait" /\ screen = "none" /\ Fits("URL", state) /\ state \in States
      /\ reply \in {"", "good", "bad"}
  BY RepliedFacts, AnswerSets DEF UrlGiven
<1>2. state = "OPENAI_COMPATIBLE_URL" /\ Rank(state) = 1
  BY <1>1, EarlyStates DEF Fits, Common
<1>3. CASE Advance("OPENAI_COMPATIBLE_URL") /\ UNCHANGED store
  BY <1>1, <1>2, <1>3, PlainAdvance
<1>4. CASE /\ reply # "" /\ url' = reply /\ checked' = checked \ {"openai_compatible"}
           /\ Ask("OPTIONAL_KEY") /\ UNCHANGED <<key, ollama, chosen>>
  <2>1. StoreStep
    BY <1>1, <1>2, <1>4, TypeParts DEF IInv, StoreStep, Settings, HasSettings, Passed
  <2>2. Fits("OPTIONAL_KEY", state)
    BY <1>2 DEF Fits
  <2>. QED  BY <1>1, <1>4, <2>1, <2>2, AskKeeps
<1>. QED  BY <1>3, <1>4 DEF UrlGiven

LEMMA OptionalKeyGivenKeeps ==
  ASSUME IInv, OptionalKeyGiven
  PROVE  IInv'
<1>1. pc = "wait" /\ screen = "none" /\ Fits("OPTIONAL_KEY", state) /\ state \in States
  BY RepliedFacts DEF OptionalKeyGiven
<1>2. state = "OPENAI_COMPATIBLE_URL" /\ Rank(state) = 1
  BY <1>1, EarlyStates DEF Fits, Common
<1>3. StoreStep
  BY <1>2, TypeParts DEF OptionalKeyGiven, IInv, StoreStep, Settings, HasSettings
<1>4. "OPENAI_COMPATIBLE_CONNECT" \in States /\ Rank("OPENAI_COMPATIBLE_CONNECT") = 1
  BY EarlyStates DEF NonInteractive
<1>. QED  BY <1>1, <1>2, <1>3, <1>4, EarlyAdvance DEF OptionalKeyGiven

LEMMA OllamaUrlGivenKeeps ==
  ASSUME IInv, OllamaUrlGiven
  PROVE  IInv'
<1>1. /\ pc = "wait" /\ screen = "none" /\ Fits("OLLAMA_URL", state) /\ state \in States
      /\ reply \in {"local", "other"}
  BY RepliedFacts, AnswerSets DEF OllamaUrlGiven
<1>2. state = "OLLAMA_URL_INPUT" /\ Rank(state) = 1
  BY <1>1, EarlyStates DEF Fits, Common
<1>3. StoreStep
  BY <1>1, <1>2, TypeParts DEF OllamaUrlGiven, IInv, StoreStep, Settings, HasSettings
<1>4. "OLLAMA_CONNECT" \in States /\ Rank("OLLAMA_CONNECT") = 1
  BY EarlyStates DEF NonInteractive
<1>. QED  BY <1>1, <1>2, <1>3, <1>4, EarlyAdvance DEF OllamaUrlGiven

\* The provider whose model is chosen has answered, and becomes the session's.
LEMMA ModelGivenKeeps ==
  ASSUME IInv, ModelGiven
  PROVE  IInv' /\ chosen' \in Passed /\ UNCHANGED <<key, url, ollama, checked>>
<1>1. /\ pc = "wait" /\ screen = "none" /\ Fits("MODEL", state) /\ state \in States
  BY RepliedFacts DEF ModelGiven
<1>2. state \in Models /\ Rank(state) = 2
  BY <1>1, Ranks DEF Fits, Common
<1>3. PICK next \in {"DONE", "COMMON_BASH"} : Choose(ProviderOf(state)) /\ Advance(next)
  <2>1. ProviderOf("OPENROUTER_MODEL") = "open_router" /\ ProviderOf("OLLAMA_MODEL") = "ollama"
        /\ ProviderOf("OPENAI_COMPATIBLE_MODEL") = "openai_compatible"
    BY DEF ProviderOf
  <2>. QED  BY <2>1 DEF ModelGiven
<1>4. ProviderOf(state) \in Passed /\ ProviderOf(state) \in Providers
  <2>1. ProviderOf(state) \in Passed
    BY <1>2 DEF IInv, Tried
  <2>. QED  BY <2>1, TypeParts DEF IInv, Settings, Passed, Providers
<1>5. chosen' = ProviderOf(state) /\ UNCHANGED <<key, url, ollama, checked>>
  BY <1>3 DEF Choose
<1>6. StoreStep
  BY <1>4, <1>5, TypeParts DEF IInv, StoreStep, Settings, HasSettings, Passed
<1>7. next \in States \union {"DONE", "EXIT"} /\ next \notin Models /\ Rank(next) = 3
  <2>1. "COMMON_BASH" \in Common
    BY DEF Common
  <2>2. "DONE" \notin Models
    BY DEF Models
  <2>. QED  BY <2>1, <2>2, Ranks
<1>8. chosen' \in Passed'
  BY <1>4, <1>5 DEF Passed
<1>9. IInv'
  BY <1>1, <1>2, <1>3, <1>6, <1>7, <1>8, AdvanceKeeps
<1>. QED  BY <1>4, <1>5, <1>9

LEMMA AcknowledgedKeeps ==
  ASSUME IInv, Acknowledged
  PROVE  IInv'
<1>1. CASE Replied("RETRY") /\ Advance("OPENROUTER_MODEL") /\ UNCHANGED store
  <2>1. pc = "wait" /\ screen = "none" /\ Fits("RETRY", state) /\ state \in States
    BY <1>1, RepliedFacts
  <2>2. state = "OPENROUTER_MODEL" /\ state \in Models
    BY <2>1 DEF Fits, Common, Models
  <2>3. Rank(state) <= Rank(state) /\ state \notin Common \union {"DONE"}
    BY <2>2, Ranks
  <2>4. ProviderOf(state) \in Passed'
    BY <1>1, <2>2, StoreSame DEF IInv, Tried
  <2>. QED  BY <1>1, <2>1, <2>2, <2>3, <2>4, StoreSame, AdvanceKeeps
<1>2. CASE Replied("EXIT") /\ Advance("EXIT") /\ UNCHANGED store
  BY <1>2, RepliedFacts, ExitAdvance
<1>. QED  BY <1>1, <1>2 DEF Acknowledged

\* The common questions come after the models.
LEMMA CommonGivenKeeps ==
  ASSUME IInv, CommonGiven
  PROVE  IInv'
<1>1. PICK c \in Common : /\ Replied(c)
                          /\ Advance(CASE c = "COMMON_BASH" -> "COMMON_THINKING"
                                       [] c = "COMMON_THINKING" -> "COMMON_PROACTIVE_AUTH"
                                       [] c = "COMMON_PROACTIVE_AUTH" -> "DONE")
                          /\ UNCHANGED store
  BY DEF CommonGiven
<1>2. PICK next \in Common \union {"DONE"} : Advance(next)
  BY <1>1 DEF Common
<1>3. pc = "wait" /\ screen = "none" /\ Fits(c, state) /\ state \in States
  BY <1>1, RepliedFacts
<1>4. state \in Common
  BY <1>3 DEF Fits, Common
<1>5. next \in States \union {"DONE", "EXIT"} /\ Rank(state) <= Rank(next) /\ next \notin Models
  <2>1. "DONE" \notin Models
    BY DEF Models
  <2>. QED  BY <1>4, <2>1, Ranks
<1>6. chosen \in Passed /\ StoreStep /\ chosen' = chosen /\ Passed' = Passed
  BY <1>1, <1>4, StoreSame DEF IInv, Usable
<1>. QED  BY <1>2, <1>3, <1>5, <1>6, AdvanceKeeps

\* Going back leads to the state before, at most as far on as this one.
LEMMA GoBackKeeps ==
  ASSUME IInv, GoBack
  PROVE  IInv'
<1>1. pc = "wait" /\ screen = "none" /\ menu = "closed"
  BY Busy DEF GoBack, IInv, Prompted
<1>2. CASE Stop
  BY <1>1, <1>2, StopKeeps
<1>3. CASE /\ history # <<>> /\ state' = Last(history) /\ history' = Front(history)
           /\ page' = "none" /\ pc' = "enter" /\ reply' = "none"
           /\ UNCHANGED <<screen, store, app, answers>>
  <2>1. UNCHANGED <<host, mode, cancelled, result, closed, using, menu, opens, answers>>
    BY <1>3 DEF app
  <2>2. /\ Places /\ Prompts /\ Session /\ Ordered /\ Tried /\ Usable
        /\ history \in Seq(Interactive)
    BY TypeParts DEF IInv, Places
  <2>3. StoreStep /\ chosen' = chosen /\ Passed' = Passed
    BY <1>3, StoreSame
  <2>4. /\ Len(history) \in Nat /\ Len(history) >= 1
        /\ history' = [i \in 1..(Len(history) - 1) |-> history[i]]
        /\ state' = history[Len(history)]
    <3>1. Len(history) \in Nat /\ Len(history) >= 1
      BY <1>3, <2>2, LenProperties, EmptySeq
    <3>2. Front(history) = [i \in 1..(Len(history) - 1) |-> history[i]]
      BY <2>2, <3>1 DEF Front
    <3>. QED  BY <1>3, <3>1, <3>2 DEF Last
  <2>5. /\ history' \in Seq(Interactive) /\ Len(history') = Len(history) - 1 /\ state' \in States
        /\ \A i \in 1..Len(history') : i \in 1..Len(history) /\ history'[i] = history[i]
        /\ Len(history) \in 1..Len(history)
    <3>1. \A i \in 1..Len(history) : history[i] \in Interactive /\ history[i] \in States
      BY <2>2, ElementOfSeq DEF Interactive
    <3>. QED  BY <2>4, <3>1, SeqDef, LenProperties
  <2>6. Places'
    BY <1>3, <2>5 DEF Places
  <2>7. Prompts' /\ Session'
    BY <1>3, <2>1, <2>2 DEF Prompts, Session
  <2>8. TypeOK'
    BY <2>3, <2>6, <2>7 DEF StoreStep, TypeOK, Places, Prompts, Settings, Session
  <2>9. Prompted' /\ Resting'
    BY <1>1, <1>3, <2>1 DEF Prompted, Resting
  <2>10. Ordered'
    <3>1. \A i, j \in 1..Len(history) : i <= j => Rank(history[i]) <= Rank(history[j])
      BY <2>2 DEF Ordered
    <3>2. \A i \in 1..Len(history') : Rank(history[i]) <= Rank(history[Len(history)])
      BY <2>4, <2>5, <3>1
    <3>3. \A i \in 1..Len(history') : Rank(history'[i]) <= Rank(state')
      BY <2>4, <2>5, <3>2
    <3>4. \A i, j \in 1..Len(history') : i <= j => Rank(history'[i]) <= Rank(history'[j])
      BY <2>5, <3>1
    <3>. QED  BY <3>3, <3>4 DEF Ordered
  <2>11. Tried'
    BY <2>2, <2>3, <2>4, <2>5 DEF Tried
  <2>12. Usable'
    <3>1. Rank(state') <= Rank(state) /\ state \in States
      BY <1>1, <2>2, <2>4, <2>5, FitsStates DEF Ordered, IInv, Prompted
    <3>2. state' \in Common => Rank(state) = 3
      BY <2>5, <3>1, Ranks
    <3>3. state' \in Common => state \in Common
      BY <3>1, <3>2, Ranks
    <3>4. state' # "DONE"
      BY <2>5, Ranks
    <3>. QED  BY <2>2, <2>3, <3>3, <3>4 DEF Usable
  <2>. QED  BY <2>3, <2>8, <2>9, <2>10, <2>11, <2>12 DEF IInv, StoreStep
<1>. QED  BY <1>2, <1>3 DEF GoBack

LEMMA GivenUpKeeps ==
  ASSUME IInv, GivenUp
  PROVE  IInv'
<1>1. pc = "wait" /\ screen = "none"
  BY DEF GivenUp, IInv, Prompted
<1>. QED  BY <1>1, StopKeeps DEF GivenUp

LEMMA DoneKeeps ==
  ASSUME IInv, Done
  PROVE  IInv'
<1>1. pc = "done" /\ screen = "none" /\ menu = "closed"
  BY Blank, Busy DEF Done
<1>2. CASE Stop
  BY <1>1, <1>2, StopKeeps
<1>3. CASE /\ state = "DONE" /\ At("finish") /\ result' = 0
           /\ UNCHANGED <<prompt, store, host, mode, cancelled, closed, using, menu, opens, answers>>
  <2>1. pc' = "finish" /\ UNCHANGED <<state, page, history, screen, reply>>
    BY <1>3 DEF At, prompt
  <2>2. Prompts /\ Session
    BY TypeParts DEF IInv
  <2>3. Prompts' /\ Session'
    BY <1>3, <2>1, <2>2 DEF Prompts, Session
  <2>4. Prompted' /\ Resting'
    BY <1>1, <1>3, <2>1 DEF Prompted, Resting
  <2>. QED  BY <1>3, <2>1, <2>3, <2>4, FramedKeeps
<1>. QED  BY <1>2, <1>3 DEF Done

\* At rest the worker stands before its first state.
LEMMA FreshKeeps ==
  ASSUME IInv, state' = "PROVIDER", page' = "none", history' = <<>>, screen' = "none",
         reply' = "none", pc' \in {"idle", "enter"}, menu' = "closed", Session', UNCHANGED store
  PROVE  IInv'
<1>1. /\ history' \in Seq(Interactive) /\ Len(history') = 0 /\ 1..Len(history') = {}
      /\ "PROVIDER" \in States /\ "PROVIDER" \notin Models \union Common \union {"DONE"}
  BY EmptySeq, EarlyStates, Ranks
<1>2. StoreStep /\ chosen' = chosen /\ Passed' = Passed
  BY StoreSame
<1>3. Places' /\ Prompts'
  BY <1>1 DEF Places, Prompts
<1>4. TypeOK'
  BY <1>2, <1>3 DEF StoreStep, TypeOK, Places, Prompts, Settings, Session
<1>5. Prompted' /\ Resting'
  BY DEF Prompted, Resting
<1>6. Ordered' /\ Tried' /\ Usable'
  BY <1>1 DEF Ordered, Tried, Usable
<1>. QED  BY <1>2, <1>4, <1>5, <1>6 DEF IInv, StoreStep

LEMMA FinishKeeps ==
  ASSUME IInv, Finish
  PROVE  IInv'
<1>1. menu = "closed"
  BY Busy DEF Finish
<1>2. Session
  BY TypeParts DEF IInv
<1>3. using' \in Providers \union {"none"}
  BY <1>2 DEF Finish, Session
<1>4. Session'
  BY <1>2, <1>3 DEF Finish, Session
<1>. QED  BY <1>1, <1>4, FreshKeeps DEF Finish

-----------------------------------------------------------------------------
(* The user's steps.                                                       *)

\* An answer is one of those the page offers.
LEMMA AnswerKeeps ==
  ASSUME IInv, Answer
  PROVE  IInv'
<1>1. /\ pc = "wait" /\ screen = page /\ screen \in Pages /\ menu = "closed" /\ answers < MaxAnswers
      /\ Fits(page, state)
  BY TypeParts, Busy DEF Answer, IInv, Prompted, Prompts
<1>2. PICK r \in Answers(screen) : screen' = "none" /\ reply' = r
  BY DEF Answer, Set
<1>3. /\ UNCHANGED <<pc, state, page, history, store>> /\ answers' = answers + 1
      /\ UNCHANGED <<host, mode, cancelled, result, closed, using, menu, opens>>
  BY DEF Answer, worker, app
<1>4. Prompts /\ Session
  BY TypeParts DEF IInv
<1>5. Prompts'
  BY <1>1, <1>2 DEF Prompts
<1>6. answers' \in 0..MaxAnswers
  BY <1>1, <1>3, <1>4, ConfigWizardAssumption DEF Session
<1>7. Session'
  BY <1>3, <1>4, <1>6 DEF Session
<1>8. Prompted' /\ Resting'
  BY <1>1, <1>2, <1>3 DEF Prompted, Resting
<1>. QED  BY <1>1, <1>3, <1>5, <1>7, <1>8, FramedKeeps

\* Giving up, from the page or between two pages, makes no wizard end well.
LEMMA CancelKeeps ==
  ASSUME IInv, Cancel, closed' \in BOOLEAN, pc # "idle"
  PROVE  IInv'
<1>1. /\ UNCHANGED <<pc, state, page, history, store>> /\ cancelled' = TRUE /\ result' = 1
      /\ UNCHANGED <<host, mode, using, menu, opens, answers>>
  BY DEF Cancel, worker
<1>2. Prompts /\ Session /\ menu = "closed"
  BY TypeParts, Busy DEF IInv
<1>3. \/ screen # "none" /\ screen' = "none" /\ reply' = "cancel"
      \/ screen = "none" /\ UNCHANGED <<screen, reply>>
  BY DEF Cancel, Set, prompt
<1>4. Prompts'
  BY <1>2, <1>3 DEF Prompts
<1>5. Session'
  BY <1>1, <1>2 DEF Session
<1>6. Prompted'
  <2>1. CASE screen # "none" /\ screen' = "none" /\ reply' = "cancel"
    BY <1>1, <2>1 DEF IInv, Prompted
  <2>2. CASE screen = "none" /\ UNCHANGED <<screen, reply>>
    BY <1>1, <2>2 DEF IInv, Prompted
  <2>. QED  BY <1>3, <2>1, <2>2
<1>7. Resting'
  BY <1>1, <1>2 DEF Resting, IInv
<1>8. pc \in {"idle", "enter", "ask", "show", "wait", "done", "finish"}
  BY TypeParts DEF IInv, Places
<1>. QED  BY <1>1, <1>4, <1>5, <1>6, <1>7, <1>8, FramedKeeps

LEMMA EscapeKeeps ==
  ASSUME IInv, Escape
  PROVE  IInv'
<1>1. pc # "idle" /\ menu = "closed"
  BY Busy DEF Escape
<1>2. CASE Back
  <2>1. /\ UNCHANGED <<pc, state, page, history, store>> /\ screen' = "none" /\ reply' = "back"
        /\ UNCHANGED <<host, mode, cancelled, result, closed, using, menu, opens, answers>>
    BY <1>2 DEF Back, Set, worker, app
  <2>2. Prompts /\ Session /\ pc = "wait"
    BY <1>2, TypeParts DEF IInv, Prompted, Back
  <2>3. Prompts' /\ Session'
    BY <2>1, <2>2 DEF Prompts, Session
  <2>4. Prompted' /\ Resting'
    BY <1>1, <2>1, <2>2 DEF Prompted, Resting, IInv
  <2>. QED  BY <2>1, <2>2, <2>3, <2>4, FramedKeeps
<1>3. CASE Cancel /\ UNCHANGED closed
  <2>1. closed' \in BOOLEAN
    BY <1>3, TypeParts DEF IInv, Session
  <2>. QED  BY <1>1, <1>3, <2>1, CancelKeeps
<1>. QED  BY <1>2, <1>3 DEF Escape

\* The menu turns only while the worker rests.
LEMMA MenuTurns ==
  ASSUME IInv, UNCHANGED <<worker, prompt, store, host, mode, cancelled, result, closed, using, answers>>,
         menu' \in {"closed", "main", "models", "settings"}, opens' \in 0..MaxOpens, pc = "idle"
  PROVE  IInv'
<1>1. UNCHANGED <<pc, state, page, history, screen, reply, store>>
  BY DEF worker, prompt
<1>2. Prompts /\ Session
  BY TypeParts DEF IInv
<1>3. Prompts' /\ Session'
  BY <1>1, <1>2 DEF Prompts, Session
<1>4. Prompted' /\ Resting'
  BY <1>1 DEF Prompted, Resting, IInv
<1>. QED  BY <1>1, <1>3, <1>4, FramedKeeps

LEMMA MenuKeeps ==
  ASSUME IInv, OpenMenu \/ TurnMenu
  PROVE  IInv'
<1>1. Session
  BY TypeParts DEF IInv
<1>2. CASE OpenMenu
  <2>1. pc = "idle" /\ opens' \in 0..MaxOpens
    BY <1>1, <1>2, ConfigWizardAssumption DEF OpenMenu, Session
  <2>. QED  BY <1>2, <2>1, MenuTurns DEF OpenMenu
<1>3. CASE TurnMenu
  <2>1. PICK p \in {"closed", "main", "models", "settings"} : Menu(p) /\ menu # "closed"
    BY <1>3 DEF TurnMenu
  <2>2. pc = "idle" /\ opens' \in 0..MaxOpens
    BY <1>1, <2>1 DEF Menu, Session, IInv, Resting
  <2>. QED  BY <2>1, <2>2, MenuTurns DEF Menu
<1>. QED  BY <1>2, <1>3

\* The menu offers models of providers whose settings are not empty.
LEMMA MenuModelKeeps ==
  ASSUME IInv, MenuModel
  PROVE  IInv' /\ chosen' \in Configured /\ UNCHANGED <<key, url>>
<1>1. PICK p \in Configured : Choose(p) /\ using' \in Providers \union {"none"}
  BY DEF MenuModel
<1>2. chosen' = p /\ p \in Providers /\ UNCHANGED <<key, url, ollama, checked>>
  BY <1>1 DEF Choose, Configured, Providers
<1>3. /\ UNCHANGED <<pc, state, page, history, screen, reply>> /\ menu' = "closed" /\ pc = "idle"
      /\ UNCHANGED <<host, mode, cancelled, result, closed, opens, answers>>
  BY DEF MenuModel, worker, prompt, IInv, Resting
<1>4. Places /\ Prompts /\ Settings /\ Session
  BY TypeParts DEF IInv
<1>5. Places' /\ Prompts' /\ Settings' /\ Session'
  <2>1. Places' /\ Prompts'
    BY <1>3, <1>4 DEF Places, Prompts
  <2>2. Settings'
    BY <1>2, <1>4 DEF Settings
  <2>3. Session'
    BY <1>1, <1>3, <1>4 DEF Session
  <2>. QED  BY <2>1, <2>2, <2>3
<1>6. TypeOK'
  BY <1>5 DEF TypeOK, Places, Prompts, Settings, Session
<1>7. Prompted' /\ Resting'
  BY <1>3 DEF Prompted, Resting, IInv
<1>8. Ordered' /\ Tried' /\ HasSettings'
  BY <1>2, <1>3 DEF Ordered, Tried, HasSettings, Passed, IInv
<1>9. Usable'
  <2>1. state' = "PROVIDER" /\ "PROVIDER" \notin Common \union {"DONE"}
    BY <1>3, EarlyStates, Ranks DEF IInv, Resting
  <2>. QED  BY <2>1 DEF Usable
<1>. QED  BY <1>1, <1>2, <1>6, <1>7, <1>8, <1>9 DEF IInv

LEMMA MenuProviderKeeps ==
  ASSUME IInv, MenuProvider
  PROVE  IInv'
<1>1. /\ state' = "PROVIDER" /\ page' = "none" /\ history' = <<>> /\ screen' = "none"
      /\ reply' = "none" /\ pc' = "enter" /\ menu' = "closed" /\ UNCHANGED store
      /\ mode' = "provider" /\ cancelled' = FALSE /\ result' = 1
      /\ UNCHANGED <<host, closed, using, opens, answers>>
  BY DEF MenuProvider, Opened
<1>2. Session
  BY TypeParts DEF IInv
<1>3. Session'
  BY <1>1, <1>2 DEF Session
<1>. QED  BY <1>1, <1>3, FreshKeeps

-----------------------------------------------------------------------------
(* The invariant holds.                                                    *)

LEMMA InitInv == Init => IInv
<1>. SUFFICES ASSUME Init
              PROVE  IInv
  OBVIOUS
<1>1. /\ history \in Seq(Interactive) /\ 1..Len(history) = {}
      /\ "PROVIDER" \in States /\ "PROVIDER" \notin Models \union Common \union {"DONE"}
  <2>1. history = <<>>
    BY DEF Init
  <2>2. history \in Seq(Interactive) /\ Len(history) = 0
    BY <2>1, EmptySeq
  <2>3. 1..0 = {}
    OBVIOUS
  <2>. QED  BY <2>2, <2>3, EarlyStates, Ranks
<1>2. pc \in {"idle", "enter"}
  BY DEF Init
<1>3. Places
  BY <1>1, <1>2 DEF Places, Init
<1>4. Prompts
  BY DEF Prompts, Init
<1>5. Settings
  BY DEF Settings, Init
<1>6. Session
  <2>1. 0 \in 0..MaxAnswers /\ 0 \in 0..MaxOpens
    BY ConfigWizardAssumption
  <2>. QED  BY <2>1 DEF Session, Init
<1>7. TypeOK
  BY <1>3, <1>4, <1>5, <1>6, TypeParts
<1>8. Prompted
  BY <1>2 DEF Prompted, Init
<1>9. Ordered /\ Tried
  BY <1>1 DEF Ordered, Tried, Init
<1>10. Usable /\ HasSettings /\ Resting
  BY <1>1, <1>2 DEF Usable, HasSettings, Resting, Init
<1>. QED  BY <1>7, <1>8, <1>9, <1>10 DEF IInv

\* A step that changes nothing.
LEMMA StutterKeeps ==
  ASSUME IInv, UNCHANGED vars
  PROVE  IInv'
<1>1. UNCHANGED <<worker, prompt, store, app, answers>>
  BY DEF vars
<1>2. /\ UNCHANGED <<pc, state, page, history, screen, reply>>
      /\ UNCHANGED <<key, url, ollama, chosen, checked>>
      /\ UNCHANGED <<host, mode, cancelled, result, closed, using, menu, opens, answers>>
  BY <1>1 DEF worker, prompt, store, app
<1>3. Prompts /\ Session
  BY TypeParts DEF IInv
<1>4. Prompts' /\ Session'
  BY <1>2, <1>3 DEF Prompts, Session
<1>5. Prompted' /\ Resting' /\ pc' \in {"idle", "enter", "ask", "show", "wait", "done", "finish"}
  BY <1>2, TypeParts DEF IInv, Prompted, Resting, Places
<1>. QED  BY <1>1, <1>2, <1>4, <1>5, FramedKeeps

LEMMA Step == IInv /\ [Next]_vars => IInv'
<1>. SUFFICES ASSUME IInv, [Next]_vars
              PROVE  IInv'
  OBVIOUS
<1>1. CASE Worker
  BY <1>1, EnterPageKeeps, InstallCheckKeeps, ConnectsKeeps, CheckAliveKeeps, ShowKeeps,
     ProviderGivenKeeps, KeyChoiceGivenKeeps, KeyGivenKeeps, UrlGivenKeeps, OptionalKeyGivenKeeps,
     OllamaUrlGivenKeeps, ModelGivenKeeps, AcknowledgedKeeps, CommonGivenKeeps, GoBackKeeps,
     GivenUpKeeps, DoneKeeps, FinishKeeps DEF Worker
<1>2. CASE User
  <2>1. CASE Quit
    <3>1. closed' \in BOOLEAN /\ pc # "idle" /\ Cancel
      BY <2>1 DEF Quit
    <3>. QED  BY <3>1, CancelKeeps
  <2>. QED  BY <1>2, <2>1, AnswerKeeps, EscapeKeeps, MenuKeeps, MenuModelKeeps, MenuProviderKeeps DEF User
<1>3. CASE UNCHANGED vars
  BY <1>3, StutterKeeps
<1>. QED  BY <1>1, <1>2, <1>3 DEF Next

LEMMA Invariance == Spec => []IInv
<1>. QED  BY InitInv, Step, PTL DEF Spec

-----------------------------------------------------------------------------
(* Sessions that can be used.                                              *)

\* A provider that has answered has all the settings it needs.
LEMMA TriedComplete ==
  ASSUME IInv, NEW p \in Passed
  PROVE  Complete(key, url, p)
<1>1. p \in Providers /\ (p = "ollama" \/ p \in checked)
  BY TypeParts DEF IInv, Settings, Passed, Providers
<1>. QED  BY <1>1 DEF IInv, HasSettings, Complete, Providers

\* So has one whose models the menu offers.
LEMMA OfferedComplete ==
  ASSUME NEW p \in Configured
  PROVE  Complete(key, url, p)
<1>. QED  BY DEF Configured, Complete

\* A step that keeps the session's provider and empties no setting.
LEMMA SameProvider ==
  ASSUME chosen' = chosen, key # "" => key' # "", url # "" => url' # ""
  PROVE  IsComplete => IsComplete'
<1>. QED  BY DEF IsComplete, Complete

\* Settings are replaced by others that are not empty, and the provider by one
\* that has answered or is offered.
LEMMA StepComplete ==
  IInv /\ [Next]_vars => [IsComplete => IsComplete']_vars
<1>. SUFFICES ASSUME IInv, Next
              PROVE  IsComplete => IsComplete'
  OBVIOUS
<1>1. ASSUME UNCHANGED store
      PROVE  IsComplete => IsComplete'
  BY <1>1, SameProvider DEF store
<1>2. CASE KeyGiven
  BY <1>1, <1>2, SameProvider DEF KeyGiven
<1>3. CASE UrlGiven
  BY <1>1, <1>3, SameProvider DEF UrlGiven
<1>4. CASE OptionalKeyGiven \/ OllamaUrlGiven
  BY <1>4, SameProvider DEF OptionalKeyGiven, OllamaUrlGiven
<1>5. CASE InstallCheck
  BY <1>1, <1>5, SameProvider DEF InstallCheck, Stop
<1>6. CASE Connects
  BY <1>1, <1>6, SameProvider DEF Connects, Connect, Stop
<1>7. CASE ModelGiven
  <2>1. chosen' \in Passed /\ UNCHANGED <<key, url>>
    BY <1>7, ModelGivenKeeps
  <2>2. Complete(key, url, chosen')
    BY <2>1, TriedComplete
  <2>. QED  BY <2>1, <2>2 DEF IsComplete
<1>8. CASE MenuModel
  <2>1. chosen' \in Configured /\ UNCHANGED <<key, url>>
    BY <1>8, MenuModelKeeps
  <2>2. Complete(key, url, chosen')
    BY <2>1, OfferedComplete
  <2>. QED  BY <2>1, <2>2 DEF IsComplete
<1>9. CASE EnterPage
  BY <1>1, <1>9 DEF EnterPage, Stop
<1>10. CASE CheckAlive \/ Show \/ GoBack \/ GivenUp \/ Done \/ Finish
  BY <1>1, <1>10 DEF CheckAlive, Show, GoBack, GivenUp, Done, Finish, Stop
<1>11. CASE ProviderGiven \/ KeyChoiceGiven \/ Acknowledged \/ CommonGiven
  BY <1>1, <1>11 DEF ProviderGiven, KeyChoiceGiven, Acknowledged, CommonGiven
<1>12. CASE Answer \/ Escape \/ Quit \/ OpenMenu \/ TurnMenu \/ MenuProvider
  BY <1>1, <1>12 DEF Answer, Escape, Back, Quit, Cancel, OpenMenu, TurnMenu, Menu, MenuProvider
<1>. QED  BY <1>2, <1>3, <1>4, <1>5, <1>6, <1>7, <1>8, <1>9, <1>10, <1>11, <1>12 DEF Next, Worker, User

-----------------------------------------------------------------------------
(* The theorems.                                                           *)

\* The state keeps its types: the wizard is always in one of its states, and what
\* it can go back to are states that show a page, never a check.
THEOREM TypeCorrect == Spec => []TypeOK
<1>1. IInv => TypeOK
  BY DEF IInv
<1>. QED  BY <1>1, Invariance, PTL

\* A wizard that ends well leaves a session that is complete, with a provider that
\* has answered with the settings it has now, for any number of answers, pages gone
\* back to and settings changed on the way.  An Ollama at a URL that the connect
\* check does not look at is the one exception.
THEOREM FinishUsable == Spec => []FinishMeansUsable
<1>1. IInv => FinishMeansUsable
  <2> SUFFICES ASSUME IInv, pc = "finish", result = 0
               PROVE  IsComplete /\ chosen \in Passed
    BY DEF FinishMeansUsable, Passed
  <2>1. chosen \in Passed
    BY DEF IInv, Resting, Usable
  <2>. QED  BY <2>1, TriedComplete DEF IsComplete
<1>. QED  BY <1>1, Invariance, PTL

\* A session that could be used stays so: whatever the wizard and the menu do, and
\* wherever the wizard is left.
THEOREM KeepsComplete == Spec => StaysComplete
<1>1. IInv /\ [Next]_vars => [IsComplete => IsComplete']_vars
  BY StepComplete
<1>. QED  BY <1>1, Invariance, PTL DEF Spec, StaysComplete
=============================================================================

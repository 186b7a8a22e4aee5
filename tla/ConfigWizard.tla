----------------------------- MODULE ConfigWizard -----------------------------
(***************************************************************************)
(* Setting up a provider (golim/ui/tui/config/config_tui.py, mixin.py) and  *)
(* the menu of the terminal application (golim/ui/tui/app/app_tui.py).      *)
(*                                                                         *)
(* A worker thread walks through states; most of them ask the user on a    *)
(* page, which the event loop shows and answers by setting an event.  The   *)
(* wizard is a program of its own (golim -init) or a panel of the terminal  *)
(* application, where Escape goes back a page or, while no page is shown,   *)
(* gives the wizard up.                                                    *)
(*                                                                         *)
(* A key or a URL is kept as good or bad: whether the provider may accept   *)
(* it.  The URL of Ollama is kept as the one that the program `ollama'      *)
(* looks at itself, or another.  A model is kept as the provider it belongs *)
(* to.  What the settings pages switch on and off is left out.              *)
(***************************************************************************)
EXTENDS Naturals, Sequences, SequencesExt

CONSTANTS
  MaxAnswers,  \* bound: pages ever answered
  MaxOpens     \* bound: times the menu is opened

ASSUME ConfigWizardAssumption == MaxAnswers \in Nat /\ MaxOpens \in Nat

VARIABLES
  host,        \* "app": golim -init; "panel": in the terminal application
  mode,        \* config_mode: "initial" or "provider"
  pc,          \* the worker
  state, page, \* the state it is in, and the page it asks on
  screen,      \* _request: the page on screen
  reply,       \* what the event of the page was set with
  history,     \* run_config: the states to go back to
  cancelled,   \* _cancelled
  result,      \* _config_result
  closed,      \* ConfigApp has exited
  key, url, ollama,  \* the settings of the three providers
  chosen,      \* the session's provider, with its model
  using,       \* the provider whose model the application requests
  checked,     \* history: providers that answered with the settings they have
  menu,        \* the menu page
  answers, opens

worker   == <<pc, state, page, history>>
prompt   == <<screen, reply>>
store    == <<key, url, ollama, chosen, checked>>
app      == <<host, mode, cancelled, result, closed, using, menu, opens>>
vars     == <<worker, prompt, store, app, answers>>

Providers == {"ollama", "openai_compatible", "open_router"}

NonInteractive == {"OLLAMA_CONNECT", "OLLAMA_INSTALL_CHECK",
                   "OPENAI_COMPATIBLE_CONNECT", "OPENROUTER_CONNECT"}

Common == {"COMMON_BASH", "COMMON_THINKING", "COMMON_PROACTIVE_AUTH"}

\* What the user may answer on a page.
Answers(p) ==
  CASE p = "PROVIDER" -> Providers
    [] p = "KEY_CHOICE" -> {"keep", "new"}
    [] p \in {"KEY", "URL"} -> {"", "good", "bad"}
    [] p = "OLLAMA_URL" -> {"local", "other"}
    [] p \in {"EXIT", "RETRY", "MODEL", "OPTIONAL_KEY"} \union Common -> {"ok"}
Pages == {"PROVIDER", "KEY_CHOICE", "KEY", "URL", "OLLAMA_URL", "EXIT", "RETRY",
          "MODEL", "OPTIONAL_KEY"} \union Common

States == {"PROVIDER", "OPENROUTER_KEY_CHOICE", "OPENROUTER_KEY_INPUT", "OPENROUTER_MODEL",
           "OLLAMA_URL_INPUT", "OLLAMA_MODEL", "OPENAI_COMPATIBLE_URL",
           "OPENAI_COMPATIBLE_MODEL"} \union NonInteractive \union Common

\* The states that show a page of their own: only to these the user can go back.
Interactive == States \ NonInteractive

TypeOK ==
  /\ host \in {"app", "panel"} /\ mode \in {"initial", "provider"}
  /\ pc \in {"idle", "enter", "ask", "show", "wait", "done", "finish"}
  /\ state \in States \union {"DONE", "EXIT"} /\ page \in Pages \union {"none"}
  /\ screen \in Pages \union {"none"}
  /\ reply \in {"none", "back", "cancel"} \union UNION {Answers(p) : p \in Pages}
  /\ history \in Seq(Interactive)
  /\ cancelled \in BOOLEAN /\ result \in {0, 1} /\ closed \in BOOLEAN
  /\ key \in {"", "good", "bad"} /\ url \in {"", "good", "bad"}
  /\ ollama \in {"local", "other"}
  /\ chosen \in Providers \union {"none", "other"} /\ using \in Providers \union {"none"}
  /\ checked \in SUBSET Providers
  /\ menu \in {"closed", "main", "models", "settings"}
  /\ answers \in 0..MaxAnswers /\ opens \in 0..MaxOpens

-----------------------------------------------------------------------------
(* The settings (Config.is_complete, resolve_provider_settings).           *)

Complete(k, u, c) ==
  \/ c = "open_router" /\ k # ""
  \/ c = "openai_compatible" /\ u # ""
  \/ c = "ollama"
IsComplete == Complete(key, url, chosen)

\* The model to request; an Ollama that is not installed gives none.
Resolves(c, model) == IF Complete(key, url, c)
                      THEN model = c \/ (c = "ollama" /\ model = "none")
                      ELSE model = "none"

\* get_configured_model_choices: the providers whose models the menu offers.
Configured == {"ollama"} \union (IF key # "" THEN {"open_router"} ELSE {})
                         \union (IF url # "" THEN {"openai_compatible"} ELSE {})

\* choose_model.
Choose(p) == chosen' = p /\ UNCHANGED <<key, url, ollama, checked>>

-----------------------------------------------------------------------------
(* Opening and closing.                                                    *)

Opened(m) ==
  /\ mode' = m /\ pc' = "enter" /\ state' = "PROVIDER" /\ page' = "none"
  /\ history' = <<>>
  /\ screen' = "none" /\ reply' = "none" /\ cancelled' = FALSE /\ result' = 1

\* golim -init; or the application, which opens the wizard when the settings are
\* not complete (on_mount).
Init ==
  /\ host \in {"app", "panel"} /\ mode = "initial"
  /\ key \in {"", "good", "bad"} /\ url \in {"", "good", "bad"}
  /\ ollama \in {"local", "other"}
  /\ chosen \in Providers \union {"none", "other"}
  /\ using \in Providers \union {"none"}
  /\ Resolves(chosen, using) /\ (host = "app" => using = "none")
  /\ pc = IF host = "app" \/ ~IsComplete THEN "enter" ELSE "idle"
  /\ state = "PROVIDER" /\ page = "none" /\ history = <<>>
  /\ screen = "none" /\ reply = "none" /\ cancelled = FALSE /\ result = 1 /\ closed = FALSE
  /\ checked = {} /\ menu = "closed" /\ answers = 0 /\ opens = 0

\* The worker hands over to the event loop (_finish, _finish_config).
Finish ==
  /\ pc = "finish" /\ pc' = "idle" /\ state' = "PROVIDER" /\ page' = "none"
  /\ history' = <<>> /\ screen' = "none" /\ reply' = "none"
  /\ IF host = "panel" /\ result = 0 THEN using' \in Providers \union {"none"} /\ Resolves(chosen, using')
                                     ELSE UNCHANGED using
  /\ closed' = (host = "app")
  /\ UNCHANGED <<store, host, mode, cancelled, result, menu, opens, answers>>

-----------------------------------------------------------------------------
(* The worker: run_config and the handlers of the states.                  *)

At(label) == pc' = label /\ UNCHANGED <<state, page, history>>

\* _ConfigCancelled, or the end of the program under the worker's feet.
Stop == /\ At("finish") /\ result' = 1
        /\ UNCHANGED <<prompt, store, host, mode, cancelled, closed, using, menu, opens, answers>>

\* The handler returns the next state.
Advance(next) ==
  /\ state' = next /\ page' = "none"
  /\ history' = IF state \in NonInteractive THEN history ELSE Append(history, state)
  /\ pc' = IF next \in {"DONE", "EXIT"} THEN "done" ELSE "enter"
  /\ reply' = "none" /\ UNCHANGED <<screen, app, answers>>

\* The handler asks on a page.
Ask(p) ==
  /\ page' = p /\ pc' = "ask" /\ reply' = "none"
  /\ UNCHANGED <<state, history, screen, app, answers>>

In(s) == pc = "enter" /\ state = s

\* States that only ask; every handler begins with a look at the cancellation.
EnterPage ==
  \/ In("PROVIDER") /\ chosen # "other" /\ Ask("PROVIDER") /\ UNCHANGED store
  \/ In("PROVIDER") /\ chosen = "other" /\ ~cancelled /\ Advance("EXIT") /\ UNCHANGED store
  \/ In("PROVIDER") /\ chosen = "other" /\ cancelled /\ Stop
  \/ In("OPENROUTER_KEY_CHOICE") /\ Ask("KEY_CHOICE") /\ UNCHANGED store
  \/ In("OPENROUTER_KEY_INPUT") /\ Ask("KEY") /\ UNCHANGED store
  \/ In("OPENROUTER_MODEL") /\ (Ask("MODEL") \/ Ask("RETRY")) /\ UNCHANGED store
  \/ In("OLLAMA_URL_INPUT") /\ Ask("OLLAMA_URL") /\ UNCHANGED store
  \/ In("OLLAMA_MODEL") /\ (Ask("MODEL") \/ Ask("EXIT")) /\ UNCHANGED store
  \/ In("OPENAI_COMPATIBLE_URL") /\ Ask("URL") /\ UNCHANGED store
  \/ In("OPENAI_COMPATIBLE_MODEL") /\ Ask("MODEL") /\ UNCHANGED store
  \/ \E c \in Common : In(c) /\ Ask(c) /\ UNCHANGED store

\* The URL is set anew from the environment, whatever it was; `ollama' reads the
\* environment in its own way.
InstallCheck ==
  /\ In("OLLAMA_INSTALL_CHECK")
  /\ \/ Ask("EXIT") /\ UNCHANGED store
     \/ cancelled /\ Stop
     \/ /\ ~cancelled
        /\ ollama' \in {"local", "other"} /\ checked' = checked \ {"ollama"}
        /\ Advance("OLLAMA_CONNECT") /\ UNCHANGED <<key, url, chosen>>

\* The three checks; a bad value is never accepted.
Connect(s, accepted, answered, yes, no) ==
  /\ In(s)
  /\ \/ accepted /\ checked' = checked \union answered /\ Advance(yes)
        /\ UNCHANGED <<key, url, ollama, chosen>>
     \/ ~cancelled /\ Advance(no) /\ UNCHANGED store
     \/ cancelled /\ Stop

\* `ollama list' knows nothing of the URL in the settings: its success is an answer
\* from there only when it happens to look there, too.
OllamaAnswers == IF ollama = "local" THEN {"ollama"} ELSE {}

Connects ==
  \/ Connect("OPENROUTER_CONNECT", key = "good", {"open_router"},
             "OPENROUTER_MODEL", "OPENROUTER_KEY_INPUT")
  \/ Connect("OPENAI_COMPATIBLE_CONNECT", url = "good", {"openai_compatible"},
             "OPENAI_COMPATIBLE_MODEL", "OPENAI_COMPATIBLE_URL")
  \/ Connect("OLLAMA_CONNECT", TRUE, OllamaAnswers, "OLLAMA_MODEL", "OLLAMA_URL_INPUT")

CheckAlive ==
  /\ pc = "ask"
  /\ \/ cancelled /\ Stop
     \/ ~cancelled /\ At("show") /\ UNCHANGED <<prompt, store, app, answers>>

\* The event loop shows the page (call_from_thread), also when the wizard was
\* cancelled in between.  A loop that has ended refuses.
Show ==
  /\ pc = "show"
  /\ \/ /\ pc' = "wait"
        /\ screen' = page /\ reply' = "none"
        /\ UNCHANGED <<state, page, history, store, app, answers>>
     \/ closed /\ Stop

\* After the event: the answer of the page, unless cancelled or going back.
Replied(p) == /\ pc = "wait" /\ page = p /\ ~cancelled /\ reply \notin {"none", "back", "cancel"}

\* If the provider were chosen on the first page already.
ProviderChosenAtOnce ==
  /\ Replied("PROVIDER")
  /\ chosen' = reply /\ UNCHANGED <<key, url, ollama, checked>>
  /\ Advance(CASE reply = "open_router" ->
                    IF key # "" THEN "OPENROUTER_KEY_CHOICE" ELSE "OPENROUTER_KEY_INPUT"
               [] reply = "openai_compatible" -> "OPENAI_COMPATIBLE_URL"
               [] reply = "ollama" -> "OLLAMA_INSTALL_CHECK")

ProviderGiven ==
  /\ Replied("PROVIDER") /\ UNCHANGED store
  /\ Advance(CASE reply = "open_router" ->
                    IF key # "" THEN "OPENROUTER_KEY_CHOICE" ELSE "OPENROUTER_KEY_INPUT"
               [] reply = "openai_compatible" -> "OPENAI_COMPATIBLE_URL"
               [] reply = "ollama" -> "OLLAMA_INSTALL_CHECK")

\* If a key that is kept were not tried.
KeptUntried ==
  /\ Replied("KEY_CHOICE") /\ UNCHANGED store
  /\ Advance(IF reply = "new" THEN "OPENROUTER_KEY_INPUT" ELSE "OPENROUTER_MODEL")

KeyChoiceGiven ==
  /\ Replied("KEY_CHOICE") /\ UNCHANGED store
  /\ Advance(IF reply = "new" THEN "OPENROUTER_KEY_INPUT" ELSE "OPENROUTER_CONNECT")

\* The key is saved before it is tried.
KeyGiven ==
  /\ Replied("KEY")
  /\ \/ reply = "" /\ Ask("KEY") /\ UNCHANGED store
     \/ /\ reply # "" /\ key' = reply /\ checked' = checked \ {"open_router"}
        /\ Advance("OPENROUTER_CONNECT") /\ UNCHANGED <<url, ollama, chosen>>

\* One state asks for the URL, saves it, and asks for the API key.
UrlGiven ==
  /\ Replied("URL")
  /\ \/ reply = "" /\ Advance("OPENAI_COMPATIBLE_URL") /\ UNCHANGED store
     \/ /\ reply # "" /\ url' = reply /\ checked' = checked \ {"openai_compatible"}
        /\ Ask("OPTIONAL_KEY") /\ UNCHANGED <<key, ollama, chosen>>

OptionalKeyGiven ==
  /\ Replied("OPTIONAL_KEY")
  /\ checked' = checked \ {"openai_compatible"}
  /\ Advance("OPENAI_COMPATIBLE_CONNECT") /\ UNCHANGED <<key, url, ollama, chosen>>

OllamaUrlGiven ==
  /\ Replied("OLLAMA_URL")
  /\ ollama' = reply /\ checked' = checked \ {"ollama"}
  /\ Advance("OLLAMA_CONNECT") /\ UNCHANGED <<key, url, chosen>>

\* _provider_complete_state; the Ollama branch goes on in either mode.
ModelGiven ==
  /\ Replied("MODEL")
  /\ LET rest == IF mode = "provider" THEN "DONE" ELSE "COMMON_BASH"
     IN \/ state = "OPENROUTER_MODEL" /\ Choose("open_router") /\ Advance(rest)
        \/ state = "OPENAI_COMPATIBLE_MODEL" /\ Choose("openai_compatible") /\ Advance(rest)
        \/ state = "OLLAMA_MODEL" /\ Choose("ollama") /\ Advance("COMMON_BASH")

Acknowledged ==
  \/ Replied("RETRY") /\ Advance("OPENROUTER_MODEL") /\ UNCHANGED store
  \/ Replied("EXIT") /\ Advance("EXIT") /\ UNCHANGED store

CommonGiven ==
  \E c \in Common :
    /\ Replied(c)
    /\ Advance(CASE c = "COMMON_BASH" -> "COMMON_THINKING"
                 [] c = "COMMON_THINKING" -> "COMMON_PROACTIVE_AUTH"
                 [] c = "COMMON_PROACTIVE_AUTH" -> "DONE")
    /\ UNCHANGED store

\* If going back led to the state before and left it on the history.
BackStays ==
  /\ pc = "wait" /\ reply = "back" /\ ~cancelled
  /\ \/ history = <<>> /\ Stop
     \/ /\ history # <<>> /\ state' = Last(history)
        /\ page' = "none" /\ pc' = "enter" /\ reply' = "none"
        /\ UNCHANGED <<history, screen, store, app, answers>>

\* _GoBack.
GoBack ==
  /\ pc = "wait" /\ reply = "back" /\ ~cancelled
  /\ \/ history = <<>> /\ Stop
     \/ /\ history # <<>> /\ state' = Last(history) /\ history' = Front(history)
        /\ page' = "none" /\ pc' = "enter" /\ reply' = "none"
        /\ UNCHANGED <<screen, store, app, answers>>

GivenUp == pc = "wait" /\ reply # "none" /\ cancelled /\ Stop

\* The last lines are a log, and a log looks at the cancellation too.
Done ==
  /\ pc = "done"
  /\ \/ state = "DONE" /\ ~cancelled /\ At("finish") /\ result' = 0
        /\ UNCHANGED <<prompt, store, host, mode, cancelled, closed, using, menu, opens, answers>>
     \/ (state = "EXIT" \/ cancelled) /\ Stop

Worker ==
  \/ EnterPage \/ InstallCheck \/ Connects \/ CheckAlive \/ Show
  \/ ProviderGiven \/ KeyChoiceGiven \/ KeyGiven \/ UrlGiven \/ OptionalKeyGiven
  \/ OllamaUrlGiven \/ ModelGiven \/ Acknowledged \/ CommonGiven
  \/ GoBack \/ GivenUp \/ Done \/ Finish

-----------------------------------------------------------------------------
(* The user, in the event loop.                                            *)

Set(r) == screen' = "none" /\ reply' = r

Answer ==
  /\ screen # "none" /\ ~closed /\ answers < MaxAnswers
  /\ \E r \in Answers(screen) : Set(r)
  /\ answers' = answers + 1
  /\ UNCHANGED <<worker, store, app>>

\* _cancel_config, and action_cancel of ConfigApp.
Cancel ==
  /\ cancelled' = TRUE /\ result' = 1
  /\ IF screen # "none" THEN Set("cancel") ELSE UNCHANGED prompt
  /\ UNCHANGED <<worker, store, host, mode, using, menu, opens, answers>>

\* Escape or the last entry of a list: _config_back.
Back == /\ screen # "none" /\ Set("back") /\ UNCHANGED <<worker, store, app, answers>>

Escape ==
  /\ pc # "idle" /\ ~closed
  /\ \/ Back
     \/ host = "panel" /\ screen = "none" /\ ~cancelled /\ Cancel /\ UNCHANGED closed

\* Ctrl+C ends golim -init at once.
Quit == host = "app" /\ pc # "idle" /\ ~cancelled /\ Cancel /\ closed' = TRUE

\* The menu (action_open_config, _handle_menu_selected, _handle_menu_key).
Menu(p) == menu' = p /\ UNCHANGED <<worker, prompt, store, host, mode, cancelled, result, closed,
                                    using, opens, answers>>

OpenMenu ==
  /\ host = "panel" /\ pc = "idle" /\ menu = "closed" /\ opens < MaxOpens
  /\ menu' = "main" /\ opens' = opens + 1
  /\ UNCHANGED <<worker, prompt, store, host, mode, cancelled, result, closed, using, answers>>

TurnMenu ==
  \/ menu = "main" /\ \E p \in {"closed", "models", "settings"} : Menu(p)
  \/ menu = "models" /\ \E p \in {"closed", "main"} : Menu(p)
  \/ menu = "settings" /\ \E p \in {"closed", "main"} : Menu(p)

MenuModel ==
  /\ menu = "models" /\ menu' = "closed"
  /\ \E p \in Configured : Choose(p) /\ using' \in Providers \union {"none"} /\ Resolves(p, using')
  /\ UNCHANGED <<worker, prompt, host, mode, cancelled, result, closed, opens, answers>>

MenuProvider ==
  /\ menu = "main" /\ menu' = "closed" /\ Opened("provider")
  /\ UNCHANGED <<store, host, closed, using, opens, answers>>

User == Answer \/ Escape \/ Quit \/ OpenMenu \/ TurnMenu \/ MenuModel \/ MenuProvider

Next == Worker \/ User

Spec == Init /\ [][Next]_vars

\* The worker and the event loop go on: every request of theirs has a time limit.
\* The user keeps pressing Escape, and answers finitely many pages.
FairSpec == Spec /\ WF_vars(Worker) /\ WF_vars(Escape)

-----------------------------------------------------------------------------
(* Properties.                                                             *)

\* A wizard that ends well leaves a session that is complete, with a provider that
\* has answered with the settings it has now, in whatever order pages were left,
\* re-entered and changed.  Only an Ollama at a URL that `ollama' does not look at
\* has not been asked.
FinishMeansUsable ==
  pc = "finish" /\ result = 0 =>
    IsComplete /\ (chosen \in checked \/ (chosen = "ollama" /\ ollama = "other"))

\* A session that could be used stays so, wherever the wizard is left and
\* whatever the menu offers (is_complete).
StaysComplete == [][IsComplete => IsComplete']_vars

\* In the terminal application Escape leads out of the wizard, from every page and
\* also when it comes while the worker is between two pages.
EscapeLeaves == (host = "panel" /\ pc # "idle") ~> pc = "idle"

\* The application requests a model of the provider it asks.  Claimed at
\* app_tui.py:391 ("only the model choice itself needs to move"): the wizard
\* changes both in the shared settings, the application its model only when the
\* wizard ends well.
ModelIsOfProvider == host = "panel" /\ pc = "idle" => using \in {"none", chosen}
=============================================================================

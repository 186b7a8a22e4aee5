------------------------------ MODULE ConfigStore ------------------------------
(***************************************************************************)
(* The settings and the list of recent models (Config, golim/config/       *)
(* config.py), as several sessions of golim share them on disk.            *)
(*                                                                         *)
(* Every session keeps the settings in memory and saves all of them at     *)
(* each change; the list of models is read, changed and saved.  Both files *)
(* are saved the same way: a temporary file of fixed name is truncated,    *)
(* written and renamed over the old file.  Two sessions that save at the   *)
(* same time thus write to one file.  A session can be killed at any step. *)
(***************************************************************************)
EXTENDS Naturals, Sequences, SequencesExt

CONSTANTS
  Sessions, Keys, Models,
  Values,    \* what a setting may be
  Default,   \* its value in _ATTRIBUTE_DEFAULTS
  NoModel,
  MaxSaves   \* bound: saves ever begun

ASSUME ConfigStoreAssumption ==
  /\ Default \in Values /\ NoModel \notin Models /\ MaxSaves \in Nat

VARIABLES
  live,      \* the sessions that run
  data,      \* per session: its settings (Config.data)
  own,       \* per session: the model of the session
  saving,    \* per session: the save it is at: file, contents and next step
  at,        \* per session: where the file it has open is now
  path, tmp, \* per file: the file, and the temporary file
  failed,    \* history: sessions that met an unreadable or a missing file
  overlap,   \* history: files of which two saves overlapped
  stale,     \* history: sessions whose settings another session has changed on disk
  chosen,    \* history: the models chosen, in the order the list was saved
  saves      \* saves begun

vars == <<live, data, own, saving, at, path, tmp, failed, overlap, stale, chosen, saves>>

Files    == {"config", "models"}
Settings == [Keys -> Values]
Lists(n) == UNION {[1..m -> Models] : m \in 0..n}
Defaults == [k \in Keys |-> Default]
Idle     == [file |-> "none", contents |-> <<>>, step |-> "none"]

\* A file, with the sessions that wrote to it since it was cut to nothing.
File(state, contents, by) == [state |-> state, contents |-> contents, by |-> by]
Missing == File("missing", <<>>, {})
Empty   == File("empty", <<>>, {})

\* The settings file holds settings, and the other a list of models that the saves
\* begun so far can have made.
Contents(f) == IF f = "config" THEN Settings \union {<<>>} ELSE Lists(saves)

TypeOK ==
  LET FileType(f) == [state: {"missing", "empty", "torn", "whole"},
                      contents: Contents(f), by: SUBSET Sessions]
  IN /\ live \in SUBSET Sessions
     /\ data \in [Sessions -> Settings]
     /\ own \in [Sessions -> Models \union {NoModel}]
     /\ \A s \in Sessions :
          \/ saving[s] = Idle
          \/ /\ s \in live /\ saving[s].step \in {"open", "write", "replace"}
             /\ \/ saving[s].file = "config" /\ saving[s].contents \in Settings
                \/ saving[s].file = "models" /\ saving[s].contents \in Lists(saves)
     /\ at \in [Sessions -> {"tmp", "path", "gone"}]
     /\ DOMAIN path = Files /\ DOMAIN tmp = Files
     /\ \A f \in Files : path[f] \in FileType(f) /\ tmp[f] \in FileType(f)
     /\ failed \in SUBSET Sessions /\ overlap \in SUBSET Files /\ stale \in SUBSET Sessions
     /\ chosen \in Lists(saves) /\ saves \in 0..MaxSaves

Init ==
  /\ live = {} /\ data = [s \in Sessions |-> Defaults]
  /\ own = [s \in Sessions |-> NoModel]
  /\ saving = [s \in Sessions |-> Idle] /\ at = [s \in Sessions |-> "gone"]
  /\ path = [f \in Files |-> Missing] /\ tmp = [f \in Files |-> Missing]
  /\ failed = {} /\ overlap = {} /\ stale = {} /\ chosen = <<>> /\ saves = 0

-----------------------------------------------------------------------------
(* Reading.                                                                *)

\* recent_models: a file that cannot be read is an empty list.
RecentModels == IF path["models"].state = "whole" THEN path["models"].contents ELSE <<>>

Latest == IF RecentModels = <<>> THEN NoModel ELSE Head(RecentModels)

\* _load: a missing file means the defaults, an unreadable one ConfigSchemaError.
Loadable == path["config"].state \in {"missing", "whole"}
Loaded   == IF path["config"].state = "missing" THEN Defaults ELSE path["config"].contents

\* The program begins, and chooses the newest model for the session.
Start(s) ==
  /\ s \notin live
  /\ \/ /\ Loadable
        /\ live' = live \union {s} /\ stale' = stale \ {s}
        /\ data' = [data EXCEPT ![s] = Loaded]
        /\ own' = [own EXCEPT ![s] = Latest]
        /\ UNCHANGED failed
     \/ /\ ~Loadable
        /\ failed' = failed \union {s}
        /\ UNCHANGED <<live, data, own, stale>>
  /\ UNCHANGED <<saving, at, path, tmp, overlap, chosen, saves>>

\* If a reload chose the newest model of all sessions.
ReloadSeeds(s) ==
  /\ s \in live /\ saving[s] = Idle /\ Loadable
  /\ data' = [data EXCEPT ![s] = Loaded]
  /\ own' = [own EXCEPT ![s] = Latest] /\ stale' = stale \ {s}
  /\ UNCHANGED <<live, saving, at, path, tmp, failed, overlap, chosen, saves>>

\* If a reload kept what was in memory.
ReloadNothing(s) ==
  /\ s \in live /\ saving[s] = Idle /\ Loadable
  /\ stale' = stale \ {s}
  /\ UNCHANGED <<live, data, own, saving, at, path, tmp, failed, overlap, chosen, saves>>

\* reload: the model of the session stays.
Reload(s) ==
  /\ s \in live /\ saving[s] = Idle
  /\ \/ /\ Loadable
        /\ data' = [data EXCEPT ![s] = Loaded] /\ stale' = stale \ {s}
        /\ UNCHANGED failed
     \/ /\ ~Loadable
        /\ failed' = failed \union {s}
        /\ UNCHANGED <<data, stale>>
  /\ UNCHANGED <<live, own, saving, at, path, tmp, overlap, chosen, saves>>

-----------------------------------------------------------------------------
(* Saving.                                                                 *)

Begin(s, file, contents) ==
  /\ s \in live /\ saving[s] = Idle /\ saves < MaxSaves
  /\ saves' = saves + 1
  /\ saving' = [saving EXCEPT ![s] = [file |-> file, contents |-> contents, step |-> "open"]]
  /\ overlap' = IF \E t \in Sessions : saving[t].file = file THEN overlap \union {file} ELSE overlap
  /\ UNCHANGED <<live, at, path, tmp, failed, stale, chosen>>

\* set, unset, set_provider_value.
Set(s, key, value) ==
  /\ data' = [data EXCEPT ![s][key] = value]
  /\ Begin(s, "config", data'[s])
  /\ UNCHANGED own

\* If a model chosen again were listed twice.
ChooseAgain(s, model) ==
  /\ own' = [own EXCEPT ![s] = model]
  /\ Begin(s, "models", <<model>> \o RecentModels)
  /\ UNCHANGED data

\* The entries that are not of the model; kept[i] are those of the first i.
Without(list, model) ==
  LET kept[i \in 0..Len(list)] ==
        IF i = 0 THEN <<>>
        ELSE kept[i - 1] \o (IF list[i] = model THEN <<>> ELSE <<list[i]>>)
  IN kept[Len(list)]

\* choose_model and remember_model.
Choose(s, model) ==
  /\ own' = [own EXCEPT ![s] = model]
  /\ Begin(s, "models", <<model>> \o Without(RecentModels, model))
  /\ UNCHANGED data

Step(s, step) == saving' = [saving EXCEPT ![s].step = step]

\* If the file were opened itself.
OpenInPlace(s) ==
  /\ saving[s].step = "open" /\ Step(s, "write")
  /\ at' = [at EXCEPT ![s] = "path"]
  /\ path' = [path EXCEPT ![saving[s].file] = Empty]
  /\ UNCHANGED <<live, data, own, tmp, failed, overlap, stale, chosen, saves>>

\* tmp.write_text begins: the temporary file is cut to nothing, or made.
Open(s) ==
  /\ saving[s].step = "open" /\ Step(s, "write")
  /\ at' = [at EXCEPT ![s] = "tmp"]
  /\ tmp' = [tmp EXCEPT ![saving[s].file] = Empty]
  /\ UNCHANGED <<live, data, own, path, failed, overlap, stale, chosen, saves>>

\* What the session writes goes to the file it has opened, wherever that is now.
Put(s, state) ==
  LET f    == saving[s].file
      Now(file) == File(state, IF state = "whole" THEN saving[s].contents ELSE <<>>,
                        file.by \union {s})
  IN /\ path' = IF at[s] = "path" THEN [path EXCEPT ![f] = Now(@)] ELSE path
     /\ tmp'  = IF at[s] = "tmp"  THEN [tmp  EXCEPT ![f] = Now(@)] ELSE tmp

\* The bytes are out: over another session's they may leave some of those.
Write(s) ==
  LET f      == saving[s].file
      others == CASE at[s] = "path" -> path[f].by \ {s}
                  [] at[s] = "tmp"  -> tmp[f].by \ {s}
                  [] at[s] = "gone" -> {}
  IN /\ saving[s].step = "write" /\ Step(s, "replace")
     /\ Put(s, "whole") \/ (others # {} /\ Put(s, "torn"))
     /\ UNCHANGED <<live, data, own, at, failed, overlap, stale, chosen, saves>>

\* A long text goes out in several pieces.
WritePart(s) ==
  /\ saving[s].step = "write" /\ Put(s, "torn")
  /\ UNCHANGED <<live, data, own, saving, at, failed, overlap, stale, chosen, saves>>

\* tmp.replace(path): files that are open keep their contents and change their
\* name.  Another session may have renamed the temporary file already.
Replace(s) ==
  LET f == saving[s].file
  IN
    /\ saving[s].step = "replace"
    /\ saving' = [saving EXCEPT ![s] = Idle]
    /\ \/ /\ tmp[f] = Missing
          /\ failed' = failed \union {s}
          /\ UNCHANGED <<at, path, tmp, stale, chosen>>
       \/ /\ tmp[f] # Missing
          /\ path' = [path EXCEPT ![f] = tmp[f]] /\ tmp' = [tmp EXCEPT ![f] = Missing]
          /\ at' = [t \in Sessions |->
                      IF saving[t].file # f THEN at[t]
                      ELSE IF at[t] = "tmp" THEN "path" ELSE "gone"]
          /\ stale' = IF f = "config" THEN stale \union (live \ {s}) ELSE stale
          /\ chosen' = IF f = "models" THEN Append(chosen, Head(saving[s].contents)) ELSE chosen
          /\ UNCHANGED failed
    /\ UNCHANGED <<live, data, own, overlap, saves>>

\* The session ends or is killed, whatever it is at.
Crash(s) ==
  /\ s \in live /\ live' = live \ {s}
  /\ saving' = [saving EXCEPT ![s] = Idle]
  /\ UNCHANGED <<data, own, at, path, tmp, failed, overlap, stale, chosen, saves>>

Next ==
  \E s \in Sessions :
    \/ Start(s) \/ Reload(s) \/ Crash(s)
    \/ \E k \in Keys, v \in Values : Set(s, k, v)
    \/ \E m \in Models : Choose(s, m)
    \/ Open(s) \/ WritePart(s) \/ Write(s) \/ Replace(s)

Spec == Init /\ [][Next]_vars

-----------------------------------------------------------------------------
(* Properties.                                                             *)

\* Wherever a session is killed, each file is either absent or one complete save,
\* and no session fails for it, as long as no two saves overlapped (save).
FilesAreWhole ==
  /\ \A f \in Files \ overlap : path[f].state \in {"missing", "whole"}
  /\ failed # {} => overlap # {}

\* The model a was chosen after the last choice of b.
ChosenAfter(a, b, choices) ==
  \E p \in DOMAIN choices : choices[p] = a /\ \A q \in p..Len(choices) : choices[q] # b

\* The list holds every model any session ever chose, once, the newest first,
\* unless two choices overlapped (remember_model).
NothingForgotten ==
  "models" \notin overlap =>
    /\ ToSet(RecentModels) = ToSet(chosen) /\ IsInjective(RecentModels)
    /\ \A i, j \in DOMAIN RecentModels :
         i < j => ChosenAfter(RecentModels[i], RecentModels[j], chosen)

\* Another session's choice never changes the model a session works with: it
\* changes at the session's own choice (the docstring of Config).
SessionModelIsOwn ==
  [][\A s \in live \intersect live' :
       own'[s] # own[s] => saving[s] = Idle /\ saving'[s].file = "models"]_vars

\* A save changes one setting on disk and keeps what other sessions have set,
\* unless the session has not loaded the settings since they did (reload).
OthersAreKept ==
  [][\A s \in live :
       /\ saving[s].file = "config" /\ saving[s].step = "replace" /\ saving'[s] = Idle
       /\ s \notin stale /\ "config" \notin overlap /\ path["config"].state = "whole"
       => \A j, k \in Keys :
            /\ path'["config"].contents[j] # path["config"].contents[j]
            /\ path'["config"].contents[k] # path["config"].contents[k]
            => j = k]_vars
=============================================================================

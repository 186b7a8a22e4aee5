-------------------------- MODULE ConfigStore_proofs --------------------------
(***************************************************************************)
(* Proofs about the shared settings, for any number of sessions, keys and  *)
(* models: a file is a complete save whenever sessions are killed, the     *)
(* list of models holds every one chosen, the model of a session is its    *)
(* own, and a save keeps what others have set, as long as no two saves     *)
(* overlap.                                                                *)
(***************************************************************************)
EXTENDS ConfigStore, FiniteSets, SequenceTheorems, FiniteSetTheorems, WellFoundedInduction, TLAPS

\* Variables are functions on what they are indexed by, and a save is a record.
Shapes ==
  /\ data \in [Sessions -> Settings]
  /\ own = [s \in Sessions |-> own[s]]
  /\ saving = [s \in Sessions |-> saving[s]]
  /\ at = [s \in Sessions |-> at[s]]
  /\ path = [f \in Files |-> path[f]] /\ tmp = [f \in Files |-> tmp[f]]
  /\ live \in SUBSET Sessions

\* A session is at one save, or at none.
Savings ==
  \A s \in Sessions :
    /\ saving[s] = [file |-> saving[s].file, contents |-> saving[s].contents,
                    step |-> saving[s].step]
    /\ \/ saving[s] = Idle
       \/ /\ saving[s].file \in Files /\ s \in live
          /\ saving[s].step \in {"open", "write", "replace"}
          /\ saving[s].file = "config" => saving[s].contents \in Settings

\* Settings that were saved whole are settings.
Saved ==
  /\ path["config"].state = "whole" => path["config"].contents \in Settings
  /\ tmp["config"].state = "whole" => tmp["config"].contents \in Settings

\* Where no saves overlapped there is one at a time, and the temporary file is its own.
Alone ==
  \A f \in Files \ overlap :
    /\ path[f].state \in {"missing", "whole"}
    /\ \A s, t \in Sessions : saving[s].file = f /\ saving[t].file = f => s = t
    /\ \A s \in Sessions :
         /\ saving[s].file = f /\ saving[s].step = "write" =>
              at[s] = "tmp" /\ tmp[f].by \subseteq {s}
         /\ saving[s].file = f /\ saving[s].step = "replace" =>
              at[s] = "tmp" /\ tmp[f].state = "whole" /\ tmp[f].contents = saving[s].contents

\* A session fails only after saves overlapped.
Failing == failed # {} => overlap # {}

\* A session that has seen all saves has in memory what is on disk, but for the
\* setting it is about to save.
Current ==
  "config" \notin overlap =>
    \A s \in live \ stale :
      /\ saving[s].file # "config" => data[s] = Loaded
      /\ saving[s].file = "config" =>
           /\ data[s] = saving[s].contents
           /\ \E k \in Keys : \A j \in Keys \ {k} : saving[s].contents[j] = Loaded[j]

\* The inductive invariant.
IInv == Shapes /\ Savings /\ Saved /\ Alone /\ Failing /\ Current

USE DEF Files

\* A session that saves nothing.
LEMMA IdleFields ==
  /\ Idle.file = "none" /\ Idle.step = "none"
  /\ Idle = [file |-> Idle.file, contents |-> Idle.contents, step |-> Idle.step]
  BY DEF Idle

\* A save that ends leaves the others as they are.
LEMMA SavingsEnd ==
  ASSUME Savings, NEW s \in Sessions, live' = live \/ live' = live \ {s}, saving'[s] = Idle,
         \A t \in Sessions : t # s => saving'[t] = saving[t]
  PROVE  Savings'
<1> SUFFICES ASSUME NEW t \in Sessions
             PROVE  /\ saving'[t] = [file |-> saving'[t].file, contents |-> saving'[t].contents,
                                     step |-> saving'[t].step]
                    /\ \/ saving'[t] = Idle
                       \/ /\ saving'[t].file \in Files /\ t \in live'
                          /\ saving'[t].step \in {"open", "write", "replace"}
                          /\ saving'[t].file = "config" => saving'[t].contents \in Settings
  BY DEF Savings
<1>1. CASE t = s
  BY <1>1, IdleFields
<1>2. CASE t # s
  BY <1>2 DEF Savings
<1>. QED  BY <1>1, <1>2

\* The invariant holds when nothing is on disk.
LEMMA Initial == Init => IInv
<1> SUFFICES ASSUME Init PROVE IInv
  OBVIOUS
<1>1. Shapes
  BY ConfigStoreAssumption DEF Init, Shapes, Settings, Defaults
<1>2. Savings /\ Saved /\ Alone
  BY DEF Init, Savings, Saved, Alone, Idle, Missing, File
<1>3. Failing /\ Current
  BY DEF Init, Failing, Current
<1>. QED  BY <1>1, <1>2, <1>3 DEF IInv

\* What a session loads are settings.
LEMMA LoadedIsSettings ==
  ASSUME IInv, Loadable
  PROVE  Loaded \in Settings
<1>1. Defaults \in Settings
  BY ConfigStoreAssumption DEF Defaults, Settings
<1>. QED  BY <1>1 DEF IInv, Saved, Loadable, Loaded

\* A session that starts loads what is there, or fails for a save that is not whole.
LEMMA StartKeeps == \A s \in Sessions : IInv /\ Start(s) => IInv'
<1> SUFFICES ASSUME NEW s \in Sessions, IInv, Start(s) PROVE IInv'
  OBVIOUS
<1>1. UNCHANGED <<saving, at, path, tmp, overlap>> /\ s \notin live /\ Loaded' = Loaded
  BY DEF Start, Loaded
<1>2. saving[s].file = "none"
  BY <1>1, IdleFields DEF IInv, Savings
<1>3. CASE Loadable
  <2>1. /\ live' = live \union {s} /\ stale' = stale \ {s} /\ failed' = failed
        /\ data' = [data EXCEPT ![s] = Loaded] /\ own' = [own EXCEPT ![s] = Latest]
    BY <1>3 DEF Start
  <2>2. Shapes'
    BY <1>1, <1>3, <2>1, LoadedIsSettings DEF IInv, Shapes
  <2>3. Savings' /\ Saved' /\ Alone' /\ Failing'
    BY <1>1, <2>1 DEF IInv, Savings, Saved, Alone, Failing
  <2>4. Current'
    BY <1>1, <1>2, <2>1 DEF IInv, Shapes, Current
  <2>. QED  BY <2>2, <2>3, <2>4 DEF IInv
<1>4. CASE ~Loadable
  <2>1. /\ UNCHANGED <<live, data, own, stale>> /\ "config" \in overlap
    BY <1>4 DEF Start, IInv, Alone, Loadable
  <2>2. Shapes' /\ Savings' /\ Saved'
    BY <1>1, <2>1 DEF IInv, Shapes, Savings, Saved
  <2>3. Alone' /\ Failing' /\ Current'
    BY <1>1, <2>1 DEF IInv, Alone, Failing, Current
  <2>. QED  BY <2>2, <2>3 DEF IInv
<1>. QED  BY <1>3, <1>4

\* So does one that reloads.
LEMMA ReloadKeeps == \A s \in Sessions : IInv /\ Reload(s) => IInv'
<1> SUFFICES ASSUME NEW s \in Sessions, IInv, Reload(s) PROVE IInv'
  OBVIOUS
<1>1. /\ UNCHANGED <<live, own, saving, at, path, tmp, overlap>>
      /\ s \in live /\ saving[s] = Idle /\ Loaded' = Loaded
  BY DEF Reload, Loaded
<1>2. saving[s].file = "none"
  BY <1>1 DEF Idle
<1>3. CASE Loadable
  <2>1. data' = [data EXCEPT ![s] = Loaded] /\ stale' = stale \ {s} /\ failed' = failed
    BY <1>3 DEF Reload
  <2>2. Shapes'
    BY <1>1, <1>3, <2>1, LoadedIsSettings DEF IInv, Shapes
  <2>3. Savings' /\ Saved' /\ Alone' /\ Failing'
    BY <1>1, <2>1 DEF IInv, Savings, Saved, Alone, Failing
  <2>4. Current'
    BY <1>1, <1>2, <2>1 DEF IInv, Shapes, Current
  <2>. QED  BY <2>2, <2>3, <2>4 DEF IInv
<1>4. CASE ~Loadable
  <2>1. /\ UNCHANGED <<data, stale>> /\ "config" \in overlap
    BY <1>4 DEF Reload, IInv, Alone, Loadable
  <2>2. Shapes' /\ Savings' /\ Saved'
    BY <1>1, <2>1 DEF IInv, Shapes, Savings, Saved
  <2>3. Alone' /\ Failing' /\ Current'
    BY <1>1, <2>1 DEF IInv, Alone, Failing, Current
  <2>. QED  BY <2>2, <2>3 DEF IInv
<1>. QED  BY <1>3, <1>4

\* What the begin of a save changes, apart from the settings in memory.
LEMMA BeginFacts ==
  ASSUME IInv, NEW s \in Sessions, NEW f \in Files, NEW contents, Begin(s, f, contents),
         f = "config" => contents \in Settings
  PROVE  /\ UNCHANGED <<live, at, path, tmp, failed, stale>> /\ s \in live
         /\ saving[s] = Idle /\ saving[s].file = "none"
         /\ saving' = [saving EXCEPT ![s] = [file |-> f, contents |-> contents, step |-> "open"]]
         /\ saving'[s] = [file |-> f, contents |-> contents, step |-> "open"]
         /\ \A t \in Sessions : t # s => saving'[t] = saving[t]
         /\ Savings' /\ Saved' /\ Alone' /\ Failing'
         /\ overlap \subseteq overlap'
<1>1. /\ UNCHANGED <<live, at, path, tmp, failed, stale>> /\ s \in live
      /\ saving[s] = Idle /\ saving[s].file = "none"
      /\ saving' = [saving EXCEPT ![s] = [file |-> f, contents |-> contents, step |-> "open"]]
      /\ overlap' = IF \E t \in Sessions : saving[t].file = f THEN overlap \union {f} ELSE overlap
  BY DEF Begin, Idle
<1>2. /\ saving'[s] = [file |-> f, contents |-> contents, step |-> "open"]
      /\ \A t \in Sessions : t # s => saving'[t] = saving[t]
  BY <1>1 DEF IInv, Shapes
<1>3. Savings'
  BY <1>1, <1>2 DEF IInv, Savings
<1>4. Saved' /\ Failing'
  BY <1>1 DEF IInv, Saved, Failing
<1>5. Alone'
  <2> SUFFICES ASSUME NEW g \in Files \ overlap'
               PROVE  /\ path[g].state \in {"missing", "whole"}
                      /\ \A q, t \in Sessions : saving'[q].file = g /\ saving'[t].file = g => q = t
                      /\ \A t \in Sessions :
                           /\ saving'[t].file = g /\ saving'[t].step = "write" =>
                                at[t] = "tmp" /\ tmp[g].by \subseteq {t}
                           /\ saving'[t].file = g /\ saving'[t].step = "replace" =>
                                /\ at[t] = "tmp" /\ tmp[g].state = "whole"
                                /\ tmp[g].contents = saving'[t].contents
    BY <1>1 DEF Alone
  <2>1. g \in Files \ overlap /\ (g = f => \A t \in Sessions : saving[t].file # f)
    BY <1>1
  <2>2. \A q, t \in Sessions : saving'[q].file = g /\ saving'[t].file = g => q = t
    BY <1>2, <2>1 DEF IInv, Alone
  <2>. QED  BY <1>2, <2>1, <2>2 DEF IInv, Alone
<1>. QED  BY <1>1, <1>2, <1>3, <1>4, <1>5

\* A setting that is changed differs from the disk until it is saved.
LEMMA SetKeeps == \A s \in Sessions, k \in Keys, v \in Values : IInv /\ Set(s, k, v) => IInv'
<1> SUFFICES ASSUME NEW s \in Sessions, NEW k \in Keys, NEW v \in Values, IInv, Set(s, k, v)
             PROVE  IInv'
  OBVIOUS
<1>1. /\ data' = [data EXCEPT ![s] = [data[s] EXCEPT ![k] = v]]
      /\ Begin(s, "config", data'[s]) /\ own' = own
  BY DEF Set, IInv, Shapes
<1>2. data' \in [Sessions -> Settings] /\ data'[s] \in Settings
      /\ (\A t \in Sessions : t # s => data'[t] = data[t])
      /\ (\A j \in Keys \ {k} : data'[s][j] = data[s][j])
  BY <1>1 DEF IInv, Shapes, Settings
<1>3. /\ UNCHANGED <<live, at, path, tmp, failed, stale>> /\ s \in live
      /\ saving[s].file = "none"
      /\ saving' = [saving EXCEPT ![s] = [file |-> "config", contents |-> data'[s], step |-> "open"]]
      /\ saving'[s] = [file |-> "config", contents |-> data'[s], step |-> "open"]
      /\ \A t \in Sessions : t # s => saving'[t] = saving[t]
      /\ Savings' /\ Saved' /\ Alone' /\ Failing'
      /\ overlap \subseteq overlap'
  BY <1>1, <1>2, BeginFacts
<1>4. Shapes'
  BY <1>1, <1>2, <1>3 DEF IInv, Shapes
<1>5. Current'
  <2>1. Loaded' = Loaded
    BY <1>3 DEF Loaded
  <2> SUFFICES ASSUME "config" \notin overlap', NEW t \in live \ stale
               PROVE  /\ saving'[t].file # "config" => data'[t] = Loaded
                      /\ saving'[t].file = "config" =>
                           /\ data'[t] = saving'[t].contents
                           /\ \E l \in Keys : \A j \in Keys \ {l} : saving'[t].contents[j] = Loaded[j]
    BY <1>3, <2>1 DEF Current
  <2>2. t \in Sessions /\ "config" \notin overlap
    BY <1>3 DEF IInv, Shapes
  <2>3. CASE t = s
    <3>1. data[s] = Loaded
      BY <1>3, <2>2, <2>3 DEF IInv, Current
    <3>. QED  BY <1>2, <1>3, <2>3, <3>1
  <2>4. CASE t # s
    BY <1>2, <1>3, <2>2, <2>4 DEF IInv, Current
  <2>. QED  BY <2>3, <2>4
<1>. QED  BY <1>3, <1>4, <1>5 DEF IInv

\* The list of models has nothing to do with the settings.
LEMMA ChooseKeeps == \A s \in Sessions, m \in Models : IInv /\ Choose(s, m) => IInv'
<1> SUFFICES ASSUME NEW s \in Sessions, NEW m \in Models, IInv, Choose(s, m) PROVE IInv'
  OBVIOUS
<1> DEFINE list == <<m>> \o Without(RecentModels, m)
<1>1. own' = [own EXCEPT ![s] = m] /\ Begin(s, "models", list) /\ data' = data
  BY DEF Choose
<1> HIDE DEF list
<1>2. /\ UNCHANGED <<live, at, path, tmp, failed, stale>> /\ s \in live
      /\ saving[s].file = "none"
      /\ saving' = [saving EXCEPT ![s] = [file |-> "models", contents |-> list, step |-> "open"]]
      /\ saving'[s] = [file |-> "models", contents |-> list, step |-> "open"]
      /\ \A t \in Sessions : t # s => saving'[t] = saving[t]
      /\ Savings' /\ Saved' /\ Alone' /\ Failing'
      /\ overlap \subseteq overlap'
  BY <1>1, BeginFacts
<1>3. Shapes'
  BY <1>1, <1>2 DEF IInv, Shapes
<1>4. Loaded' = Loaded
  BY <1>2 DEF Loaded
<1>5. Current'
  <2> SUFFICES ASSUME "config" \notin overlap', NEW t \in live \ stale
               PROVE  /\ saving'[t].file # "config" => data[t] = Loaded
                      /\ saving'[t].file = "config" =>
                           /\ data[t] = saving'[t].contents
                           /\ \E l \in Keys : \A j \in Keys \ {l} : saving'[t].contents[j] = Loaded[j]
    BY <1>1, <1>2, <1>4 DEF Current
  <2>1. t \in Sessions /\ "config" \notin overlap
    BY <1>2 DEF IInv, Shapes
  <2>2. CASE t = s
    BY <1>2, <2>1, <2>2 DEF IInv, Current
  <2>3. CASE t # s
    BY <1>2, <2>1, <2>3 DEF IInv, Current
  <2>. QED  BY <2>2, <2>3
<1>. QED  BY <1>2, <1>3, <1>5 DEF IInv

\* What a step of a save changes in the table of saves.
LEMMA StepFacts ==
  ASSUME IInv, NEW s \in Sessions, NEW step \in {"write", "replace"}, Step(s, step),
         saving[s].step \in {"open", "write"}
  PROVE  /\ saving' = [t \in Sessions |-> saving'[t]]
         /\ saving'[s] = [file |-> saving[s].file, contents |-> saving[s].contents, step |-> step]
         /\ \A t \in Sessions : /\ t # s => saving'[t] = saving[t]
                                /\ saving'[t].file = saving[t].file
                                /\ saving'[t].contents = saving[t].contents
         /\ saving[s].file \in Files /\ s \in live
         /\ live' = live => Savings'
<1>1. /\ saving = [t \in Sessions |-> saving[t]]
      /\ saving' = [saving EXCEPT ![s] = [saving[s] EXCEPT !.step = step]]
  BY DEF IInv, Shapes, Step
<1>2. saving[s] = [file |-> saving[s].file, contents |-> saving[s].contents,
                   step |-> saving[s].step]
  BY DEF IInv, Savings
<1>3. saving[s].file \in Files /\ s \in live
  BY IdleFields DEF IInv, Savings
<1>4. [saving[s] EXCEPT !.step = step] =
        [file |-> saving[s].file, contents |-> saving[s].contents, step |-> step]
  BY <1>2
<1>5. /\ saving' = [t \in Sessions |-> saving'[t]]
      /\ saving'[s] = [file |-> saving[s].file, contents |-> saving[s].contents, step |-> step]
      /\ \A t \in Sessions : t # s => saving'[t] = saving[t]
  BY <1>1, <1>4
<1>6. ASSUME live' = live PROVE Savings'
  <2> SUFFICES ASSUME NEW t \in Sessions
               PROVE  /\ saving'[t] = [file |-> saving'[t].file, contents |-> saving'[t].contents,
                                       step |-> saving'[t].step]
                      /\ \/ saving'[t] = Idle
                         \/ /\ saving'[t].file \in Files /\ t \in live
                            /\ saving'[t].step \in {"open", "write", "replace"}
                            /\ saving'[t].file = "config" => saving'[t].contents \in Settings
    BY <1>6 DEF Savings
  <2>1. CASE t = s
    <3>1. saving[s].file = "config" => saving[s].contents \in Settings
      BY IdleFields DEF IInv, Savings
    <3>. QED  BY <1>3, <1>5, <2>1, <3>1
  <2>2. CASE t # s
    BY <1>5, <2>2 DEF IInv, Savings
  <2>. QED  BY <2>1, <2>2
<1>. QED  BY <1>3, <1>5, <1>6

\* A temporary file that is cut to nothing was written by nobody.
LEMMA OpenKeeps == \A s \in Sessions : IInv /\ Open(s) => IInv'
<1> SUFFICES ASSUME NEW s \in Sessions, IInv, Open(s) PROVE IInv'
  OBVIOUS
<1> DEFINE f == saving[s].file
<1>1. /\ UNCHANGED <<live, data, own, path, failed, overlap, stale>>
      /\ saving[s].step = "open" /\ Step(s, "write")
      /\ at' = [at EXCEPT ![s] = "tmp"] /\ tmp' = [tmp EXCEPT ![f] = Empty]
  BY DEF Open
<1>2. /\ saving' = [t \in Sessions |-> saving'[t]]
      /\ saving'[s] = [file |-> f, contents |-> saving[s].contents, step |-> "write"]
      /\ \A t \in Sessions : /\ t # s => saving'[t] = saving[t]
                             /\ saving'[t].file = saving[t].file
                             /\ saving'[t].contents = saving[t].contents
      /\ f \in Files /\ s \in live /\ Savings'
  BY <1>1, StepFacts
<1> HIDE DEF f
<1>3. /\ at'[s] = "tmp" /\ \A t \in Sessions : t # s => at'[t] = at[t]
      /\ tmp'[f] = Empty /\ \A g \in Files : g # f => tmp'[g] = tmp[g]
  BY <1>1, <1>2 DEF IInv, Shapes
<1>4. Empty.state = "empty" /\ Empty.by = {}
  BY DEF Empty, File
<1>5. Shapes'
  BY <1>1, <1>2 DEF IInv, Shapes
<1>6. Savings'
  BY <1>2
<1>7. Saved' /\ Failing'
  BY <1>1, <1>3, <1>4 DEF IInv, Saved, Failing
<1>8. Alone'
  <2> SUFFICES ASSUME NEW g \in Files \ overlap, NEW t \in Sessions, saving[t].file = g
               PROVE  /\ saving'[t].step = "write" => at'[t] = "tmp" /\ tmp'[g].by \subseteq {t}
                      /\ saving'[t].step = "replace" =>
                           /\ at'[t] = "tmp" /\ tmp'[g].state = "whole"
                           /\ tmp'[g].contents = saving'[t].contents
    BY <1>1, <1>2 DEF IInv, Alone
  <2>1. CASE t = s
    BY <1>2, <1>3, <1>4, <2>1 DEF f
  <2>2. CASE t # s
    <3>1. g # f
      BY <2>2 DEF IInv, Alone, f
    <3>. QED  BY <1>2, <1>3, <2>2, <3>1 DEF IInv, Alone
  <2>. QED  BY <2>1, <2>2
<1>9. Current'
  <2>1. Loaded' = Loaded
    BY <1>1 DEF Loaded
  <2>2. live \subseteq Sessions
    BY DEF IInv, Shapes
  <2>. QED  BY <1>1, <1>2, <2>1, <2>2 DEF IInv, Current
<1>. QED  BY <1>5, <1>6, <1>7, <1>8, <1>9 DEF IInv

\* What is written goes to the temporary file, where no saves overlapped.
LEMMA PutFacts ==
  ASSUME IInv, NEW s \in Sessions, NEW state \in {"torn", "whole"}, Put(s, state),
         saving[s].step = "write", saving[s].file \in Files
  PROVE  /\ path' = [g \in Files |-> path'[g]] /\ tmp' = [g \in Files |-> tmp'[g]]
         /\ \A g \in Files : g # saving[s].file => path'[g] = path[g] /\ tmp'[g] = tmp[g]
         /\ \A g \in Files \ overlap : path'[g] = path[g]
         /\ saving[s].file \notin overlap =>
              LET now == tmp'[saving[s].file]
              IN /\ now.state = state /\ now.by = tmp[saving[s].file].by \union {s}
                 /\ state = "whole" => now.contents = saving[s].contents
         /\ Saved'
<1> DEFINE f == saving[s].file
           Now(file) == File(state, IF state = "whole" THEN saving[s].contents ELSE <<>>,
                             file.by \union {s})
<1>1. /\ path' = IF at[s] = "path" THEN [path EXCEPT ![f] = Now(path[f])] ELSE path
      /\ tmp'  = IF at[s] = "tmp"  THEN [tmp  EXCEPT ![f] = Now(tmp[f])] ELSE tmp
  BY DEF Put, IInv, Shapes
<1>2. \A file : /\ Now(file).state = state /\ Now(file).by = file.by \union {s}
                /\ state = "whole" => Now(file).contents = saving[s].contents
  BY DEF File
<1>3. f = "config" => saving[s].contents \in Settings
  BY IdleFields DEF IInv, Savings
<1> HIDE DEF Now
<1>4. f \notin overlap => at[s] = "tmp"
  BY DEF IInv, Alone
<1>5. /\ path' = [g \in Files |-> path'[g]] /\ tmp' = [g \in Files |-> tmp'[g]]
      /\ \A g \in Files : g # f => path'[g] = path[g] /\ tmp'[g] = tmp[g]
      /\ path'[f] = path[f] \/ path'[f] = Now(path[f])
      /\ tmp'[f] = tmp[f] \/ tmp'[f] = Now(tmp[f])
      /\ at[s] = "tmp" => path'[f] = path[f] /\ tmp'[f] = Now(tmp[f])
  BY <1>1 DEF IInv, Shapes
<1>6. Saved'
  BY <1>2, <1>3, <1>5 DEF IInv, Saved
<1>. QED  BY <1>2, <1>4, <1>5, <1>6

\* A piece of a save.
LEMMA WritePartKeeps == \A s \in Sessions : IInv /\ WritePart(s) => IInv'
<1> SUFFICES ASSUME NEW s \in Sessions, IInv, WritePart(s) PROVE IInv'
  OBVIOUS
<1>1. /\ UNCHANGED <<live, data, own, saving, at, failed, overlap, stale>>
      /\ saving[s].step = "write" /\ Put(s, "torn")
  BY DEF WritePart
<1>2. saving[s].file \in Files
  BY <1>1, IdleFields DEF IInv, Savings
<1>3. /\ path' = [g \in Files |-> path'[g]] /\ tmp' = [g \in Files |-> tmp'[g]]
      /\ \A g \in Files : g # saving[s].file => path'[g] = path[g] /\ tmp'[g] = tmp[g]
      /\ \A g \in Files \ overlap : path'[g] = path[g]
      /\ saving[s].file \notin overlap =>
           tmp'[saving[s].file].by = tmp[saving[s].file].by \union {s}
      /\ Saved'
  BY <1>1, <1>2, PutFacts
<1>4. Shapes' /\ Savings' /\ Failing'
  BY <1>1, <1>3 DEF IInv, Shapes, Savings, Failing
<1>5. Alone'
  <2> SUFFICES ASSUME NEW g \in Files \ overlap, NEW t \in Sessions, saving[t].file = g
               PROVE  /\ saving[t].step = "write" => at[t] = "tmp" /\ tmp'[g].by \subseteq {t}
                      /\ saving[t].step = "replace" =>
                           /\ at[t] = "tmp" /\ tmp'[g].state = "whole"
                           /\ tmp'[g].contents = saving[t].contents
    BY <1>1, <1>3 DEF IInv, Alone
  <2>1. CASE t = s
    BY <1>1, <1>3, <2>1 DEF IInv, Alone
  <2>2. CASE t # s
    <3>1. saving[s].file # g
      BY <2>2 DEF IInv, Alone
    <3>. QED  BY <1>3, <3>1 DEF IInv, Alone
  <2>. QED  BY <2>1, <2>2
<1>6. Current'
  <2>1. "config" \notin overlap => Loaded' = Loaded
    BY <1>3 DEF Loaded
  <2>. QED  BY <1>1, <2>1 DEF IInv, Current
<1>. QED  BY <1>3, <1>4, <1>5, <1>6 DEF IInv

\* The end of what is written: alone in the file, the session leaves it whole.
LEMMA WriteKeeps == \A s \in Sessions : IInv /\ Write(s) => IInv'
<1> SUFFICES ASSUME NEW s \in Sessions, IInv, Write(s) PROVE IInv'
  OBVIOUS
<1> DEFINE f == saving[s].file
<1>1. /\ UNCHANGED <<live, data, own, at, failed, overlap, stale>>
      /\ saving[s].step = "write" /\ Step(s, "replace")
  BY DEF Write
<1>2. /\ saving' = [t \in Sessions |-> saving'[t]]
      /\ saving'[s] = [file |-> f, contents |-> saving[s].contents, step |-> "replace"]
      /\ \A t \in Sessions : /\ t # s => saving'[t] = saving[t]
                             /\ saving'[t].file = saving[t].file
                             /\ saving'[t].contents = saving[t].contents
      /\ f \in Files /\ s \in live /\ Savings'
  BY <1>1, StepFacts
<1>3. PICK state \in {"torn", "whole"} : Put(s, state) /\ (f \notin overlap => state = "whole")
  <2>1. f \notin overlap => at[s] = "tmp" /\ tmp[f].by \ {s} = {}
    BY <1>1, <1>2 DEF IInv, Alone
  <2>2. at[s] = "tmp" /\ tmp[f].by \ {s} = {} => Put(s, "whole")
    BY DEF Write
  <2>3. Put(s, "whole") \/ Put(s, "torn")
    BY DEF Write
  <2>. QED  BY <2>1, <2>2, <2>3
<1>4. /\ path' = [g \in Files |-> path'[g]] /\ tmp' = [g \in Files |-> tmp'[g]]
      /\ \A g \in Files : g # f => path'[g] = path[g] /\ tmp'[g] = tmp[g]
      /\ \A g \in Files \ overlap : path'[g] = path[g]
      /\ f \notin overlap => tmp'[f].state = "whole" /\ tmp'[f].contents = saving[s].contents
      /\ Saved'
  BY <1>1, <1>2, <1>3, PutFacts
<1> HIDE DEF f
<1>5. Shapes' /\ Failing'
  BY <1>1, <1>2, <1>4 DEF IInv, Shapes, Failing
<1>6. Savings'
  BY <1>2
<1>7. Alone'
  <2> SUFFICES ASSUME NEW g \in Files \ overlap, NEW t \in Sessions, saving[t].file = g
               PROVE  /\ saving'[t].step = "write" => at[t] = "tmp" /\ tmp'[g].by \subseteq {t}
                      /\ saving'[t].step = "replace" =>
                           /\ at[t] = "tmp" /\ tmp'[g].state = "whole"
                           /\ tmp'[g].contents = saving'[t].contents
    BY <1>1, <1>2, <1>4 DEF IInv, Alone
  <2>1. CASE t = s
    BY <1>1, <1>2, <1>4, <2>1 DEF IInv, Alone, f
  <2>2. CASE t # s
    <3>1. g # f
      BY <2>2 DEF IInv, Alone, f
    <3>. QED  BY <1>2, <1>4, <2>2, <3>1 DEF IInv, Alone
  <2>. QED  BY <2>1, <2>2
<1>8. Current'
  <2>1. "config" \notin overlap => Loaded' = Loaded
    BY <1>4 DEF Loaded
  <2>2. live \subseteq Sessions
    BY DEF IInv, Shapes
  <2>. QED  BY <1>1, <1>2, <2>1, <2>2 DEF IInv, Current
<1>. QED  BY <1>4, <1>5, <1>6, <1>7, <1>8 DEF IInv

\* A save that is renamed is whole, and the setting it changes is on disk.
LEMMA ReplaceKeeps == \A s \in Sessions : IInv /\ Replace(s) => IInv'
<1> SUFFICES ASSUME NEW s \in Sessions, IInv, Replace(s) PROVE IInv'
  OBVIOUS
<1> DEFINE f == saving[s].file
<1>1. /\ UNCHANGED <<live, data, own, overlap>> /\ saving[s].step = "replace"
      /\ saving' = [saving EXCEPT ![s] = Idle]
  BY DEF Replace
<1>2. /\ saving' = [t \in Sessions |-> saving'[t]]
      /\ saving'[s] = Idle /\ Idle.file = "none" /\ Idle.step = "none"
      /\ \A t \in Sessions : t # s => saving'[t] = saving[t]
  BY <1>1, IdleFields DEF IInv, Shapes
<1>3. f \in Files /\ s \in live /\ (f = "config" => saving[s].contents \in Settings)
  BY <1>1, IdleFields DEF IInv, Savings
<1>4. Savings'
  BY <1>1, <1>2, SavingsEnd DEF IInv
<1>5. \A g \in Files \ overlap : \A t, q \in Sessions :
        saving'[t].file = g /\ saving'[q].file = g => t = q
  BY <1>2, <1>3 DEF IInv, Alone
<1>6. \A t \in Sessions : t # s /\ saving[t].file = f => f \in overlap
  BY <1>3 DEF IInv, Alone
<1>7. CASE tmp[f] = Missing
  <2>1. UNCHANGED <<at, path, tmp, stale>>
    BY <1>7 DEF Replace
  <2>2. f \in overlap
    <3>1. Missing.state # "whole"
      BY DEF Missing, File
    <3>. QED  BY <1>1, <1>3, <1>7, <3>1 DEF IInv, Alone
  <2>3. Shapes' /\ Saved' /\ Failing'
    BY <1>1, <1>2, <2>1, <2>2 DEF IInv, Shapes, Saved, Failing
  <2>4. Alone'
    BY <1>1, <1>2, <1>5, <2>1 DEF IInv, Alone
  <2>5. Current'
    <3>1. Loaded' = Loaded /\ live \subseteq Sessions
      BY <2>1 DEF Loaded, IInv, Shapes
    <3>2. "config" \notin overlap => f # "config"
      BY <2>2
    <3>. QED  BY <1>1, <1>2, <2>1, <3>1, <3>2 DEF IInv, Current
  <2>. QED  BY <1>4, <2>3, <2>4, <2>5 DEF IInv
<1>8. CASE tmp[f] # Missing
  <2>1. /\ path' = [path EXCEPT ![f] = tmp[f]] /\ tmp' = [tmp EXCEPT ![f] = Missing]
        /\ at' = [t \in Sessions |->
                    IF saving[t].file # f THEN at[t]
                    ELSE IF at[t] = "tmp" THEN "path" ELSE "gone"]
        /\ stale' = (IF f = "config" THEN stale \union (live \ {s}) ELSE stale)
        /\ failed' = failed
    BY <1>8 DEF Replace
  <2> HIDE DEF f
  <2>2. /\ path'[f] = tmp[f] /\ tmp'[f] = Missing
        /\ \A g \in Files : g # f => path'[g] = path[g] /\ tmp'[g] = tmp[g]
        /\ \A t \in Sessions : saving[t].file # f => at'[t] = at[t]
    BY <1>3, <2>1 DEF IInv, Shapes
  <2>3. Missing.state = "missing"
    BY DEF Missing, File
  <2>4. Shapes'
    BY <1>1, <1>2, <2>1 DEF IInv, Shapes
  <2>5. Saved' /\ Failing'
    BY <1>1, <2>1, <2>2, <2>3, <1>3 DEF IInv, Saved, Failing
  <2>6. f \notin overlap => path'[f].state = "whole" /\ path'[f].contents = saving[s].contents
    BY <1>1, <1>3, <2>2 DEF IInv, Alone, f
  <2>7. Alone'
    <3> SUFFICES ASSUME NEW g \in Files \ overlap, NEW t \in Sessions, saving'[t].file = g
                 PROVE  /\ saving'[t].step = "write" => at'[t] = "tmp" /\ tmp'[g].by \subseteq {t}
                        /\ saving'[t].step = "replace" =>
                             /\ at'[t] = "tmp" /\ tmp'[g].state = "whole"
                             /\ tmp'[g].contents = saving'[t].contents
      <4>1. \A g \in Files \ overlap : path'[g].state \in {"missing", "whole"}
        BY <2>2, <2>6 DEF IInv, Alone
      <4>. QED  BY <1>1, <1>5, <4>1 DEF Alone
    <3>1. t # s /\ saving'[t] = saving[t]
      BY <1>2
    <3>2. g # f
      BY <1>6, <3>1
    <3>. QED  BY <2>2, <3>1, <3>2 DEF IInv, Alone
  <2>8. Current'
    <3> SUFFICES ASSUME "config" \notin overlap, NEW t \in live \ stale'
                 PROVE  /\ saving'[t].file # "config" => data[t] = Loaded'
                        /\ saving'[t].file = "config" =>
                             /\ data[t] = saving'[t].contents
                             /\ \E l \in Keys : \A j \in Keys \ {l} :
                                  saving'[t].contents[j] = Loaded'[j]
      BY <1>1 DEF Current
    <3>1. t \in Sessions /\ t \in live \ stale
      BY <2>1 DEF IInv, Shapes
    <3>2. CASE f = "config"
      <4>1. t = s
        BY <2>1, <3>2
      <4>2. data[s] = saving[s].contents
        BY <3>1, <3>2, <4>1 DEF IInv, Current, f
      <4>3. Loaded' = saving[s].contents
        BY <2>6, <3>2 DEF Loaded
      <4>. QED  BY <1>2, <4>1, <4>2, <4>3
    <3>3. CASE f # "config"
      <4>1. Loaded' = Loaded
        BY <2>2, <3>3 DEF Loaded
      <4>2. CASE t = s
        BY <1>2, <3>1, <3>3, <4>1, <4>2 DEF IInv, Current, f
      <4>3. CASE t # s
        BY <1>2, <3>1, <4>1, <4>3 DEF IInv, Current
      <4>. QED  BY <4>2, <4>3
    <3>. QED  BY <3>2, <3>3
  <2>. QED  BY <1>4, <2>4, <2>5, <2>7, <2>8 DEF IInv
<1>. QED  BY <1>7, <1>8

\* A session that is killed leaves its temporary file, for the next to cut.
LEMMA CrashKeeps == \A s \in Sessions : IInv /\ Crash(s) => IInv'
<1> SUFFICES ASSUME NEW s \in Sessions, IInv, Crash(s) PROVE IInv'
  OBVIOUS
<1>1. /\ UNCHANGED <<data, own, at, path, tmp, failed, overlap, stale>>
      /\ live' = live \ {s} /\ saving' = [saving EXCEPT ![s] = Idle]
  BY DEF Crash
<1>2. /\ saving'[s] = Idle /\ Idle.file = "none" /\ Idle.step = "none"
      /\ \A t \in Sessions : t # s => saving'[t] = saving[t]
  BY <1>1, IdleFields DEF IInv, Shapes
<1>3. Shapes' /\ Saved' /\ Failing'
  BY <1>1 DEF IInv, Shapes, Saved, Failing
<1>4. Savings'
  BY <1>1, <1>2, SavingsEnd DEF IInv
<1>5. Alone'
  <2>1. \A g \in Files, t \in Sessions : saving'[t].file = g => t # s /\ saving'[t] = saving[t]
    BY <1>2
  <2>. QED  BY <1>1, <2>1 DEF IInv, Alone
<1>6. Current'
  <2>1. Loaded' = Loaded
    BY <1>1 DEF Loaded
  <2>2. \A t \in live' : t \in live /\ saving'[t] = saving[t]
    BY <1>1, <1>2 DEF IInv, Shapes
  <2>. QED  BY <1>1, <2>1, <2>2 DEF IInv, Current
<1>. QED  BY <1>3, <1>4, <1>5, <1>6 DEF IInv

\* A step in which nothing changes.
LEMMA Stutters == IInv /\ UNCHANGED vars => IInv'
<1> SUFFICES ASSUME IInv, UNCHANGED vars PROVE IInv'
  OBVIOUS
<1>1. UNCHANGED <<live, data, own, saving, at, path, tmp, failed, overlap, stale>>
  BY DEF vars
<1>2. Shapes' /\ Savings' /\ Saved'
  BY <1>1 DEF IInv, Shapes, Savings, Saved
<1>3. Alone' /\ Failing'
  BY <1>1 DEF IInv, Alone, Failing
<1>4. Current'
  BY <1>1 DEF IInv, Current, Loaded
<1>. QED  BY <1>2, <1>3, <1>4 DEF IInv

\* Every step keeps the invariant.
LEMMA StepKeeps == IInv /\ [Next]_vars => IInv'
<1> SUFFICES ASSUME IInv, [Next]_vars PROVE IInv'
  OBVIOUS
<1>1. ASSUME NEW s \in Sessions, Start(s) \/ Reload(s) \/ Crash(s) PROVE IInv'
  BY <1>1, StartKeeps, ReloadKeeps, CrashKeeps
<1>2. ASSUME NEW s \in Sessions, NEW k \in Keys, NEW v \in Values, Set(s, k, v) PROVE IInv'
  BY <1>2, SetKeeps
<1>3. ASSUME NEW s \in Sessions, NEW m \in Models, Choose(s, m) PROVE IInv'
  BY <1>3, ChooseKeeps
<1>4. ASSUME NEW s \in Sessions, Open(s) \/ WritePart(s) \/ Write(s) \/ Replace(s) PROVE IInv'
  BY <1>4, OpenKeeps, WritePartKeeps, WriteKeeps, ReplaceKeeps
<1>5. CASE UNCHANGED vars
  BY <1>5, Stutters
<1>. QED  BY <1>1, <1>2, <1>3, <1>4, <1>5 DEF Next

\* The invariant holds in every state.
THEOREM Invariance == Spec => []IInv
<1>. QED  BY Initial, StepKeeps, PTL DEF Spec

\* Wherever a session is killed, config.json and the list of models are absent or
\* one complete save, as long as no two saves of the file overlapped.
THEOREM FilesWhole == Spec => []FilesAreWhole
<1>1. IInv => FilesAreWhole
  BY DEF IInv, Alone, Failing, FilesAreWhole
<1>. QED  BY <1>1, Invariance, PTL

\* What each action does to the models of the sessions.
LEMMA OwnStep ==
  ASSUME IInv, NEW s \in live \intersect live', own'[s] # own[s], [Next]_vars
  PROVE  saving[s] = Idle /\ saving'[s].file = "models"
<1>1. s \in Sessions
  BY DEF IInv, Shapes
<1>2. ASSUME NEW t \in Sessions, Start(t) PROVE own'[s] = own[s]
  BY <1>1, <1>2 DEF Start, IInv, Shapes
<1>3. ASSUME NEW t \in Sessions, NEW m \in Models, Choose(t, m)
      PROVE  own'[s] = own[s] \/ (saving[s] = Idle /\ saving'[s].file = "models")
  <2>1. CASE t = s
    BY <1>1, <1>3, <2>1 DEF Choose, Begin, IInv, Shapes
  <2>2. CASE t # s
    BY <1>1, <1>3, <2>2 DEF Choose, IInv, Shapes
  <2>. QED  BY <2>1, <2>2
<1>4. ASSUME NEW t \in Sessions,
             \/ Reload(t) \/ Crash(t) \/ Open(t) \/ WritePart(t) \/ Write(t) \/ Replace(t)
             \/ \E k \in Keys, v \in Values : Set(t, k, v)
      PROVE  own' = own
  BY <1>4 DEF Reload, Crash, Open, WritePart, Write, Replace, Set
<1>5. UNCHANGED vars => own' = own
  BY DEF vars
<1>. QED  BY <1>2, <1>3, <1>4, <1>5 DEF Next

\* The model a session works with changes at its own choice alone, whatever other
\* sessions choose and save and whenever the session reloads.
THEOREM ModelIsOwn == Spec => SessionModelIsOwn
<1>1. IInv /\ [Next]_vars =>
        [\A s \in live \intersect live' :
           own'[s] # own[s] => saving[s] = Idle /\ saving'[s].file = "models"]_vars
  BY OwnStep
<1>. QED  BY <1>1, Invariance, PTL DEF Spec, SessionModelIsOwn

\* What the end of a save does to the settings on disk.
LEMMA SaveStep ==
  ASSUME IInv, [Next]_vars, NEW s \in live,
         saving[s].file = "config", saving[s].step = "replace", saving'[s] = Idle,
         s \notin stale, "config" \notin overlap, path["config"].state = "whole",
         NEW j \in Keys, NEW k \in Keys,
         path'["config"].contents[j] # path["config"].contents[j],
         path'["config"].contents[k] # path["config"].contents[k]
  PROVE  j = k
<1>1. s \in Sessions /\ Loaded = path["config"].contents /\ saving[s] # Idle
  BY IdleFields DEF IInv, Shapes, Loaded
<1>2. PICK l \in Keys : \A i \in Keys \ {l} : saving[s].contents[i] = path["config"].contents[i]
  BY <1>1 DEF IInv, Current
<1>3. tmp["config"].contents = saving[s].contents
  BY <1>1 DEF IInv, Alone
<1>4. path'["config"] = path["config"] \/ path'["config"] = tmp["config"]
  <2>1. ASSUME NEW t \in Sessions, Replace(t)
        PROVE  path'["config"] = path["config"] \/ path'["config"] = tmp["config"]
    BY <2>1 DEF Replace, IInv, Shapes
  <2>2. ASSUME NEW t \in Sessions, WritePart(t) \/ Write(t) PROVE path'["config"] = path["config"]
    <3>1. saving[t].step = "write" /\ \E state \in {"torn", "whole"} : Put(t, state)
      BY <2>2 DEF WritePart, Write
    <3>2. saving[t].file \in Files
      BY <3>1, IdleFields DEF IInv, Savings
    <3>. QED  BY <3>1, <3>2, PutFacts
  <2>3. ASSUME NEW t \in Sessions,
               \/ Start(t) \/ Reload(t) \/ Crash(t) \/ Open(t)
               \/ \E m \in Models : Choose(t, m)
               \/ \E i \in Keys, v \in Values : Set(t, i, v)
        PROVE  path' = path
    BY <2>3 DEF Start, Reload, Crash, Open, Choose, Set, Begin
  <2>4. UNCHANGED vars => path' = path
    BY DEF vars
  <2>. QED  BY <2>1, <2>2, <2>3, <2>4 DEF Next
<1>. QED  BY <1>2, <1>3, <1>4

\* A save changes one setting on disk and keeps what other sessions have set, if
\* the session has loaded the settings since and no two saves overlapped.
THEOREM OthersKept == Spec => OthersAreKept
<1>1. IInv /\ [Next]_vars =>
        [\A s \in live :
           /\ saving[s].file = "config" /\ saving[s].step = "replace" /\ saving'[s] = Idle
           /\ s \notin stale /\ "config" \notin overlap /\ path["config"].state = "whole"
           => \A j, k \in Keys :
                /\ path'["config"].contents[j] # path["config"].contents[j]
                /\ path'["config"].contents[k] # path["config"].contents[k]
                => j = k]_vars
  BY SaveStep
<1>. QED  BY <1>1, Invariance, PTL DEF Spec, OthersAreKept

-----------------------------------------------------------------------------
(* The list of models: a choice puts its model in front and takes it out   *)
(* of the rest, which stays in order.                                      *)

\* Induction, in a form the provers can use: a set of numbers with zero and all
\* successors is all numbers.
LEMMA LessIsWellFounded == IsWellFoundedOn({p \in Nat \X Nat : p[1] < p[2]}, Nat)
<1>1. OpToRel(<, Nat) = {p \in Nat \X Nat : p[1] < p[2]}
  BY DEF OpToRel
<1>. QED  BY <1>1, NatLessThanWellFounded

LEMMA Induction ==
  ASSUME NEW T \in SUBSET Nat, 0 \in T, \A n \in T : n + 1 \in T
  PROVE  T = Nat
<1>. DEFINE C == Nat \ T
            R == {p \in Nat \X Nat : p[1] < p[2]}
<1>. SUFFICES ASSUME C # {} PROVE FALSE
  OBVIOUS
<1>1. PICK x \in C : \A y \in C : <<y, x>> \notin R
  <2>1. C \subseteq Nat
    OBVIOUS
  <2>2. IsWellFoundedOn(R, Nat)
    BY LessIsWellFounded
  <2>. HIDE DEF R, C
  <2>. QED  BY <2>1, <2>2, WFMin
<1>2. x # 0 /\ x - 1 \in Nat /\ x \in Nat /\ x \notin T
  OBVIOUS
<1>3. x - 1 \notin C
  <2>1. <<x - 1, x>> \in R
    BY <1>2
  <2>. QED  BY <1>1, <2>1
<1>4. (x - 1) + 1 = x
  BY <1>2
<1>. QED  BY <1>2, <1>3, <1>4

\* What is left of the first i entries without the model, for i up to n.
Rest(f, list, model, n) ==
  f = [i \in 0..n |->
        IF i = 0 THEN <<>>
        ELSE f[i - 1] \o (IF list[i] = model THEN <<>> ELSE <<list[i]>>)]
Kept(list, model) == CHOOSE f : Rest(f, list, model, Len(list))

LEMMA RestExists ==
  ASSUME NEW list, NEW model
  PROVE  \A n \in Nat : \E f : Rest(f, list, model, n)
<1>. DEFINE T == {n \in Nat : \E f : Rest(f, list, model, n)}
            add(i) == IF list[i] = model THEN <<>> ELSE <<list[i]>>
<1>1. 0 \in T
  <2>1. Rest([i \in 0..0 |-> <<>>], list, model, 0)
    BY DEF Rest
  <2>. QED  BY <2>1
<1>2. ASSUME NEW n \in T PROVE n + 1 \in T
  <2>1. PICK f : Rest(f, list, model, n)
    BY <1>2
  <2>. DEFINE g == [i \in 0..(n + 1) |-> IF i = 0 THEN <<>> ELSE f[i - 1] \o add(i)]
  <2>2. f = [i \in 0..n |-> IF i = 0 THEN <<>> ELSE f[i - 1] \o add(i)]
    BY <2>1 DEF Rest
  <2>. HIDE DEF add
  <2>3. \A i \in 0..n : g[i] = f[i]
    <3>. SUFFICES ASSUME NEW i \in 0..n PROVE g[i] = f[i]
      OBVIOUS
    <3>1. f[i] = IF i = 0 THEN <<>> ELSE f[i - 1] \o add(i)
      BY <2>2
    <3>. QED  BY <3>1
  <2>4. g = [i \in 0..(n + 1) |-> IF i = 0 THEN <<>> ELSE g[i - 1] \o add(i)]
    <3>. SUFFICES ASSUME NEW i \in 0..(n + 1)
                  PROVE  g[i] = IF i = 0 THEN <<>> ELSE g[i - 1] \o add(i)
      OBVIOUS
    <3>1. i # 0 => i - 1 \in 0..n
      OBVIOUS
    <3>. QED  BY <2>3, <3>1
  <2>. HIDE DEF g
  <2>5. Rest(g, list, model, n + 1)
    BY <2>4 DEF Rest, add
  <2>. QED  BY <2>5
<1>3. T = Nat
  <2>. HIDE DEF T
  <2>1. T \in SUBSET Nat
    BY DEF T
  <2>. QED  BY <1>1, <1>2, <2>1, Induction
<1>. QED  BY <1>3

\* w holds the first n entries but those of the model, in their order.
Filtered(w, list, model, n) ==
  /\ w \in Seq(Models) /\ Len(w) <= n
  /\ \A a \in DOMAIN w : w[a] # model
  /\ \A i \in 1..n : list[i] # model => \E a \in DOMAIN w : w[a] = list[i]
  /\ \A a \in DOMAIN w : \E i \in 1..n : w[a] = list[i]
  /\ \A a, b \in DOMAIN w :
       a < b => \E i, j \in 1..n : i < j /\ w[a] = list[i] /\ w[b] = list[j]

\* One entry more.
LEMMA FilteredMore ==
  ASSUME NEW list \in Seq(Models), NEW model, NEW n \in Nat, n + 1 <= Len(list),
         NEW w, Filtered(w, list, model, n)
  PROVE  Filtered(w \o (IF list[n + 1] = model THEN <<>> ELSE <<list[n + 1]>>),
                  list, model, n + 1)
<1>1. w \in Seq(Models) /\ Len(w) \in Nat /\ DOMAIN w = 1..Len(w)
  BY DEF Filtered
<1>2. list[n + 1] \in Models
  BY ElementOfSeq
<1>3. \A i \in 1..(n + 1) : i \in 1..n \/ i = n + 1
  OBVIOUS
<1>4. \A i \in 1..n : i \in 1..(n + 1) /\ i < n + 1
  OBVIOUS
<1>5. CASE list[n + 1] = model
  <2>1. w \o <<>> = w
    BY <1>1
  <2>2. \A i \in 1..(n + 1) : list[i] # model => \E a \in DOMAIN w : w[a] = list[i]
    BY <1>3, <1>5 DEF Filtered
  <2>3. \A a \in DOMAIN w : \E i \in 1..(n + 1) : w[a] = list[i]
    BY <1>4 DEF Filtered
  <2>4. ASSUME NEW a \in DOMAIN w, NEW b \in DOMAIN w, a < b
        PROVE  \E i, j \in 1..(n + 1) : i < j /\ w[a] = list[i] /\ w[b] = list[j]
    <3>1. PICK i, j \in 1..n : i < j /\ w[a] = list[i] /\ w[b] = list[j]
      BY <2>4 DEF Filtered
    <3>. QED  BY <1>4, <3>1
  <2>5. w \in Seq(Models) /\ Len(w) <= n + 1
    BY <1>1 DEF Filtered
  <2>6. Filtered(w, list, model, n + 1)
    BY <2>2, <2>3, <2>4, <2>5, <1>5 DEF Filtered
  <2>. QED  BY <1>5, <2>1, <2>6
<1>6. CASE list[n + 1] # model
  <2>. DEFINE x == list[n + 1]
              v == w \o <<x>>
  <2>1. /\ v \in Seq(Models) /\ DOMAIN v = 1..(Len(w) + 1)
        /\ v[Len(w) + 1] = x /\ \A a \in DOMAIN w : v[a] = w[a]
    BY <1>1, <1>2
  <2>2. /\ \A a \in DOMAIN v : a \in DOMAIN w \/ a = Len(w) + 1
        /\ \A a \in DOMAIN w : a \in DOMAIN v /\ a < Len(w) + 1
        /\ Len(w) + 1 \in DOMAIN v /\ n + 1 \in 1..(n + 1)
    BY <1>1, <2>1
  <2>. HIDE DEF v, x
  <2>3. \A a \in DOMAIN v : v[a] # model
    BY <1>6, <2>1, <2>2 DEF Filtered, x
  <2>4. \A i \in 1..(n + 1) : list[i] # model => \E a \in DOMAIN v : v[a] = list[i]
    BY <1>3, <2>1, <2>2 DEF Filtered, x
  <2>5. ASSUME NEW a \in DOMAIN v PROVE \E i \in 1..(n + 1) : v[a] = list[i]
    <3>1. CASE a \in DOMAIN w
      <4>1. PICK i \in 1..n : w[a] = list[i]
        BY <3>1 DEF Filtered
      <4>. QED  BY <1>4, <2>1, <3>1, <4>1
    <3>2. CASE a = Len(w) + 1
      BY <2>1, <2>2, <3>2 DEF x
    <3>. QED  BY <2>2, <3>1, <3>2
  <2>6. ASSUME NEW a \in DOMAIN v, NEW b \in DOMAIN v, a < b
        PROVE  \E i, j \in 1..(n + 1) : i < j /\ v[a] = list[i] /\ v[b] = list[j]
    <3>1. a \in DOMAIN w
      BY <1>1, <2>2, <2>6
    <3>2. CASE b \in DOMAIN w
      <4>1. PICK i, j \in 1..n : i < j /\ w[a] = list[i] /\ w[b] = list[j]
        BY <2>6, <3>1, <3>2 DEF Filtered
      <4>. QED  BY <1>4, <2>1, <3>1, <3>2, <4>1
    <3>3. CASE b = Len(w) + 1
      <4>1. PICK i \in 1..n : w[a] = list[i]
        BY <3>1 DEF Filtered
      <4>. QED  BY <1>4, <2>1, <2>2, <3>1, <3>3, <4>1 DEF x
    <3>. QED  BY <2>2, <3>2, <3>3
  <2>7. Len(v) <= n + 1
    BY <1>1, <2>1 DEF Filtered
  <2>8. Filtered(v, list, model, n + 1)
    BY <2>1, <2>3, <2>4, <2>5, <2>6, <2>7 DEF Filtered
  <2>. QED  BY <1>6, <2>8 DEF v, x
<1>. QED  BY <1>5, <1>6

LEMMA WithoutIs ==
  ASSUME NEW list \in Seq(Models), NEW model
  PROVE  Filtered(Without(list, model), list, model, Len(list))
<1>. DEFINE K == Kept(list, model)
            T == {n \in Nat : n <= Len(list) => Filtered(K[n], list, model, n)}
<1>1. Len(list) \in Nat
  BY LenProperties
<1>2. Rest(K, list, model, Len(list))
  BY <1>1, RestExists DEF Kept
<1>3. Without(list, model) = K[Len(list)]
  BY DEF Without, Kept, Rest
<1>. HIDE DEF K
<1>4. /\ K[0] = <<>>
      /\ \A i \in 1..Len(list) :
           K[i] = K[i - 1] \o (IF list[i] = model THEN <<>> ELSE <<list[i]>>)
  BY <1>1, <1>2 DEF Rest
<1>5. 0 \in T
  <2>1. <<>> \in Seq(Models) /\ DOMAIN <<>> = {}
    OBVIOUS
  <2>2. Filtered(<<>>, list, model, 0)
    BY <2>1 DEF Filtered
  <2>. QED  BY <1>4, <2>2
<1>6. ASSUME NEW n \in T PROVE n + 1 \in T
  <2>. SUFFICES ASSUME n + 1 <= Len(list) PROVE Filtered(K[n + 1], list, model, n + 1)
    OBVIOUS
  <2>1. Filtered(K[n], list, model, n) /\ n \in Nat
    BY <1>1, <1>6
  <2>2. K[n + 1] = K[n] \o (IF list[n + 1] = model THEN <<>> ELSE <<list[n + 1]>>)
    <3>1. n + 1 \in 1..Len(list) /\ (n + 1) - 1 = n
      BY <1>1, <2>1
    <3>. QED  BY <1>4, <3>1
  <2>. QED  BY <2>1, <2>2, FilteredMore
<1>7. T = Nat
  <2>. HIDE DEF T
  <2>1. T \in SUBSET Nat
    BY DEF T
  <2>. QED  BY <1>5, <1>6, <2>1, Induction
<1>. QED  BY <1>1, <1>3, <1>7

\* The list holds what was chosen, the newest first.
Listing(list, choices) ==
  /\ list \in Seq(Models) /\ choices \in Seq(Models)
  /\ ToSet(list) = ToSet(choices) /\ IsInjective(list)
  /\ \A i, j \in DOMAIN list : i < j => ChosenAfter(list[i], list[j], choices)

\* A choice moves its model to the front.
LEMMA ListingMore ==
  ASSUME NEW list, NEW choices, Listing(list, choices), NEW model \in Models
  PROVE  Listing(<<model>> \o Without(list, model), Append(choices, model))
<1>. DEFINE w == Without(list, model)
            l == <<model>> \o w
            c == Append(choices, model)
<1>1. /\ list \in Seq(Models) /\ choices \in Seq(Models)
      /\ Len(list) \in Nat /\ DOMAIN list = 1..Len(list)
      /\ Len(choices) \in Nat /\ DOMAIN choices = 1..Len(choices)
  BY DEF Listing
<1>2. Filtered(w, list, model, Len(list))
  BY <1>1, WithoutIs
<1>3. w \in Seq(Models) /\ Len(w) \in Nat /\ DOMAIN w = 1..Len(w)
  BY <1>2 DEF Filtered
<1>. HIDE DEF w
<1>4. /\ l \in Seq(Models) /\ DOMAIN l = 1..(Len(w) + 1) /\ l[1] = model
      /\ \A a \in DOMAIN w : l[a + 1] = w[a]
  BY <1>3
<1>5. /\ c \in Seq(Models) /\ DOMAIN c = 1..(Len(choices) + 1) /\ Len(c) = Len(choices) + 1
      /\ c[Len(choices) + 1] = model /\ \A p \in DOMAIN choices : c[p] = choices[p]
  BY <1>1
<1>. HIDE DEF l, c
<1>6. /\ \A a \in DOMAIN l : a = 1 \/ (a - 1 \in DOMAIN w /\ l[a] = w[a - 1])
      /\ \A a \in DOMAIN w : a + 1 \in DOMAIN l
      /\ 1 \in DOMAIN l
  <2>1. \A a \in DOMAIN l : a = 1 \/ (a - 1 \in DOMAIN w /\ (a - 1) + 1 = a)
    BY <1>3, <1>4
  <2>. QED  BY <1>3, <1>4, <2>1
<1>7. /\ \A p \in DOMAIN c : p \in DOMAIN choices \/ p = Len(c)
      /\ Len(c) \in DOMAIN c /\ DOMAIN choices \subseteq DOMAIN c
      /\ c[Len(c)] = model
  BY <1>1, <1>5
<1>8. ToSet(l) = ToSet(c)
  <2>1. ASSUME NEW x \in ToSet(l) PROVE x \in ToSet(c)
    <3>1. PICK a \in DOMAIN l : x = l[a]
      BY <2>1 DEF ToSet
    <3>2. CASE a = 1
      BY <1>4, <1>7, <3>1, <3>2 DEF ToSet
    <3>3. CASE a - 1 \in DOMAIN w /\ l[a] = w[a - 1]
      <4>1. PICK i \in DOMAIN list : x = list[i]
        <5>1. PICK i \in 1..Len(list) : w[a - 1] = list[i]
          BY <1>2, <3>3 DEF Filtered
        <5>. QED  BY <1>1, <3>1, <3>3, <5>1
      <4>2. x \in ToSet(choices)
        BY <4>1 DEF Listing, ToSet
      <4>. QED  BY <1>5, <1>7, <4>2 DEF ToSet
    <3>. QED  BY <1>6, <3>2, <3>3
  <2>2. ASSUME NEW x \in ToSet(c) PROVE x \in ToSet(l)
    <3>1. CASE x = model
      BY <1>4, <1>6, <3>1 DEF ToSet
    <3>2. CASE x # model
      <4>1. x \in ToSet(choices)
        BY <1>5, <1>7, <2>2, <3>2 DEF ToSet
      <4>2. PICK i \in DOMAIN list : x = list[i]
        BY <4>1 DEF Listing, ToSet
      <4>3. PICK a \in DOMAIN w : w[a] = x
        BY <1>1, <1>2, <3>2, <4>2 DEF Filtered
      <4>. QED  BY <1>4, <1>6, <4>3 DEF ToSet
    <3>. QED  BY <3>1, <3>2
  <2>. QED  BY <2>1, <2>2
<1>9. ASSUME NEW a \in DOMAIN l, NEW b \in DOMAIN l, a < b
      PROVE  l[a] # l[b] /\ ChosenAfter(l[a], l[b], c)
  <2>1. b - 1 \in DOMAIN w /\ l[b] = w[b - 1]
    BY <1>4, <1>6, <1>9
  <2>2. l[b] # model
    BY <1>2, <2>1 DEF Filtered
  <2>3. CASE a = 1
    <3>1. l[a] = model /\ \A q \in Len(c)..Len(c) : c[q] # l[b]
      BY <1>4, <1>5, <1>7, <2>2, <2>3
    <3>. QED  BY <1>7, <2>2, <3>1 DEF ChosenAfter
  <2>4. CASE a - 1 \in DOMAIN w /\ l[a] = w[a - 1]
    <3>1. a - 1 < b - 1
      BY <1>3, <1>4, <1>9
    <3>2. PICK i, j \in 1..Len(list) : i < j /\ l[a] = list[i] /\ l[b] = list[j]
      BY <1>2, <2>1, <2>4, <3>1 DEF Filtered
    <3>3. l[a] # l[b]
      BY <1>1, <3>2 DEF Listing, IsInjective
    <3>4. ChosenAfter(l[a], l[b], choices)
      BY <1>1, <3>2 DEF Listing
    <3>5. PICK p \in DOMAIN choices :
            choices[p] = l[a] /\ \A q \in p..Len(choices) : choices[q] # l[b]
      BY <3>4 DEF ChosenAfter
    <3>6. ASSUME NEW q \in p..Len(c) PROVE c[q] # l[b]
      <4>1. (q \in p..Len(choices) /\ q \in DOMAIN choices) \/ q = Len(c)
        BY <1>1, <1>5
      <4>. QED  BY <1>5, <1>7, <2>2, <3>5, <4>1
    <3>7. p \in DOMAIN c /\ c[p] = l[a]
      BY <1>5, <1>7, <3>5
    <3>. QED  BY <3>3, <3>6, <3>7 DEF ChosenAfter
  <2>. QED  BY <1>6, <2>3, <2>4
<1>10. IsInjective(l)
  <2>1. \A a, b \in DOMAIN l : a < b \/ b < a \/ a = b
    BY <1>3, <1>4
  <2>. QED  BY <1>9, <2>1 DEF IsInjective
<1>11. Listing(l, c)
  BY <1>4, <1>5, <1>8, <1>9, <1>10 DEF Listing
<1>. QED  BY <1>11 DEF l, c, w

\* Where no choices overlapped, the list is that of the choices, and a session that
\* saves it has put its own choice in front.
Remembering ==
  "models" \notin overlap =>
    /\ Listing(RecentModels, chosen)
    /\ \A s \in Sessions :
         saving[s].file = "models" =>
           \E m \in Models : saving[s].contents = <<m>> \o Without(RecentModels, m)

LEMMA NothingListed == Init => Remembering
<1>. SUFFICES ASSUME Init PROVE Remembering
  OBVIOUS
<1>1. RecentModels = <<>> /\ chosen = <<>>
  BY DEF Init, RecentModels, Missing, File
<1>2. Listing(<<>>, <<>>)
  <2>1. <<>> \in Seq(Models) /\ DOMAIN <<>> = {}
    OBVIOUS
  <2>. QED  BY <2>1 DEF Listing, IsInjective
<1>3. \A s \in Sessions : saving[s].file # "models"
  BY IdleFields DEF Init
<1>. QED  BY <1>1, <1>2, <1>3 DEF Remembering

\* A step that leaves the list on disk alone, and in which no choice begins.
LEMMA ListUntouched ==
  ASSUME Remembering, overlap \subseteq overlap', chosen' = chosen,
         "models" \notin overlap => path'["models"] = path["models"],
         \A s \in Sessions : saving'[s].file = "models" =>
           saving[s].file = "models" /\ saving'[s].contents = saving[s].contents
  PROVE  Remembering'
<1>1. "models" \notin overlap => RecentModels' = RecentModels
  BY DEF RecentModels
<1>. QED  BY <1>1 DEF Remembering

\* The end of a save: the list on disk has the choice in front.
LEMMA ReplaceRemembers ==
  ASSUME IInv, Remembering, NEW s \in Sessions, Replace(s)
  PROVE  Remembering'
<1>. DEFINE f == saving[s].file
<1>1. /\ UNCHANGED overlap /\ saving[s].step = "replace"
      /\ saving'[s] = Idle /\ Idle.file = "none"
      /\ \A t \in Sessions : t # s => saving'[t] = saving[t]
  BY IdleFields DEF Replace, IInv, Shapes
<1>2. f \in Files
  BY <1>1, IdleFields DEF IInv, Savings
<1>3. CASE "models" \in overlap
  BY <1>1, <1>3 DEF Remembering
<1>4. CASE "models" \notin overlap /\ f # "models"
  <2>1. chosen' = chosen
    BY <1>4 DEF Replace
  <2>2. path'["models"] = path["models"]
    BY <1>2, <1>4 DEF Replace, IInv, Shapes
  <2>. QED  BY <1>1, <2>1, <2>2, ListUntouched
<1>5. CASE "models" \notin overlap /\ f = "models"
  <2>1. tmp[f].state = "whole" /\ tmp[f].contents = saving[s].contents
    BY <1>1, <1>5 DEF IInv, Alone
  <2>2. tmp[f] # Missing
    BY <2>1 DEF Missing, File
  <2>3. path'["models"] = tmp["models"] /\ chosen' = Append(chosen, Head(saving[s].contents))
    BY <1>5, <2>2 DEF Replace, IInv, Shapes
  <2>4. RecentModels' = saving[s].contents
    BY <1>5, <2>1, <2>3 DEF RecentModels
  <2>5. PICK m \in Models : saving[s].contents = <<m>> \o Without(RecentModels, m)
    BY <1>5 DEF Remembering
  <2>6. Listing(RecentModels, chosen)
    BY <1>5 DEF Remembering
  <2>7. Without(RecentModels, m) \in Seq(Models)
    BY <2>6, WithoutIs DEF Listing, Filtered
  <2>8. Head(saving[s].contents) = m
    BY <2>5, <2>7
  <2>9. Listing(RecentModels', chosen')
    BY <2>3, <2>4, <2>5, <2>6, <2>8, ListingMore
  <2>10. \A t \in Sessions : saving'[t].file # "models"
    BY <1>1, <1>5 DEF IInv, Alone
  <2>. QED  BY <2>9, <2>10 DEF Remembering
<1>. QED  BY <1>3, <1>4, <1>5

\* The begin of a save: a choice puts its model before what was read.
LEMMA BeginRemembers ==
  ASSUME IInv, Remembering, NEW s \in Sessions, NEW f \in Files, NEW contents,
         Begin(s, f, contents), f = "config" => contents \in Settings,
         f = "models" => \E m \in Models : contents = <<m>> \o Without(RecentModels, m)
  PROVE  Remembering'
<1>1. /\ UNCHANGED <<path, chosen>> /\ overlap \subseteq overlap'
      /\ saving'[s] = [file |-> f, contents |-> contents, step |-> "open"]
      /\ \A t \in Sessions : t # s => saving'[t] = saving[t]
  BY DEF Begin, IInv, Shapes
<1>2. RecentModels' = RecentModels
  BY <1>1 DEF RecentModels
<1>. SUFFICES ASSUME "models" \notin overlap'
              PROVE  /\ Listing(RecentModels, chosen)
                     /\ \A t \in Sessions :
                          saving'[t].file = "models" =>
                            \E m \in Models :
                              saving'[t].contents = <<m>> \o Without(RecentModels, m)
  BY <1>1, <1>2 DEF Remembering
<1>3. Listing(RecentModels, chosen)
  BY <1>1 DEF Remembering
<1>4. ASSUME NEW t \in Sessions, saving'[t].file = "models"
      PROVE  \E m \in Models : saving'[t].contents = <<m>> \o Without(RecentModels, m)
  <2>1. CASE t = s
    <3>1. saving'[t].contents = contents /\ f = "models"
      BY <1>1, <1>4, <2>1
    <3>2. PICK m \in Models : contents = <<m>> \o Without(RecentModels, m)
      BY <3>1
    <3>. QED  BY <3>1, <3>2
  <2>2. CASE t # s
    BY <1>1, <1>4, <2>2 DEF Remembering
  <2>. QED  BY <2>1, <2>2
<1>. QED  BY <1>3, <1>4

LEMMA StepRemembers == IInv /\ Remembering /\ [Next]_vars => Remembering'
<1>. SUFFICES ASSUME IInv, Remembering, [Next]_vars PROVE Remembering'
  OBVIOUS
<1>1. ASSUME NEW s \in Sessions, Start(s) \/ Reload(s) PROVE Remembering'
  <2>1. UNCHANGED <<saving, path, overlap, chosen>>
    BY <1>1 DEF Start, Reload
  <2>. QED  BY <2>1, ListUntouched
<1>2. ASSUME NEW s \in Sessions, Crash(s) PROVE Remembering'
  <2>1. /\ UNCHANGED <<path, overlap, chosen>> /\ saving'[s].file = "none"
        /\ \A t \in Sessions : t # s => saving'[t] = saving[t]
    BY <1>2, IdleFields DEF Crash, IInv, Shapes
  <2>. QED  BY <2>1, ListUntouched
<1>3. ASSUME NEW s \in Sessions, NEW k \in Keys, NEW v \in Values, Set(s, k, v)
      PROVE  Remembering'
  <2>1. Begin(s, "config", data'[s]) /\ data'[s] \in Settings
    BY <1>3 DEF Set, IInv, Shapes, Settings
  <2>. QED  BY <2>1, BeginRemembers
<1>4. ASSUME NEW s \in Sessions, NEW m \in Models, Choose(s, m) PROVE Remembering'
  BY <1>4, BeginRemembers DEF Choose
<1>5. ASSUME NEW s \in Sessions, Open(s) PROVE Remembering'
  <2>1. /\ UNCHANGED <<path, overlap, chosen>>
        /\ saving[s].step = "open" /\ Step(s, "write")
    BY <1>5 DEF Open
  <2>. QED  BY <2>1, StepFacts, ListUntouched
<1>6. ASSUME NEW s \in Sessions, WritePart(s) \/ Write(s) PROVE Remembering'
  <2>1. /\ UNCHANGED <<overlap, chosen>> /\ saving[s].step = "write"
        /\ \E state \in {"torn", "whole"} : Put(s, state)
        /\ Step(s, "replace") \/ saving' = saving
    BY <1>6 DEF WritePart, Write
  <2>2. saving[s].file \in Files
    BY <2>1, IdleFields DEF IInv, Savings
  <2>3. "models" \notin overlap => path'["models"] = path["models"]
    BY <2>1, <2>2, PutFacts
  <2>4. \A t \in Sessions : saving'[t].file = saving[t].file
                            /\ saving'[t].contents = saving[t].contents
    BY <2>1, StepFacts
  <2>. QED  BY <2>1, <2>3, <2>4, ListUntouched
<1>7. ASSUME NEW s \in Sessions, Replace(s) PROVE Remembering'
  BY <1>7, ReplaceRemembers
<1>8. CASE UNCHANGED vars
  BY <1>8, ListUntouched DEF vars
<1>. QED  BY <1>1, <1>2, <1>3, <1>4, <1>5, <1>6, <1>7, <1>8 DEF Next

\* Whichever sessions choose and are killed, the list on disk holds every model chosen,
\* once, the newest first, as long as no two choices overlapped.
THEOREM AllRemembered == Spec => []NothingForgotten
<1>1. Remembering => NothingForgotten
  BY DEF Remembering, Listing, NothingForgotten
<1>. QED  BY <1>1, NothingListed, StepRemembers, Invariance, PTL DEF Spec
-----------------------------------------------------------------------------
(* Types.  A list of models is no longer than the saves begun.             *)

\* A list that n saves can have made.
ListUpTo(list, n) == list \in Seq(Models) /\ Len(list) <= n

\* The sessions that save the list.
Choosers == {s \in Sessions : saving[s].file = "models"}

\* Each save begun is under way, or has added a choice, or was given up.
Counted ==
  /\ saves \in 0..MaxSaves /\ chosen \in Seq(Models)
  /\ IsFiniteSet(Choosers) /\ Len(chosen) + Cardinality(Choosers) <= saves

\* What a file may hold after n saves.
Stored(f, file, n) ==
  /\ file = File(file.state, file.contents, file.by)
  /\ file.state \in {"missing", "empty", "torn", "whole"} /\ file.by \subseteq Sessions
  /\ f = "config" => file.contents = <<>> \/ file.contents \in Settings
  /\ f = "models" => ListUpTo(file.contents, n)

\* A session that saves the list has put its choice in front.
Listed ==
  /\ \A f \in Files : Stored(f, path[f], saves) /\ Stored(f, tmp[f], saves)
  /\ \A s \in Choosers : ListUpTo(saving[s].contents, saves) /\ saving[s].contents # <<>>

Others ==
  /\ own \in [Sessions -> Models \union {NoModel}]
  /\ at \in [Sessions -> {"tmp", "path", "gone"}]
  /\ failed \in SUBSET Sessions /\ overlap \in SUBSET Files /\ stale \in SUBSET Sessions

Typed == Counted /\ Listed /\ Others

\* Lists are the sequences of bounded length.
LEMMA ListsAre == \A n \in Nat : \A list : list \in Lists(n) <=> ListUpTo(list, n)
<1>. SUFFICES ASSUME NEW n \in Nat, NEW list PROVE list \in Lists(n) <=> ListUpTo(list, n)
  OBVIOUS
<1>1. ASSUME list \in Lists(n) PROVE ListUpTo(list, n)
  <2>1. PICK m \in 0..n : list \in [1..m -> Models]
    BY <1>1 DEF Lists
  <2>. QED  BY <2>1 DEF ListUpTo
<1>2. ASSUME ListUpTo(list, n) PROVE list \in Lists(n)
  <2>1. Len(list) \in 0..n /\ list \in [1..Len(list) -> Models]
    BY <1>2, LenProperties DEF ListUpTo
  <2>. QED  BY <2>1 DEF Lists
<1>. QED  BY <1>1, <1>2

\* What is typed has its type.
LEMMA TypedIsTypeOK == IInv /\ Typed => TypeOK
<1>. SUFFICES ASSUME IInv, Typed PROVE TypeOK
  OBVIOUS
<1>. DEFINE FileType(f) == [state: {"missing", "empty", "torn", "whole"},
                            contents: Contents(f), by: SUBSET Sessions]
<1>1. saves \in Nat /\ saves <= MaxSaves /\ MaxSaves \in Nat
  BY ConfigStoreAssumption DEF Typed, Counted
<1>2. \A list : ListUpTo(list, saves) => list \in Lists(saves)
  BY <1>1, ListsAre
<1>3. \A f \in Files : \A file : Stored(f, file, saves) => file \in FileType(f)
  <2>. SUFFICES ASSUME NEW f \in Files, NEW file, Stored(f, file, saves) PROVE file \in FileType(f)
    OBVIOUS
  <2>1. file.contents \in Contents(f)
    BY <1>2 DEF Stored, Contents, Files
  <2>. QED  BY <2>1 DEF Stored, File
<1>4. \A f \in Files : path[f] \in FileType(f) /\ tmp[f] \in FileType(f)
  <2>. HIDE DEF FileType
  <2>. QED  BY <1>3 DEF Typed, Listed
<1>5. chosen \in Lists(saves)
  <2>1. Cardinality(Choosers) \in Nat /\ Len(chosen) \in Nat
    BY FS_CardinalityType, LenProperties DEF Typed, Counted
  <2>. QED  BY <1>1, <1>2, <2>1 DEF Typed, Counted, ListUpTo
<1>6. ASSUME NEW s \in Sessions
      PROVE  \/ saving[s] = Idle
             \/ /\ s \in live /\ saving[s].step \in {"open", "write", "replace"}
                /\ \/ saving[s].file = "config" /\ saving[s].contents \in Settings
                   \/ saving[s].file = "models" /\ saving[s].contents \in Lists(saves)
  BY <1>2 DEF IInv, Savings, Typed, Listed, Choosers
<1>7. DOMAIN path = Files /\ DOMAIN tmp = Files
  BY DEF IInv, Shapes
<1>. QED
  BY <1>4, <1>5, <1>6, <1>7 DEF TypeOK, IInv, Shapes, Typed, Counted, Others

LEMMA TypedAtFirst == Init => Typed
<1>. SUFFICES ASSUME Init PROVE Typed
  OBVIOUS
<1>1. Choosers = {}
  BY IdleFields DEF Init, Choosers
<1>2. IsFiniteSet({}) /\ Cardinality({}) = 0
  BY FS_EmptySet
<1>3. Counted
  BY <1>1, <1>2, ConfigStoreAssumption DEF Init, Counted
<1>4. Listed
  <2>1. \A f \in Files : Stored(f, Missing, 0)
    BY DEF Stored, Missing, File, ListUpTo
  <2>. QED  BY <1>1, <2>1 DEF Init, Listed
<1>. QED  BY <1>3, <1>4 DEF Init, Typed, Others

\* A list that is read is one that was saved.
LEMMA RecentIsListed ==
  ASSUME Typed
  PROVE  ListUpTo(RecentModels, saves) /\ Latest \in Models \union {NoModel}
<1>1. saves \in Nat
  BY DEF Typed, Counted
<1>2. ListUpTo(<<>>, saves)
  BY <1>1 DEF ListUpTo
<1>3. ListUpTo(RecentModels, saves)
  BY <1>2 DEF Typed, Listed, Stored, RecentModels
<1>. QED  BY <1>3 DEF ListUpTo, Latest

\* A list may be longer when more saves have begun.
LEMMA StoredLater ==
  ASSUME NEW f \in Files, NEW file, NEW m \in Nat, NEW n \in Nat, m <= n, Stored(f, file, m)
  PROVE  Stored(f, file, n)
BY LenProperties DEF Stored, ListUpTo

\* The begin of a save: it is counted.
LEMMA BeginTyped ==
  ASSUME IInv, Typed, NEW s \in Sessions, NEW f \in Files, NEW contents,
         Begin(s, f, contents), own' \in [Sessions -> Models \union {NoModel}],
         f = "models" => ListUpTo(contents, saves + 1) /\ contents # <<>>
  PROVE  Typed'
<1>1. /\ UNCHANGED <<live, at, path, tmp, failed, stale, chosen>>
      /\ saving[s] = Idle /\ saves < MaxSaves /\ saves' = saves + 1
      /\ saving'[s] = [file |-> f, contents |-> contents, step |-> "open"]
      /\ \A t \in Sessions : t # s => saving'[t] = saving[t]
      /\ overlap' \subseteq Files
  BY DEF Begin, IInv, Shapes, Typed, Others
<1>2. saves \in Nat /\ saves' \in 0..MaxSaves /\ saves <= saves' /\ saves' \in Nat
  BY <1>1, ConfigStoreAssumption DEF Typed, Counted
<1>3. s \notin Choosers
  BY <1>1, IdleFields DEF Choosers
<1>4. Choosers' = (IF f = "models" THEN Choosers \union {s} ELSE Choosers)
  BY <1>1, <1>3 DEF Choosers
<1>5. Counted'
  <2>1. /\ IsFiniteSet(Choosers') /\ Cardinality(Choosers') \in Nat
        /\ Cardinality(Choosers') <= Cardinality(Choosers) + 1
    <3>1. IsFiniteSet(Choosers) /\ Cardinality(Choosers) \in Nat
      BY FS_CardinalityType DEF Typed, Counted
    <3>2. /\ IsFiniteSet(Choosers \union {s})
          /\ Cardinality(Choosers \union {s}) = Cardinality(Choosers) + 1
      BY <1>3, <3>1, FS_AddElement
    <3>. QED  BY <1>4, <3>1, <3>2
  <2>2. Cardinality(Choosers) \in Nat /\ Len(chosen) \in Nat
    BY FS_CardinalityType, LenProperties DEF Typed, Counted
  <2>. QED  BY <1>1, <1>2, <2>1, <2>2 DEF Typed, Counted
<1>6. Listed'
  <2>1. \A g \in Files : Stored(g, path'[g], saves') /\ Stored(g, tmp'[g], saves')
    BY <1>1, <1>2, StoredLater DEF Typed, Listed
  <2>2. ASSUME NEW t \in Choosers'
        PROVE  ListUpTo(saving'[t].contents, saves') /\ saving'[t].contents # <<>>
    <3>1. CASE t = s
      BY <1>1, <1>3, <1>4, <2>2, <3>1
    <3>2. CASE t # s
      <4>1. t \in Choosers /\ t \in Sessions
        BY <1>4, <2>2, <3>2 DEF Choosers
      <4>. QED  BY <1>1, <1>2, <3>2, <4>1, LenProperties DEF Typed, Listed, ListUpTo
    <3>. QED  BY <3>1, <3>2
  <2>. QED  BY <2>1, <2>2 DEF Listed
<1>7. Others'
  BY <1>1 DEF Typed, Others
<1>. QED  BY <1>5, <1>6, <1>7 DEF Typed

\* A step that begins no save and ends none.
LEMMA GoOnTyped ==
  ASSUME Typed, UNCHANGED <<chosen, saves>>, Others',
         \A s \in Sessions : saving'[s].file = saving[s].file
                             /\ saving'[s].contents = saving[s].contents,
         \A f \in Files : Stored(f, path'[f], saves) /\ Stored(f, tmp'[f], saves)
  PROVE  Typed'
<1>1. Choosers' = Choosers /\ Choosers \subseteq Sessions
  BY DEF Choosers
<1>. QED  BY <1>1 DEF Typed, Counted, Listed

\* What a session writes may be in its file.
LEMMA PutTyped ==
  ASSUME IInv, Typed, NEW s \in Sessions, NEW state \in {"torn", "whole"}, Put(s, state),
         saving[s].step = "write"
  PROVE  \A f \in Files : Stored(f, path'[f], saves) /\ Stored(f, tmp'[f], saves)
<1>. DEFINE f == saving[s].file
            Now(file) == File(state, IF state = "whole" THEN saving[s].contents ELSE <<>>,
                              file.by \union {s})
<1>1. /\ path' = IF at[s] = "path" THEN [path EXCEPT ![f] = Now(path[f])] ELSE path
      /\ tmp'  = IF at[s] = "tmp"  THEN [tmp  EXCEPT ![f] = Now(tmp[f])] ELSE tmp
  BY DEF Put, IInv, Shapes
<1>2. f \in Files /\ (f = "config" => saving[s].contents \in Settings) /\ saves \in Nat
  <2>1. saving[s] # Idle
    BY IdleFields
  <2>2. f \in Files /\ (f = "config" => saving[s].contents \in Settings)
    BY <2>1 DEF IInv, Savings
  <2>3. saves \in Nat
    BY ConfigStoreAssumption DEF Typed, Counted
  <2>. QED  BY <2>2, <2>3
<1>3. f = "models" => ListUpTo(saving[s].contents, saves)
  BY DEF Typed, Listed, Choosers
<1>4. ASSUME NEW file, Stored(f, file, saves) PROVE Stored(f, Now(file), saves)
  <2>1. file.by \union {s} \subseteq Sessions
    BY <1>4 DEF Stored
  <2>2. ListUpTo(<<>>, saves)
    BY <1>2 DEF ListUpTo
  <2>. QED  BY <1>2, <1>3, <2>1, <2>2 DEF Stored, File
<1>. HIDE DEF Now
<1>5. ASSUME NEW g \in Files PROVE Stored(g, path'[g], saves) /\ Stored(g, tmp'[g], saves)
  <2>1. /\ path'[g] = path[g] \/ (g = f /\ path'[g] = Now(path[g]))
        /\ tmp'[g] = tmp[g] \/ (g = f /\ tmp'[g] = Now(tmp[g]))
    BY <1>1 DEF IInv, Shapes
  <2>. QED  BY <1>4, <2>1 DEF Typed, Listed
<1>. QED  BY <1>5

\* The end of a save, or of the session that was at it.
LEMMA EndTyped ==
  ASSUME IInv, Typed, NEW s \in Sessions, saves' = saves, Others', saving'[s] = Idle,
         \A t \in Sessions : t # s => saving'[t] = saving[t],
         \/ chosen' = chosen
         \/ /\ s \in Choosers /\ chosen' = Append(chosen, Head(saving[s].contents)),
         \A f \in Files : Stored(f, path'[f], saves) /\ Stored(f, tmp'[f], saves)
  PROVE  Typed'
<1>1. Choosers' = Choosers \ {s}
  BY IdleFields DEF Choosers
<1>2. /\ IsFiniteSet(Choosers \ {s}) /\ IsFiniteSet(Choosers)
      /\ Cardinality(Choosers \ {s}) =
           IF s \in Choosers THEN Cardinality(Choosers) - 1 ELSE Cardinality(Choosers)
  BY FS_RemoveElement DEF Typed, Counted
<1>3. /\ Cardinality(Choosers \ {s}) \in Nat /\ Cardinality(Choosers) \in Nat
      /\ chosen \in Seq(Models) /\ Len(chosen) \in Nat /\ saves \in Nat
  BY <1>2, FS_CardinalityType, LenProperties DEF Typed, Counted
<1>4. Counted'
  <2>1. CASE chosen' = chosen
    BY <1>1, <1>2, <1>3, <2>1 DEF Typed, Counted
  <2>2. CASE s \in Choosers /\ chosen' = Append(chosen, Head(saving[s].contents))
    <3>1. Head(saving[s].contents) \in Models
      BY <2>2 DEF Typed, Listed, ListUpTo
    <3>2. chosen' \in Seq(Models) /\ Len(chosen') = Len(chosen) + 1
      BY <1>3, <2>2, <3>1
    <3>. QED  BY <1>1, <1>2, <1>3, <2>2, <3>2 DEF Typed, Counted
  <2>. QED  BY <2>1, <2>2
<1>5. Listed'
  BY <1>1 DEF Typed, Listed, Choosers
<1>. QED  BY <1>4, <1>5 DEF Typed

LEMMA StepTyped == IInv /\ Typed /\ [Next]_vars => Typed'
<1>. SUFFICES ASSUME IInv, Typed, [Next]_vars PROVE Typed'
  OBVIOUS
<1>1. ASSUME NEW s \in Sessions, Start(s) \/ Reload(s) PROVE Typed'
  <2>1. UNCHANGED <<saving, at, path, tmp, overlap, chosen, saves>>
    BY <1>1 DEF Start, Reload
  <2>2. Others'
    BY <1>1, <2>1, RecentIsListed DEF Start, Reload, Typed, Others
  <2>. QED  BY <2>1, <2>2, GoOnTyped DEF Typed, Listed
<1>2. ASSUME NEW s \in Sessions, Crash(s) PROVE Typed'
  <2>1. /\ UNCHANGED <<own, at, path, tmp, failed, overlap, stale, chosen, saves>>
        /\ saving'[s] = Idle /\ \A t \in Sessions : t # s => saving'[t] = saving[t]
    BY <1>2 DEF Crash, IInv, Shapes
  <2>2. Others'
    BY <2>1 DEF Typed, Others
  <2>. QED  BY <2>1, <2>2, EndTyped DEF Typed, Listed
<1>3. ASSUME NEW s \in Sessions, NEW k \in Keys, NEW v \in Values, Set(s, k, v)
      PROVE  Typed'
  <2>1. Begin(s, "config", data'[s]) /\ own' = own
    BY <1>3 DEF Set
  <2>2. own' \in [Sessions -> Models \union {NoModel}]
    BY <2>1 DEF Typed, Others
  <2>. QED  BY <2>1, <2>2, BeginTyped
<1>4. ASSUME NEW s \in Sessions, NEW m \in Models, Choose(s, m) PROVE Typed'
  <2>. DEFINE w == Without(RecentModels, m)
  <2>1. Begin(s, "models", <<m>> \o w) /\ own' = [own EXCEPT ![s] = m]
    BY <1>4 DEF Choose
  <2>2. own' \in [Sessions -> Models \union {NoModel}]
    BY <2>1 DEF Typed, Others
  <2>3. ListUpTo(RecentModels, saves) /\ saves \in Nat
    BY RecentIsListed DEF Typed, Counted
  <2>4. w \in Seq(Models) /\ Len(w) \in Nat /\ Len(w) <= Len(RecentModels)
    BY <2>3, WithoutIs DEF ListUpTo, Filtered
  <2>. HIDE DEF w
  <2>5. ListUpTo(<<m>> \o w, saves + 1) /\ <<m>> \o w # <<>>
    <3>1. <<m>> \o w \in Seq(Models) /\ Len(<<m>> \o w) = Len(w) + 1
      BY <2>4
    <3>. QED  BY <2>3, <2>4, <3>1, LenProperties DEF ListUpTo
  <2>. QED  BY <2>1, <2>2, <2>5, BeginTyped
<1>5. ASSUME NEW s \in Sessions, Open(s) PROVE Typed'
  <2>1. /\ UNCHANGED <<own, path, failed, overlap, stale, chosen, saves>>
        /\ saving[s].step = "open" /\ Step(s, "write")
        /\ at' = [at EXCEPT ![s] = "tmp"] /\ tmp' = [tmp EXCEPT ![saving[s].file] = Empty]
    BY <1>5 DEF Open
  <2>2. \A t \in Sessions : saving'[t].file = saving[t].file
                            /\ saving'[t].contents = saving[t].contents
    BY <2>1, StepFacts
  <2>3. Others'
    BY <2>1 DEF Typed, Others
  <2>4. \A f \in Files : Stored(f, path'[f], saves) /\ Stored(f, tmp'[f], saves)
    <3>1. \A f \in Files : Stored(f, Empty, saves)
      BY DEF Stored, Empty, File, ListUpTo, Typed, Counted
    <3>2. \A f \in Files : tmp'[f] \in {tmp[f], Empty}
      BY <2>1 DEF IInv, Shapes
    <3>. QED  BY <2>1, <3>1, <3>2 DEF Typed, Listed
  <2>. QED  BY <2>1, <2>2, <2>3, <2>4, GoOnTyped
<1>6. ASSUME NEW s \in Sessions, WritePart(s) \/ Write(s) PROVE Typed'
  <2>1. /\ UNCHANGED <<own, at, failed, overlap, stale, chosen, saves>>
        /\ saving[s].step = "write" /\ \E state \in {"torn", "whole"} : Put(s, state)
        /\ Step(s, "replace") \/ saving' = saving
    BY <1>6 DEF WritePart, Write
  <2>2. \A t \in Sessions : saving'[t].file = saving[t].file
                            /\ saving'[t].contents = saving[t].contents
    BY <2>1, StepFacts
  <2>3. Others'
    BY <2>1 DEF Typed, Others
  <2>4. \A f \in Files : Stored(f, path'[f], saves) /\ Stored(f, tmp'[f], saves)
    BY <2>1, PutTyped
  <2>. QED  BY <2>1, <2>2, <2>3, <2>4, GoOnTyped
<1>7. ASSUME NEW s \in Sessions, Replace(s) PROVE Typed'
  <2>. DEFINE f == saving[s].file
  <2>1. /\ UNCHANGED <<own, overlap, saves>> /\ saving[s].step = "replace"
        /\ saving'[s] = Idle /\ \A t \in Sessions : t # s => saving'[t] = saving[t]
    BY <1>7 DEF Replace, IInv, Shapes
  <2>2. f \in Files /\ live \subseteq Sessions
    BY <2>1, IdleFields DEF IInv, Savings, Shapes
  <2>3. CASE tmp[f] = Missing
    <3>1. failed' = failed \union {s} /\ UNCHANGED <<at, path, tmp, stale, chosen>>
      BY <1>7, <2>3 DEF Replace
    <3>2. Others'
      BY <2>1, <3>1 DEF Typed, Others
    <3>. QED  BY <2>1, <3>1, <3>2, EndTyped DEF Typed, Listed
  <2>4. CASE tmp[f] # Missing
    <3>1. /\ path' = [path EXCEPT ![f] = tmp[f]] /\ tmp' = [tmp EXCEPT ![f] = Missing]
          /\ at' = [t \in Sessions |-> IF saving[t].file # f THEN at[t]
                                       ELSE IF at[t] = "tmp" THEN "path" ELSE "gone"]
          /\ stale' = IF f = "config" THEN stale \union (live \ {s}) ELSE stale
          /\ chosen' = IF f = "models" THEN Append(chosen, Head(saving[s].contents)) ELSE chosen
          /\ failed' = failed
      BY <1>7, <2>4 DEF Replace
    <3>2. Others'
      BY <2>1, <2>2, <3>1 DEF Typed, Others
    <3>3. \A g \in Files : Stored(g, path'[g], saves) /\ Stored(g, tmp'[g], saves)
      <4>1. \A g \in Files : Stored(g, Missing, saves)
        BY DEF Stored, Missing, File, ListUpTo, Typed, Counted
      <4>2. \A g \in Files : /\ path'[g] \in {path[g], tmp[g]}
                             /\ tmp'[g] \in {tmp[g], Missing}
        BY <2>2, <3>1 DEF IInv, Shapes
      <4>. QED  BY <4>1, <4>2 DEF Typed, Listed
    <3>4. chosen' = chosen \/ (s \in Choosers /\ chosen' = Append(chosen, Head(saving[s].contents)))
      BY <3>1 DEF Choosers
    <3>. QED  BY <2>1, <3>2, <3>3, <3>4, EndTyped
  <2>. QED  BY <2>3, <2>4
<1>8. CASE UNCHANGED vars
  <2>1. UNCHANGED <<own, saving, at, path, tmp, failed, overlap, stale, chosen, saves>>
    BY <1>8 DEF vars
  <2>2. Others'
    BY <2>1 DEF Typed, Others
  <2>. QED  BY <2>1, <2>2, GoOnTyped DEF Typed, Listed
<1>. QED  BY <1>1, <1>2, <1>3, <1>4, <1>5, <1>6, <1>7, <1>8 DEF Next

\* The variables keep their types, however sessions save and are killed: the file of
\* the settings holds settings, the other a list, and no list, in a file or on its
\* way there, is longer than saves were begun so far.
THEOREM TypeCorrect == Spec => []TypeOK
BY TypedAtFirst, StepTyped, TypedIsTypeOK, Invariance, PTL DEF Spec
==============================================================================

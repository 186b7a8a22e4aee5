------------------------------ MODULE Transcript ------------------------------
(***************************************************************************)
(* The transcript widget as operators on one record t.  It keeps the same  *)
(* text three times: the rows on screen, the log of the renderables they   *)
(* were made of (with the number of rows of each, by which a click finds   *)
(* its entry) and, for what can be expanded, the entry with its two views. *)
(* A line that the running command may still overwrite is held apart.      *)
(*                                                                         *)
(* A renderable is the view of a text; a row is one of those that a        *)
(* renderable fills at a width.                                            *)
(***************************************************************************)
EXTENDS Naturals, Sequences, SequencesExt

CONSTANTS
  Widths,       \* widths of the terminal
  Height(_, _)  \* rows that a renderable fills at a width

Text(what) == [view |-> "text", of |-> what]

Render(c, w) == [i \in 1..Height(c, w) |-> [of |-> c, width |-> w, row |-> i]]

\* live: _live_thinking_id, 0 for None; the number of the next entry is one
\* more than there are entries.
Empty(w) == [lines |-> <<>>, log |-> <<>>, held |-> <<>>, heldRows |-> <<>>,
             entries |-> <<>>, live |-> 0, width |-> w]

\* What an entry looks like.
Shown(e) ==
  CASE e.kind = "thinking" /\ e.live  -> [view |-> "live", of |-> e.text]
    [] e.kind = "thinking" /\ ~e.live ->
         [view |-> IF e.expanded THEN "open" ELSE "folded", of |-> e.text]
    [] OTHER -> IF e.expanded THEN [view |-> "detail", of |-> e.text]
                              ELSE [view |-> "summary", of |-> e.brief]

Put(t, c, id) ==
  LET rows == Render(c, t.width) IN
  [t EXCEPT !.lines = @ \o rows,
            !.log = Append(@, [shown |-> c, rows |-> Len(rows), id |-> id])]

DropHeld(t) == [t EXCEPT !.held = <<>>, !.heldRows = <<>>]

\* _commit_pending: the line that was held is final, with the rows it has.
CommitHeld(t) ==
  IF t.heldRows = <<>> THEN t
  ELSE DropHeld([t EXCEPT
         !.lines = @ \o t.heldRows,
         !.log = Append(@, [shown |-> Head(t.held), rows |-> Len(t.heldRows), id |-> 0])])

\* write: a line of its own.
Write(t, c) == Put(CommitHeld(t), c, 0)

\* write(replace_last, commit = False): the held line is overwritten.
Hold(t, c) == [t EXCEPT !.held = <<c>>, !.heldRows = Render(c, t.width)]

\* Mutant: the rows that become final are those of the line held before.
CommitHeldRows(t, c) ==
  [DropHeld(t) EXCEPT !.lines = @ \o t.heldRows,
     !.log = Append(@, [shown |-> c, rows |-> Len(t.heldRows), id |-> 0])]

\* write(replace_last, commit): the line takes the place of the held one and is
\* final.
Commit(t, c) == Put(DropHeld(t), c, 0)

\* discard_pending
Discard(t) == DropHeld(t)

\* _rebuild_committed_lines: everything is rendered again, entries as they
\* are by now.
Rebuild(t) ==
  LET shown(l) == IF l.id = 0 THEN l.shown ELSE Shown(t.entries[l.id])
      log == [i \in DOMAIN t.log |->
                LET c == shown(t.log[i])
                IN [shown |-> c, rows |-> Height(c, t.width), id |-> t.log[i].id]]
  IN [t EXCEPT !.log = log,
               !.lines = FlattenSeq([i \in DOMAIN log |-> Render(log[i].shown, t.width)])]

\* A new entry, in the view that it starts with.
NewEntry(t, e) ==
  LET u == [CommitHeld(t) EXCEPT !.entries = Append(@, e)]
  IN Put(u, Shown(e), Len(u.entries))

Thought(text, live) ==
  [kind |-> "thinking", text |-> text, brief |-> <<>>, expanded |-> FALSE, live |-> live]

\* write_expandable
WriteExpandable(t, brief, text) ==
  NewEntry(t, [kind |-> "generic", text |-> text, brief |-> brief,
               expanded |-> FALSE, live |-> FALSE])

\* Mutant: thinking goes on in the last trace, though it is closed.
DeltaReopens(t, text) ==
  IF t.entries = <<>> \/ t.entries[Len(t.entries)].kind # "thinking"
  THEN LET u == NewEntry(t, Thought(text, TRUE)) IN [u EXCEPT !.live = Len(u.entries)]
  ELSE Rebuild([CommitHeld(t) EXCEPT !.entries[Len(t.entries)] = Thought(text, TRUE),
                                     !.live = Len(t.entries)])

\* append_thinking_delta: the text so far, in the live entry or in a new one.
ThinkingDelta(t, text) ==
  IF t.live = 0
  THEN LET u == NewEntry(t, Thought(text, TRUE)) IN [u EXCEPT !.live = Len(u.entries)]
  ELSE Rebuild([CommitHeld(t) EXCEPT !.entries[t.live].text = text])

\* append_thinking_trace: the live entry is closed with the whole trace.
ThinkingTrace(t, text) ==
  IF t.live = 0 THEN NewEntry(t, Thought(text, FALSE))
  ELSE Rebuild([t EXCEPT !.entries[t.live] = Thought(text, FALSE), !.live = 0])

\* The first row of the i-th renderable of the log, less one.
Above(t, i) == FoldLeft(LAMBDA n, l : n + l.rows, 0, SubSeq(t.log, 1, i - 1))

\* on_click: the rows are counted through the log.
Click(t, y) ==
  LET hit == {i \in DOMAIN t.log : Above(t, i) < y /\ y <= Above(t, i) + t.log[i].rows}
      id  == IF hit = {} THEN 0 ELSE t.log[CHOOSE i \in hit : TRUE].id
  IN IF id = 0 THEN t
     ELSE Rebuild([t EXCEPT !.entries[id].expanded = ~@])

\* on_resize: the held line first, then the others.
Resize(t, w) ==
  LET u == [t EXCEPT !.width = w]
  IN Rebuild([u EXCEPT !.heldRows = IF u.held = <<>> THEN <<>> ELSE Render(Head(u.held), w)])

-----------------------------------------------------------------------------

\* What the transcript promises: the rows on screen, and the counts by which a
\* click finds what is under it, are those of what was written, each entry as
\* it is by now, at the width of the screen.
Faithful(t) ==
  LET now(l) == IF l.id = 0 THEN l.shown ELSE Shown(t.entries[l.id]) IN
  /\ t.lines = FlattenSeq([i \in DOMAIN t.log |-> Render(now(t.log[i]), t.width)])
  /\ \A i \in DOMAIN t.log : t.log[i].rows = Height(now(t.log[i]), t.width)
  /\ t.heldRows = FlattenSeq([i \in DOMAIN t.held |-> Render(t.held[i], t.width)])
=============================================================================

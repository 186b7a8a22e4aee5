----------------------------- MODULE OutputFraming -----------------------------
(***************************************************************************)
(* How the bytes a command writes become lines: decoding of what one read  *)
(* returns, frames at line feeds and carriage returns, what is left at the *)
(* end of the stream, and the shortening of the final result               *)
(* (golim/toolset/utils/bash_utils.py).  Pure operators, no state.         *)
(***************************************************************************)
EXTENDS Naturals, Sequences, SequencesExt, FiniteSetsExt

\* A byte is half of a character, or an end of line.  Decoded, a half without
\* the other is replaced by a "bad" character.
Bytes == {"lead", "trail", "cr", "lf"}
Units == Bytes \union {"bad"}

\* data.decode(errors="replace"): every read is decoded alone, so a character
\* torn between two reads is replaced twice.  A character stands as its halves.
Decoded(data) ==
  LET paired(i) == \/ data[i] = "lead" /\ i < Len(data) /\ data[i + 1] = "trail"
                   \/ data[i] = "trail" /\ i > 1 /\ data[i - 1] = "lead"
  IN [i \in DOMAIN data |-> IF data[i] \in {"cr", "lf"} \/ paired(i) THEN data[i] ELSE "bad"]

Frames == [line: Seq(Units), end: {"cr", "lf"}]

Frame(line, end) == [line |-> line, end |-> end]

\* The trailing partial line, once the stream is over.
Flushed(pending) ==
  IF pending = <<>> THEN <<>>
  ELSE IF Last(pending) = "cr" THEN <<Frame(Front(pending), "cr")>>
  ELSE <<Frame(pending, "lf")>>

\* One round of the loop of _append_stream_text: what stands before the first end
\* of line becomes a frame.  A carriage return at the very end stays pending,
\* since a line feed may follow it.
Split[scan \in [frames: Seq(Frames), pending: Seq(Units)]] ==
  LET text == scan.pending
      ends == {i \in DOMAIN text : text[i] \in {"cr", "lf"}}
      at   == Min(ends)
      crlf == text[at] = "cr" /\ text[at + 1] = "lf"
  IN IF ends = {} \/ (text[at] = "cr" /\ at = Len(text)) THEN scan
     ELSE [frames  |-> Append(scan.frames,
                              Frame(SubSeq(text, 1, at - 1), IF crlf THEN "lf" ELSE text[at])),
           pending |-> SubSeq(text, at + (IF crlf THEN 2 ELSE 1), Len(text))]

\* The whole loop: a round takes something out of the text or changes nothing.
Scan(text) ==
  LET after[i \in 0..Len(text)] ==
        IF i = 0 THEN [frames |-> <<>>, pending |-> text] ELSE Split[after[i - 1]]
  IN after[Len(text)]

\* If a carriage return at the end of a read were given out at once.
AppendEagerly(text) ==
  LET scan  == Scan(text)
      eager == scan.pending # <<>> /\ Last(scan.pending) = "cr"
  IN [frames  |-> scan.frames \o (IF eager THEN Flushed(scan.pending) ELSE <<>>),
      pending |-> IF eager THEN <<>> ELSE scan.pending]

\* _append_stream_text on what was pending followed by what was read.
AppendStreamText(text) == Scan(text)

\* The lines of "\n".join(output_lines), split again: an empty last line is no line.
TextLines(lines) ==
  IF lines # <<>> /\ Last(lines) = <<>> THEN Front(lines) ELSE lines

Marker == <<"marker">>

\* _truncate_text: the first and the last half, and a marker between.
Truncated(lines, limit) ==
  LET half == limit \div 2
  IN IF Len(lines) <= limit THEN lines
     ELSE SubSeq(lines, 1, half) \o <<Marker>> \o SubSeq(lines, Len(lines) - half + 1, Len(lines))

\* _finalize_bash_payload for the lines of each stream: the streams are counted
\* together and shortened each for itself.
Finalized(output, limit) ==
  LET count == Len(output["stdout"]) + Len(output["stderr"])
      cut   == count > limit
  IN [lines     |-> IF cut THEN [s \in DOMAIN output |-> Truncated(output[s], limit)] ELSE output,
      count     |-> count,
      truncated |-> cut]

-----------------------------------------------------------------------------
(* The reference: a line ends at every line feed, and at every carriage    *)
(* return that no line feed follows.                                       *)

Breaks(text) ==
  {i \in DOMAIN text : \/ text[i] = "lf"
                       \/ text[i] = "cr" /\ (i = Len(text) \/ text[i + 1] # "lf")}

\* The line that ends at the place `to', as a frame; the line before ends at `from'.
LineOf(text, from, to) ==
  LET crlf == text[to] = "lf" /\ from < to - 1 /\ text[to - 1] = "cr"
  IN IF to \in Breaks(text)
     THEN Frame(SubSeq(text, from + 1, to - (IF crlf THEN 2 ELSE 1)), text[to])
     ELSE Frame(SubSeq(text, from + 1, to), "lf")

\* A frame tells a line if it is that line, except for characters that are torn.
Tells(frame, line) ==
  /\ frame.end = line.end /\ Len(frame.line) = Len(line.line)
  /\ \A i \in DOMAIN frame.line : frame.line[i] \in {line.line[i], "bad"}

\* The frames tell the lines of the text, of which the k-th ends at cut[k].
TellLines(frames, text) ==
  \E cut \in [0..Len(frames) -> Breaks(text) \union {0, Len(text)}] :
    /\ cut[0] = 0 /\ cut[Len(frames)] = Len(text)
    /\ \A k \in DOMAIN frames :
         /\ cut[k - 1] < cut[k]
         /\ cut[k] \in Breaks(text) \/ k = Len(frames)
         /\ \A i \in (cut[k - 1] + 1)..(cut[k] - 1) : i \notin Breaks(text)
         /\ Tells(frames[k], LineOf(text, cut[k - 1], cut[k]))
===============================================================================

---------------------------- MODULE MCChatDisplay ----------------------------
(* Instances of ChatDisplay for TLC: an empty renderable and a folded trace *)
(* take one row, any other as many as its texts need, one to a column.     *)
EXTENDS ChatDisplay

MCHeight(c, w) ==
  IF c.of = <<>> \/ c.view = "folded" THEN 1 ELSE (Len(c.of) + w - 1) \div w

\* A command prints its lines to either stream in turn, as far as it prints.
MCFd(line) == IF line[2] % 2 = 1 THEN "stdout" ELSE "stderr"

\* The bounds are not reached all at once.  Two prompts have one tool call and
\* requests that think, of which a click or a new width meets the first thought
\* or comes without a call; or they have a second call and no thinking.  More
\* prompts, for runs that are started beside each other, have one request that
\* does not think and one call that prints a line.
Thinking == MapThenSumSet(LAMBDA r : req[r].thoughts, Requests)
Called   == {k \in Tools : tool[k].pc # "none"}
AtMostOne(S) == \A x, y \in S : x = y

Scenes ==
  \/ /\ app.prompts <= 2 /\ AtMostOne(Called)
     /\ gestures = 0 \/ Called = {} \/ Thinking <= 1
  \/ app.prompts <= 2 /\ gestures = 0 /\ Thinking = 0
  \/ /\ AtMostOne(Called) /\ \A k \in Called : tool[k].lines <= 1
     /\ AtMostOne({r \in Requests : req[r].pc # "none"})
     /\ gestures = 0 /\ Thinking = 0
=============================================================================

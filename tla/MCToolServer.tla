----------------------------- MODULE MCToolServer -----------------------------
(* Instances of ToolServer for TLC: two calls, two binaries.               *)
EXTENDS ToolServer, TLC

CONSTANTS c1, c2, b1, b2

Req(command, always, emit) ==
  [command |-> command, always |-> always, emit |-> emit]

\* A call under the whitelist and one in the always-approve mode.
MixedRequests == {Req(<<b1>>, FALSE, TRUE), Req(<<b1>>, TRUE, TRUE)}

\* All kinds of calls: without sudo, with one or two binaries to ask for, and
\* notifications, one of which needs an approval and one only a password.
SingleRequests ==
  {Req(<<>>, FALSE, TRUE), Req(<<b2, b1>>, FALSE, TRUE),
   Req(<<b1, b2>>, TRUE, TRUE), Req(<<b1>>, TRUE, FALSE),
   Req(<<b2>>, FALSE, FALSE)}

CallSymmetry == Permutations(Calls)
=============================================================================

------------------------------ MODULE ToolServer ------------------------------
(***************************************************************************)
(* The held "bash" tool call of golim's MCP tool server.                   *)
(*                                                                         *)
(* One call involves four parties.  The event loop of the server serves    *)
(* every connection (MCPServer._run_tool_call); a worker thread per call   *)
(* runs the tool (_exec_shell); the client thread that made the call reads *)
(* frames and answers the questions among them on connections of their     *)
(* own (FastMCPClient); and the user answers or hangs up.  The worker puts *)
(* events on a queue that the loop polls, and blocks without a time limit  *)
(* on the answer to a question it has registered.                          *)
(*                                                                         *)
(* A step of the worker is what it does between two accesses to state that *)
(* another thread can see; a step of the loop is what it does between two  *)
(* awaits.  Output chunks, the text of results and the shell's syntax are  *)
(* left out: a command is the sequence of the binaries it runs under sudo. *)
(***************************************************************************)
EXTENDS Naturals, Sequences, FiniteSets

CONSTANTS
  Calls,            \* connections that make a tools/call request
  Binaries,         \* binaries a command may run under sudo
  Requests,         \* what a call may ask for: the command, as the sequence of
                    \* its sudo binaries, and the two modes of StartCall
  Listed,           \* the whitelist when the server starts
  Unlistable,       \* binaries the user may take off the whitelist by hand
  MaxTokens,        \* bound: session tokens golim-authd ever issues
  WhitelistFaults   \* whether writing the whitelist file may fail

ASSUME ToolServerAssumption ==
  /\ Requests \subseteq [command: Seq(Binaries), always: BOOLEAN, emit: BOOLEAN]
  /\ Listed \subseteq Binaries /\ Unlistable \subseteq Binaries
  /\ MaxTokens \in Nat
  /\ WhitelistFaults \in BOOLEAN

VARIABLES
  worker,     \* per call: the tool's thread and the arguments it was given
  serve,      \* per call: the coroutine _run_tool_call and its local state
  client,     \* per call: the client thread and its end of the connection
  nextSeq,    \* _approval_seq
  pending,    \* _pending_approvals and _pending_auths, keyed by question id
  replies,    \* approval/respond and auth/respond requests in flight
  whitelist,  \* the privileged_whitelist file
  cached,     \* auth_session._cached_token, 0 when there is none
  issued,     \* tokens golim-authd has issued are 1..issued
  live,       \* the tokens golim-authd would still verify
  asked,      \* history: every question ever registered
  replied,    \* history: what the user said to which question
  ran         \* history: <<call, binary>> the privileged wrapper executed

shared == <<nextSeq, pending, replies>>
auth   == <<cached, issued, live>>
past   == <<asked, replied, ran>>
vars   == <<worker, serve, client, shared, whitelist, auth, past>>

Question == [id: Nat, call: Calls, kind: {"approval", "auth"},
             bins: SUBSET Binaries]
Reply    == [q: Question, yes: BOOLEAN]
Event    == [type: {"ask", "result"}, q: Question]

Request  == [command: Seq(Binaries), always: BOOLEAN, emit: BOOLEAN]

NoQuestion(c) == [id |-> 0, call |-> c, kind |-> "auth", bins |-> {}]
NoRequest == [command |-> <<>>, always |-> FALSE, emit |-> TRUE]

Worker ==
  [pc: {"new", "prepare", "register", "list", "put", "wait",
        "token", "fetch", "clear", "enroll", "store", "run", "done"},
   req: Request, q: Question, answer: {"none", "yes", "no", "lost"},
   granted: BOOLEAN, seen: SUBSET Binaries, held: Nat, pos: Nat]

Serve  == [phase: {"none", "serving", "cancelling", "closed"},
           events: Seq(Event), listed: SUBSET Nat, cancel: BOOLEAN]

Client == [phase: {"idle", "waiting", "asking", "responding", "done"},
           inbox: Seq(Event), closed: BOOLEAN, q: Question]

TypeOK ==
  /\ worker    \in [Calls -> Worker]
  /\ serve     \in [Calls -> Serve]
  /\ client    \in [Calls -> Client]
  /\ nextSeq   \in Nat \ {0}
  /\ pending   \subseteq Question
  /\ replies   \subseteq Reply
  /\ whitelist \subseteq Binaries
  /\ issued    \in 0..MaxTokens
  /\ cached    \in 0..issued
  /\ live      \subseteq 1..issued
  /\ asked     \subseteq Question
  /\ replied   \subseteq Reply
  /\ ran       \subseteq Calls \X Binaries

Init ==
  /\ worker = [c \in Calls |->
       [pc |-> "new", req |-> NoRequest, q |-> NoQuestion(c), answer |-> "none",
        granted |-> FALSE, seen |-> {}, held |-> 0, pos |-> 1]]
  /\ serve  = [c \in Calls |-> [phase |-> "none", events |-> <<>>,
                                listed |-> {}, cancel |-> FALSE]]
  /\ client = [c \in Calls |-> [phase |-> "idle", inbox |-> <<>>,
                                closed |-> FALSE, q |-> NoQuestion(c)]]
  /\ nextSeq = 1
  /\ pending = {} /\ replies = {}
  /\ whitelist = Listed
  /\ cached = 0 /\ issued = 0 /\ live = {}
  /\ asked = {} /\ replied = {} /\ ran = {}

-----------------------------------------------------------------------------
(* The request arrives: handle_request starts the tool with its worker and *)
(* polls its queue.  `emit' is false for a JSON-RPC notification.  `always' *)
(* is the mode the tool reads once when it starts: every sudo command needs *)
(* an approval of its own, whatever the whitelist says.                    *)

StartCall(c, req) ==
  /\ client[c].phase = "idle"
  /\ client' = [client EXCEPT ![c].phase = "waiting"]
  /\ worker' = [worker EXCEPT ![c] = [@ EXCEPT !.pc = "prepare", !.req = req]]
  /\ serve'  = [serve EXCEPT ![c].phase = "serving"]
  /\ UNCHANGED <<shared, whitelist, auth, past>>

-----------------------------------------------------------------------------
(* The worker thread: _exec_shell and the closures it calls.               *)

Goto(c, label) == worker' = [worker EXCEPT ![c].pc = label]

Put(c, type) ==
  serve' = [serve EXCEPT ![c].events =
              Append(@, [type |-> type, q |-> worker[c].q])]

\* The generator yields its result frame and the worker thread ends.
Finish(c) == Goto(c, "done") /\ Put(c, "result")

BinariesOf(command) == {command[i] : i \in DOMAIN command}

\* Mutant: the always-approve mode is satisfied by the whitelist.
MissingByWhitelist(c) ==
  LET w == worker[c]
      unlisted == {i \in DOMAIN w.req.command : w.req.command[i] \notin whitelist}
  IN {w.req.command[i] : i \in {j \in unlisted : \A k \in unlisted : j <= k}}

\* The binaries a prepared command still lacks approval for: in the
\* always-approve mode all of them at once, otherwise the first unlisted one.
Missing(c) ==
  LET w == worker[c]
      unlisted == {i \in DOMAIN w.req.command : w.req.command[i] \notin whitelist}
  IN IF w.req.always
       THEN IF w.granted THEN {} ELSE BinariesOf(w.req.command)
       ELSE {w.req.command[i] : i \in {j \in unlisted : \A k \in unlisted : j <= k}}

\* The worker turns to the user with a question that has no id yet.
Ask(c, kind, bins) ==
  worker' = [worker EXCEPT ![c] = [@ EXCEPT
    !.pc = "register", !.answer = "none", !.seen = worker[c].seen \cup bins,
    !.q = [id |-> 0, call |-> c, kind |-> kind, bins |-> bins]]]

\* _prepare_shell_command and the loop around it in _exec_shell, which asks
\* for what is missing unless it has already asked for it.
Prepare(c) ==
  /\ worker[c].pc = "prepare"
  /\ \/ /\ Missing(c) = {}
        /\ Goto(c, IF worker[c].req.command = <<>> THEN "run" ELSE "token")
        /\ UNCHANGED serve
     \/ /\ Missing(c) # {}
        /\ ~worker[c].req.always /\ Missing(c) \subseteq worker[c].seen
        /\ Finish(c)
     \/ /\ Missing(c) # {}
        /\ worker[c].req.always \/ ~(Missing(c) \subseteq worker[c].seen)
        /\ Ask(c, "approval", Missing(c))
        /\ UNCHANGED serve
  /\ UNCHANGED <<client, shared, whitelist, auth, past>>

\* An option the wrapper cannot represent, an unknown binary or no wrapper.
PrepareRejects(c) ==
  /\ worker[c].pc = "prepare"
  /\ Finish(c)
  /\ UNCHANGED <<client, shared, whitelist, auth, past>>

\* Mutant: ids are counted per call, as the request ids of the clients are.
RegisterPerCall(c) ==
  /\ worker[c].pc = "register"
  /\ IF worker[c].req.emit
       THEN LET n == Cardinality({x \in asked : x.call = c}) + 1
                q == [worker[c].q EXCEPT !.id = n]
            IN /\ worker' = [worker EXCEPT ![c] = [@ EXCEPT !.pc = "list", !.q = q]]
               /\ pending' = {p \in pending : p.id # q.id} \cup {q}
               /\ asked' = asked \cup {q}
               /\ UNCHANGED nextSeq
       ELSE /\ worker' = [worker EXCEPT ![c] = [@ EXCEPT !.pc = "wait", !.answer = "no"]]
            /\ UNCHANGED <<nextSeq, pending, asked>>
  /\ UNCHANGED <<serve, client, replies, whitelist, auth, replied, ran>>

\* request_approval and request_sudo_password up to the release of the lock.
\* A notification has nobody to ask and is refused at once.
Register(c) ==
  /\ worker[c].pc = "register"
  /\ IF worker[c].req.emit
       THEN LET q == [worker[c].q EXCEPT !.id = nextSeq]
            IN /\ worker' = [worker EXCEPT ![c] = [@ EXCEPT !.pc = "list", !.q = q]]
               /\ nextSeq' = nextSeq + 1
               /\ pending' = {p \in pending : p.id # q.id} \cup {q}
               /\ asked' = asked \cup {q}
       ELSE /\ worker' = [worker EXCEPT ![c] = [@ EXCEPT !.pc = "wait", !.answer = "no"]]
            /\ UNCHANGED <<nextSeq, pending, asked>>
  /\ UNCHANGED <<serve, client, replies, whitelist, auth, replied, ran>>

\* local_approvals.append: from here on release_pending_approvals finds it.
ListQuestion(c) ==
  /\ worker[c].pc = "list"
  /\ Goto(c, "put")
  /\ serve' = [serve EXCEPT ![c].listed = @ \cup {worker[c].q.id}]
  /\ UNCHANGED <<client, shared, whitelist, auth, past>>

\* Mutant: the question is not put on the event queue.
PutNothing(c) ==
  /\ worker[c].pc = "put"
  /\ Goto(c, "wait")
  /\ UNCHANGED <<serve, client, shared, whitelist, auth, past>>

PutQuestion(c) ==
  /\ worker[c].pc = "put"
  /\ Goto(c, "wait") /\ Put(c, "ask")
  /\ UNCHANGED <<client, shared, whitelist, auth, past>>

\* Mutant: the worker goes on as soon as the event is set, whatever was said.
AnsweredAnyhow(c) ==
  /\ worker[c].pc = "wait" /\ worker[c].answer # "none"
  /\ IF worker[c].q.kind = "approval"
       THEN worker' = [worker EXCEPT ![c] = [@ EXCEPT !.pc = "prepare", !.granted = TRUE]]
       ELSE Goto(c, "enroll")
  /\ UNCHANGED <<serve, client, shared, whitelist, auth, past>>

\* pending.event.wait() returns; on a lost answer it never does.
Answered(c) ==
  /\ worker[c].pc = "wait"
  /\ \/ /\ worker[c].answer = "no"
        /\ Finish(c)
     \/ /\ worker[c].answer = "yes" /\ worker[c].q.kind = "approval"
        /\ worker' = [worker EXCEPT ![c] = [@ EXCEPT !.pc = "prepare", !.granted = TRUE]]
        /\ UNCHANGED serve
     \/ /\ worker[c].answer = "yes" /\ worker[c].q.kind = "auth"
        /\ Goto(c, "enroll")
        /\ UNCHANGED serve
  /\ UNCHANGED <<client, shared, whitelist, auth, past>>

\* obtain_session_token: has_session_token() and has_valid_session_token().  A
\* golim-authd that cannot be reached makes a live token count as invalid.
CheckToken(c) ==
  /\ worker[c].pc = "token"
  /\ \/ cached \in live /\ Goto(c, "fetch")
     \/ Goto(c, "clear")
  /\ UNCHANGED <<serve, client, shared, whitelist, auth, past>>

\* session_token() reads the cache once more; another call may have changed it.
FetchToken(c) ==
  /\ worker[c].pc = "fetch"
  /\ IF cached = 0
       THEN Finish(c)
       ELSE /\ worker' = [worker EXCEPT ![c] = [@ EXCEPT !.pc = "run", !.held = cached]]
            /\ UNCHANGED serve
  /\ UNCHANGED <<client, shared, whitelist, auth, past>>

\* clear_session_token(), then the password is asked for.
ClearToken(c) ==
  /\ worker[c].pc = "clear"
  /\ cached' = 0
  /\ Ask(c, "auth", {})
  /\ UNCHANGED <<serve, client, shared, whitelist, issued, live, past>>

\* register_session: golim-authd accepts the password and issues a token ...
EnrollToken(c) ==
  /\ worker[c].pc = "enroll"
  /\ issued < MaxTokens
  /\ issued' = issued + 1
  /\ live' = live \cup {issued + 1}
  /\ worker' = [worker EXCEPT ![c] = [@ EXCEPT !.pc = "store", !.held = issued + 1]]
  /\ UNCHANGED <<serve, client, shared, whitelist, cached, past>>

\* ... or refuses it, or cannot be reached.
EnrollFails(c) ==
  /\ worker[c].pc = "enroll"
  /\ Finish(c)
  /\ UNCHANGED <<client, shared, whitelist, auth, past>>

StoreToken(c) ==
  /\ worker[c].pc = "store"
  /\ cached' = worker[c].held
  /\ Goto(c, "run")
  /\ UNCHANGED <<serve, client, shared, whitelist, issued, live, past>>

\* The shell reaches the next binary; the root-side wrapper executes it only
\* with a token golim-authd verifies and a whitelisted binary, and refuses it
\* also when golim-authd cannot be reached.
RunBinary(c) ==
  LET w == worker[c] IN
  /\ w.pc = "run" /\ w.pos \in DOMAIN w.req.command
  /\ worker' = [worker EXCEPT ![c].pos = @ + 1]
  /\ \/ /\ w.held \in live /\ w.req.command[w.pos] \in whitelist
        /\ ran' = ran \cup {<<c, w.req.command[w.pos]>>}
     \/ UNCHANGED ran
  /\ UNCHANGED <<serve, client, shared, whitelist, auth, asked, replied>>

\* The command exits, at its end or at any binary before it.
ExitCommand(c) ==
  /\ worker[c].pc = "run"
  /\ Finish(c)
  /\ UNCHANGED <<client, shared, whitelist, auth, past>>

\* _stream_subprocess looks at the cancel event once a second and kills it.
KillCommand(c) ==
  /\ worker[c].pc = "run" /\ serve[c].cancel
  /\ Finish(c)
  /\ UNCHANGED <<client, shared, whitelist, auth, past>>

-----------------------------------------------------------------------------
(* The event loop: one coroutine per call, and the requests that answer.   *)

\* What waits for the answer to a question finds it.
Answer(questions, answer) ==
  [c \in Calls |-> IF \E p \in questions : p.call = c
                     THEN [worker[c] EXCEPT !.answer = answer]
                     ELSE worker[c]]

\* One turn of the polling loop with an event on the queue.
ServeEvent(c) ==
  LET e == Head(serve[c].events) IN
  /\ serve[c].phase = "serving" /\ serve[c].events # <<>>
  /\ serve' = [serve EXCEPT ![c] = [@ EXCEPT
       !.events = Tail(serve[c].events),
       !.phase = IF e.type = "result" THEN "closed" ELSE serve[c].phase]]
  /\ client' = IF worker[c].req.emit
                 THEN [client EXCEPT ![c].inbox = Append(@, e)] ELSE client
  /\ UNCHANGED <<worker, shared, whitelist, auth, past>>

\* Mutant: only the cancel event is set.
ServeDisconnectCancelOnly(c) ==
  /\ serve[c].phase = "serving" /\ client[c].closed
  /\ serve' = [serve EXCEPT ![c] = [@ EXCEPT !.phase = "cancelling", !.cancel = TRUE]]
  /\ UNCHANGED <<worker, client, shared, whitelist, auth, past>>

\* The disconnect task is done, or a write failed: release_pending_approvals
\* refuses the questions listed so far, then the cancel event is set.
ServeDisconnect(c) ==
  LET released == {p \in pending : p.id \in serve[c].listed} IN
  /\ serve[c].phase = "serving" /\ client[c].closed
  /\ pending' = pending \ released
  /\ worker' = Answer(released, "no")
  /\ serve' = [serve EXCEPT ![c] = [@ EXCEPT !.phase = "cancelling", !.cancel = TRUE]]
  /\ UNCHANGED <<client, nextSeq, replies, whitelist, auth, past>>

\* The worker is gone, or the two seconds it is given are over.
ServeCancelled(c) ==
  /\ serve[c].phase = "cancelling"
  /\ serve' = [serve EXCEPT ![c].phase = "closed"]
  /\ UNCHANGED <<worker, client, shared, whitelist, auth, past>>

\* The client thread reads the reply to its answer and goes on waiting.
ReplyRead(r) ==
  client' = [client EXCEPT ![r.q.call].phase =
               IF @ = "responding" THEN "waiting" ELSE @]

\* Mutant: the entry is looked up, not popped.
HandleReplyKeeping(r) ==
  LET found == {p \in pending : p.id = r.q.id} IN
  /\ r \in replies
  /\ replies' = replies \ {r}
  /\ worker' = Answer(found, IF r.yes THEN "yes" ELSE "no")
  /\ whitelist' = whitelist \cup
       (IF r.yes THEN UNION {p.bins : p \in found} ELSE {})
  /\ ReplyRead(r)
  /\ UNCHANGED <<serve, nextSeq, pending, auth, past>>

\* Mutant: the event of a resolved question is not set.
HandleReplySilent(r) ==
  LET found == {p \in pending : p.id = r.q.id} IN
  /\ r \in replies
  /\ replies' = replies \ {r}
  /\ pending' = pending \ found
  /\ whitelist' = whitelist \cup
       (IF r.yes THEN UNION {p.bins : p \in found} ELSE {})
  /\ ReplyRead(r)
  /\ UNCHANGED <<worker, serve, nextSeq, auth, past>>

\* _resolve_approval and _resolve_auth.  An id nobody waits for is ignored.
HandleReply(r) ==
  LET found == {p \in pending : p.id = r.q.id} IN
  /\ r \in replies
  /\ replies' = replies \ {r}
  /\ pending' = pending \ found
  /\ worker' = Answer(found, IF r.yes THEN "yes" ELSE "no")
  /\ whitelist' = whitelist \cup
       (IF r.yes THEN UNION {p.bins : p \in found} ELSE {})
  /\ ReplyRead(r)
  /\ UNCHANGED <<serve, nextSeq, auth, past>>

\* add_privileged_binary raises at one of the binaries, after the question has
\* been taken out: some of the others may be on the list, and the event of the
\* question will never be set.  The client is told of an internal error.
HandleReplyFails(r) ==
  LET found == {p \in pending : p.id = r.q.id}
      bins  == UNION {p.bins : p \in found}
  IN
  /\ WhitelistFaults
  /\ r \in replies /\ r.yes
  /\ \E added \in SUBSET bins : added # bins /\ whitelist' = whitelist \cup added
  /\ replies' = replies \ {r}
  /\ pending' = pending \ found
  /\ worker' = Answer(found, "lost")
  /\ ReplyRead(r)
  /\ UNCHANGED <<serve, nextSeq, auth, past>>

\* auth/sudo_password: the client authenticates when it starts.
Authenticate ==
  /\ issued < MaxTokens
  /\ issued' = issued + 1
  /\ live' = live \cup {issued + 1}
  /\ cached' = issued + 1
  /\ UNCHANGED <<worker, serve, client, shared, whitelist, past>>

-----------------------------------------------------------------------------
(* The client thread (FastMCPClient) and the user.                         *)

ClientReceive(c) ==
  LET e == Head(client[c].inbox) IN
  /\ client[c].phase = "waiting" /\ client[c].inbox # <<>>
  /\ client' = [client EXCEPT ![c] = [@ EXCEPT
       !.inbox = Tail(client[c].inbox), !.q = e.q,
       !.phase = IF e.type = "ask" THEN "asking" ELSE "done"]]
  /\ UNCHANGED <<worker, serve, shared, whitelist, auth, past>>

\* The connection ends without a result frame.
ClientEof(c) ==
  /\ client[c].phase = "waiting"
  /\ client[c].inbox = <<>> /\ serve[c].phase = "closed"
  /\ client' = [client EXCEPT ![c].phase = "done"]
  /\ UNCHANGED <<worker, serve, shared, whitelist, auth, past>>

\* The callback returns the user's decision, or a refusal when the run was
\* cancelled meanwhile, and it is sent on a connection of its own.
ClientAnswer(c, yes) ==
  LET r == [q |-> client[c].q, yes |-> yes] IN
  /\ client[c].phase = "asking"
  /\ client' = [client EXCEPT ![c].phase = "responding"]
  /\ replies' = replies \cup {r}
  /\ replied' = replied \cup {r}
  /\ UNCHANGED <<worker, serve, nextSeq, pending, whitelist, auth, asked, ran>>

\* close(): the socket is shut down under the client thread.
ClientClose(c) ==
  /\ client[c].phase \in {"waiting", "asking", "responding"}
  /\ ~client[c].closed
  /\ client' = [client EXCEPT ![c].closed = TRUE]
  /\ UNCHANGED <<worker, serve, shared, whitelist, auth, past>>

\* Reading or writing the closed socket raises, and the call is over.
ClientGiveUp(c) ==
  /\ client[c].closed
  /\ client[c].phase \in {"waiting", "asking", "responding"}
  /\ client' = [client EXCEPT ![c].phase = "done"]
  /\ UNCHANGED <<worker, serve, shared, whitelist, auth, past>>

-----------------------------------------------------------------------------
(* The surroundings: a token expires or is revoked, the user edits the     *)
(* whitelist file by hand.                                                 *)

TokenDies(t) ==
  /\ t \in live
  /\ live' = live \ {t}
  /\ UNCHANGED <<worker, serve, client, shared, whitelist, cached, issued, past>>

Unlist(b) ==
  /\ b \in whitelist
  /\ whitelist' = whitelist \ {b}
  /\ UNCHANGED <<worker, serve, client, shared, auth, past>>

-----------------------------------------------------------------------------

WorkerStep(c) ==
  \/ Prepare(c) \/ PrepareRejects(c) \/ Register(c) \/ ListQuestion(c)
  \/ PutQuestion(c) \/ Answered(c) \/ CheckToken(c) \/ FetchToken(c)
  \/ ClearToken(c) \/ EnrollToken(c) \/ EnrollFails(c) \/ StoreToken(c)
  \/ KillCommand(c)

LoopStep(c) == ServeEvent(c) \/ ServeDisconnect(c) \/ ServeCancelled(c)

ReplyStep == \E r \in replies : HandleReply(r) \/ HandleReplyFails(r)

Next ==
  \/ \E c \in Calls :
       \/ \E req \in Requests : StartCall(c, req)
       \/ WorkerStep(c) \/ RunBinary(c) \/ ExitCommand(c)
       \/ LoopStep(c)
       \/ ClientReceive(c) \/ ClientEof(c) \/ ClientClose(c) \/ ClientGiveUp(c)
       \/ \E yes \in BOOLEAN : ClientAnswer(c, yes)
  \/ ReplyStep
  \/ Authenticate
  \/ \E t \in live : TokenDies(t)
  \/ \E b \in Unlistable : Unlist(b)

Spec == Init /\ [][Next]_vars

\* Threads are scheduled, the loop turns and the client reads its socket.
\* The user owes no answer, a command need not exit by itself.
Fairness ==
  /\ \A c \in Calls : WF_vars(WorkerStep(c)) /\ WF_vars(LoopStep(c))
  /\ \A c \in Calls : WF_vars(ClientReceive(c) \/ ClientEof(c))
  /\ WF_vars(ReplyStep)

FairSpec == Spec /\ Fairness

-----------------------------------------------------------------------------
(* What the user has agreed to.                                            *)

Consented(c, b) ==
  \E r \in replied : r.yes /\ r.q.call = c /\ b \in r.q.bins

Refused(c) == \E r \in replied : ~r.yes /\ r.q.call = c

\* A question whose worker is, or is about to be, blocked on its answer.
Waiting(c) ==
  worker[c].pc \in {"list", "put", "wait"} /\ worker[c].answer = "none"

\* Safety.  The answer that unblocks a worker is what the user said to that
\* worker's own question, although all clients number their requests alike
\* and the answers arrive on other connections: ids come from one counter.
AnswersAreOwn ==
  \A c \in Calls : worker[c].answer = "yes" =>
    [q |-> worker[c].q, yes |-> TRUE] \in replied

\* Safety.  Whatever the wrapper has executed as root for a call, the user
\* has agreed to: in the always-approve mode within that very call, otherwise
\* in some call, unless the binary was on the whitelist from the beginning.
RunsAreAuthorized ==
  \A x \in ran :
    \/ Consented(x[1], x[2])
    \/ /\ ~worker[x[1]].req.always
       /\ x[2] \in Listed \/ \E d \in Calls : Consented(d, x[2])

\* Safety.  Every entry of the two dictionaries is the question some worker
\* is blocked on: none survives its answer, also when handling it fails.
PendingIsAwaited ==
  \A p \in pending : Waiting(p.call) /\ worker[p.call].q = p

\* Safety.  No entry outlives the serving of its call: once _run_tool_call
\* has returned after a disconnect, _pending_approvals is empty of it.
NoOrphanQuestion ==
  \A p \in pending : serve[p.call].phase # "closed"

\* Liveness.  A question put to a connected client is brought to the user,
\* unless it is settled otherwise: the loop forwards it and the client reads.
QuestionReachesUser ==
  \A c \in Calls :
    (worker[c].pc = "put" /\ serve[c].phase = "serving") ~>
      \/ client[c].phase = "asking" /\ client[c].q = worker[c].q
      \/ worker[c].answer # "none" \/ client[c].closed

\* An answer to the question a worker is blocked on is on its way.
ReplyUnderway(c) ==
  worker[c].pc = "wait" /\ \E r \in replies : r.q = worker[c].q

\* Liveness.  An answer that has been sent ends the wait it is meant for,
\* whether or not the connection of the call still exists, except where handling
\* it fails: a refusal always ends the wait, an approval does unless the
\* whitelist could not be written.
ReplyEndsWait ==
  \A c \in Calls :
    /\ ReplyUnderway(c) ~> worker[c].pc # "wait" \/ worker[c].answer = "lost"
    /\ (ReplyUnderway(c) /\ [q |-> worker[c].q, yes |-> FALSE] \in replies) ~>
         worker[c].pc # "wait"

\* Liveness.  A call with nobody to ask does not wait: after a disconnect every
\* question listed by then is resolved, answered by the user or refused in the
\* user's place, and a notification ends by itself.
NobodyToAskEnds ==
  \A c \in Calls :
    /\ (client[c].closed /\ serve[c].phase = "serving") ~>
         \A p \in pending : p.id \notin serve[c].listed
    /\ (~worker[c].req.emit /\ worker[c].pc = "prepare") ~>
         worker[c].pc \in {"run", "done"}

\* Refinement.  What the user is asked and what the wrapper executes follow
\* the promise of PrivilegeGate, however calls, answers and hang-ups interleave.
Gate == INSTANCE PrivilegeGate WITH
  mode    <- [c \in Calls |->
                IF worker[c].pc = "new" THEN "none"
                ELSE IF worker[c].req.always THEN "strict" ELSE "relaxed"],
  consent <- {x \in Calls \X Binaries : Consented(x[1], x[2])},
  refused <- {c \in Calls : Refused(c)},
  done    <- ran

GateHolds == Gate!Spec
=============================================================================

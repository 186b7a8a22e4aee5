-------------------------- MODULE ToolServer_proofs --------------------------
(* Proofs about the held tool call, for any calls, binaries and requests.  *)
EXTENDS ToolServer, TLAPS

Label == {"new", "prepare", "register", "list", "put", "wait",
          "token", "fetch", "clear", "enroll", "store", "run", "done"}

LEMMA GotoTyped ==
  ASSUME TypeOK, NEW c \in Calls, NEW l \in Label, Goto(c, l)
  PROVE  worker' \in [Calls -> Worker]
BY DEF TypeOK, Goto, Worker, Label

LEMMA WorkerTyped ==
  ASSUME TypeOK, NEW c \in Calls, NEW w \in Worker,
         worker' = [worker EXCEPT ![c] = w]
  PROVE  worker' \in [Calls -> Worker]
BY DEF TypeOK

LEMMA EventsTyped ==
  ASSUME TypeOK, NEW c \in Calls, NEW s \in Serve, serve' = [serve EXCEPT ![c] = s]
  PROVE  serve' \in [Calls -> Serve]
BY DEF TypeOK

LEMMA PutTyped ==
  ASSUME TypeOK, NEW c \in Calls, NEW t \in {"ask", "result"}, Put(c, t)
  PROVE  serve' \in [Calls -> Serve]
<1> DEFINE e == [type |-> t, q |-> worker[c].q]
           n == Append(serve[c].events, e)
<1>1. e \in Event
  BY DEF TypeOK, Worker, Event
<1>2. serve[c] \in Serve
  BY DEF TypeOK
<1>3. n \in Seq(Event)
  <2> HIDE DEF e
  <2>. QED  BY <1>1, <1>2 DEF Serve
<1>4. serve' = [serve EXCEPT ![c].events = n]
  BY DEF Put
<1> HIDE DEF n
<1>. QED  BY <1>3, <1>4 DEF TypeOK, Serve

LEMMA FinishTyped ==
  ASSUME TypeOK, NEW c \in Calls, Finish(c)
  PROVE  worker' \in [Calls -> Worker] /\ serve' \in [Calls -> Serve]
BY GotoTyped, PutTyped DEF Finish, Label

LEMMA AnswerTyped ==
  ASSUME TypeOK, NEW found, NEW a \in {"yes", "no", "lost"},
         worker' = Answer(found, a)
  PROVE  worker' \in [Calls -> Worker]
<1> SUFFICES ASSUME NEW d \in Calls PROVE worker'[d] \in Worker
  BY DEF Answer
<1>. QED  BY DEF TypeOK, Worker, Answer

LEMMA ReplyReadTyped ==
  ASSUME TypeOK, NEW r \in replies, ReplyRead(r)
  PROVE  client' \in [Calls -> Client]
<1>1. r.q.call \in Calls
  BY DEF TypeOK, Reply, Question
<1>. QED  BY <1>1 DEF TypeOK, Client, ReplyRead

LEMMA MissingTyped ==
  ASSUME TypeOK, NEW c \in Calls
  PROVE  Missing(c) \subseteq Binaries
<1>1. worker[c].req.command \in Seq(Binaries)
  BY DEF TypeOK, Worker, Request
<1>. QED  BY <1>1 DEF Missing, BinariesOf

LEMMA HeldTyped ==
  ASSUME TypeOK, NEW c \in Calls, NEW l \in {"run", "store"}, NEW n \in Nat,
         worker' = [worker EXCEPT ![c] = [@ EXCEPT !.pc = l, !.held = n]]
  PROVE  worker' \in [Calls -> Worker]
BY DEF TypeOK, Worker

LEMMA AskTyped ==
  ASSUME TypeOK, NEW c \in Calls, NEW kind \in {"approval", "auth"},
         NEW bins \in SUBSET Binaries, Ask(c, kind, bins)
  PROVE  worker' \in [Calls -> Worker]
<1> DEFINE q == [id |-> 0, call |-> c, kind |-> kind, bins |-> bins]
           n == worker[c].seen \cup bins
           w == [worker[c] EXCEPT !.pc = "register", !.answer = "none",
                                  !.seen = n, !.q = q]
<1>1. q \in Question /\ n \subseteq Binaries
  BY DEF Question, TypeOK, Worker
<1>2. worker[c] \in Worker
  BY DEF TypeOK
<1>3. w \in Worker
  <2> HIDE DEF q, n
  <2>. QED  BY <1>1, <1>2 DEF Worker
<1>4. worker' = [worker EXCEPT ![c] = w]
  BY DEF Ask
<1> HIDE DEF w
<1>. QED  BY <1>3, <1>4, WorkerTyped

\* A token held for a command is one golim-authd has issued.
HeldIssued == \A c \in Calls : worker[c].held <= issued

LEMMA HeldStep ==
  ASSUME TypeOK, HeldIssued, Next
  PROVE  HeldIssued'
<1> USE DEF TypeOK, HeldIssued, shared, auth, past
<1>0. ASSUME UNCHANGED issued,
             \A d \in Calls : worker'[d].held = worker[d].held
      PROVE  HeldIssued'
  BY <1>0
<1>1. ASSUME NEW c \in Calls, Goto(c, "run") \/ Goto(c, "token") \/ Goto(c, "done")
             \/ Goto(c, "list") \/ Goto(c, "put") \/ Goto(c, "wait")
             \/ Goto(c, "enroll") \/ Goto(c, "fetch") \/ Goto(c, "clear")
      PROVE  \A d \in Calls : worker'[d].held = worker[d].held
  BY <1>1 DEF Worker, Goto
<1>2. ASSUME NEW c \in Calls, NEW k, NEW b, Ask(c, k, b)
      PROVE  \A d \in Calls : worker'[d].held = worker[d].held
  BY <1>2 DEF Worker, Ask
<1>3. ASSUME NEW found, NEW a, worker' = Answer(found, a)
      PROVE  \A d \in Calls : worker'[d].held = worker[d].held
  BY <1>3 DEF Worker, Answer
<1>4. ASSUME NEW c \in Calls, NEW req \in Requests, StartCall(c, req)
      PROVE  HeldIssued'
  BY <1>4 DEF Worker, StartCall
<1>5. ASSUME NEW c \in Calls,
             Prepare(c) \/ PrepareRejects(c) \/ ListQuestion(c) \/ PutQuestion(c)
               \/ CheckToken(c) \/ EnrollFails(c) \/ KillCommand(c) \/ ExitCommand(c)
      PROVE  HeldIssued'
  BY <1>0, <1>1, <1>2, <1>5
  DEF Prepare, PrepareRejects, ListQuestion, PutQuestion, CheckToken,
      EnrollFails, KillCommand, ExitCommand, Finish
<1>6. ASSUME NEW c \in Calls, ClearToken(c) \/ StoreToken(c)
      PROVE  HeldIssued'
  BY <1>0, <1>1, <1>2, <1>6 DEF ClearToken, StoreToken
<1>7. ASSUME NEW c \in Calls, Register(c) PROVE HeldIssued'
  BY <1>0, <1>7 DEF Worker, Register
<1>8. ASSUME NEW c \in Calls, Answered(c) PROVE HeldIssued'
  BY <1>0, <1>1, <1>8 DEF Worker, Answered, Finish
<1>9. ASSUME NEW c \in Calls, FetchToken(c) PROVE HeldIssued'
  <2>1. CASE cached = 0
    BY <1>0, <1>1, <1>9, <2>1 DEF FetchToken, Finish
  <2>2. CASE cached # 0
    <3>1. cached <= issued
      BY ToolServerAssumption
    <3>2. /\ worker' = [worker EXCEPT ![c] =
                            [@ EXCEPT !.pc = "run", !.held = cached]]
          /\ UNCHANGED issued
      BY <1>9, <2>2 DEF FetchToken
    <3>3. \A d \in Calls : worker'[d].held = cached \/ worker'[d].held = worker[d].held
      BY <3>2 DEF Worker
    <3>. QED  BY <3>1, <3>2, <3>3
  <2>. QED  BY <2>1, <2>2
<1>10. ASSUME NEW c \in Calls, EnrollToken(c) PROVE HeldIssued'
  BY <1>10, ToolServerAssumption DEF EnrollToken, Worker
<1>11. ASSUME NEW c \in Calls, RunBinary(c) PROVE HeldIssued'
  BY <1>0, <1>11 DEF RunBinary, Worker
<1>12. CASE Authenticate
  BY <1>12, ToolServerAssumption DEF Authenticate, Worker
<1>13. CASE ReplyStep \/ \E c \in Calls : LoopStep(c)
  <2>1. ASSUME NEW r \in replies, HandleReply(r) PROVE HeldIssued'
    BY <1>0, <1>3, <2>1 DEF HandleReply
  <2>2. ASSUME NEW r \in replies, HandleReplyFails(r) PROVE HeldIssued'
    BY <1>0, <1>3, <2>2 DEF HandleReplyFails
  <2>3. ASSUME NEW c \in Calls, ServeDisconnect(c) PROVE HeldIssued'
    BY <1>0, <1>3, <2>3 DEF ServeDisconnect
  <2>4. ASSUME NEW c \in Calls, ServeEvent(c) \/ ServeCancelled(c) PROVE HeldIssued'
    BY <1>0, <2>4 DEF ServeEvent, ServeCancelled
  <2>. QED  BY <1>13, <2>1, <2>2, <2>3, <2>4 DEF ReplyStep, LoopStep
<1>14. CASE \/ \E c \in Calls : \/ ClientReceive(c) \/ ClientEof(c)
                               \/ ClientClose(c) \/ ClientGiveUp(c)
                               \/ \E yes \in BOOLEAN : ClientAnswer(c, yes)
            \/ \E t \in live : TokenDies(t)
            \/ \E b \in Unlistable : Unlist(b)
  BY <1>0, <1>14
  DEF ClientReceive, ClientEof, ClientClose, ClientGiveUp, ClientAnswer,
      TokenDies, Unlist
<1>. QED
  BY <1>4, <1>5, <1>6, <1>7, <1>8, <1>9, <1>10, <1>11, <1>12, <1>13, <1>14
  DEF Next, WorkerStep

\* The state is well formed: every thread, coroutine and client is in one of
\* its phases, and the cached token is one golim-authd has issued.
THEOREM TypeCorrect == Spec => []TypeOK
<1>1. Init => TypeOK /\ HeldIssued
  BY ToolServerAssumption
  DEF HeldIssued, Init, TypeOK, Worker, Serve, Client, Question, NoQuestion, Request, NoRequest
<1>2. ASSUME TypeOK, HeldIssued, [Next]_vars PROVE TypeOK'
  <2> USE <1>2 DEF shared, auth, past
  <2>1. ASSUME NEW c \in Calls, NEW req \in Requests, StartCall(c, req)
        PROVE  TypeOK'
    <3>1. worker' \in [Calls -> Worker]
      <4>1. req \in Request
        BY ToolServerAssumption DEF Request
      <4>. QED  BY <4>1, <2>1 DEF TypeOK, Worker, StartCall
    <3>2. serve' \in [Calls -> Serve] /\ client' \in [Calls -> Client]
      BY <2>1 DEF TypeOK, Serve, Client, StartCall
    <3>. QED  BY <2>1, <3>1, <3>2 DEF TypeOK, StartCall
  <2>2. ASSUME NEW c \in Calls, Prepare(c) PROVE TypeOK'
    <3>1. CASE Goto(c, "run") \/ Goto(c, "token")
      BY <3>1, <2>2, GotoTyped, FinishTyped DEF Label, TypeOK, Prepare
    <3>2. CASE Finish(c)
      BY <3>2, <2>2, FinishTyped DEF TypeOK, Prepare, Finish
    <3>3. CASE Ask(c, "approval", Missing(c)) /\ UNCHANGED serve
      <4>1. worker' \in [Calls -> Worker]
        BY <3>3, AskTyped, MissingTyped
      <4>2. UNCHANGED <<client, shared, whitelist, auth, past>>
        BY <2>2 DEF Prepare
      <4>. QED  BY <3>3, <4>1, <4>2 DEF TypeOK
    <3>. QED  BY <2>2, <3>1, <3>2, <3>3 DEF Prepare
  <2>3. ASSUME NEW c \in Calls, PrepareRejects(c) PROVE TypeOK'
    BY <2>3, FinishTyped DEF TypeOK, PrepareRejects
  <2>4. ASSUME NEW c \in Calls, Register(c) PROVE TypeOK'
    <3>1. CASE worker[c].req.emit
      <4> DEFINE q == [worker[c].q EXCEPT !.id = nextSeq]
      <4>1. q \in Question
        BY DEF TypeOK, Worker, Question
      <4>2. /\ worker' = [worker EXCEPT ![c] = [@ EXCEPT !.pc = "list", !.q = q]]
            /\ nextSeq' = nextSeq + 1
            /\ pending' = {p \in pending : p.id # q.id} \cup {q}
            /\ asked' = asked \cup {q}
        BY <2>4, <3>1 DEF Register
      <4> HIDE DEF q
      <4>3. worker' \in [Calls -> Worker]
        BY <4>1, <4>2 DEF TypeOK, Worker
      <4>4. UNCHANGED <<serve, client, replies, whitelist, auth, replied, ran>>
        BY <2>4 DEF Register
      <4>. QED  BY <4>1, <4>2, <4>3, <4>4 DEF TypeOK
    <3>2. CASE ~worker[c].req.emit
      <4>1. /\ worker' = [worker EXCEPT ![c] =
                              [@ EXCEPT !.pc = "wait", !.answer = "no"]]
            /\ UNCHANGED <<serve, client, shared, whitelist, auth, past>>
        BY <2>4, <3>2 DEF Register
      <4>2. worker' \in [Calls -> Worker]
        BY <4>1 DEF TypeOK, Worker
      <4>. QED  BY <4>1, <4>2 DEF TypeOK
    <3>. QED  BY <3>1, <3>2
  <2>5. ASSUME NEW c \in Calls, ListQuestion(c) PROVE TypeOK'
    <3> DEFINE n == serve[c].listed \cup {worker[c].q.id}
    <3>1. n \subseteq Nat
      BY DEF TypeOK, Serve, Worker, Question
    <3>2. serve' = [serve EXCEPT ![c].listed = n]
      BY <2>5 DEF ListQuestion
    <3>3. serve' \in [Calls -> Serve]
      <4> HIDE DEF n
      <4>. QED  BY <3>1, <3>2 DEF TypeOK, Serve
    <3>. QED  BY <2>5, <3>3, GotoTyped DEF TypeOK, ListQuestion, Label
  <2>6. ASSUME NEW c \in Calls, PutQuestion(c) PROVE TypeOK'
    BY <2>6, GotoTyped, PutTyped DEF TypeOK, PutQuestion, Label
  <2>7. ASSUME NEW c \in Calls, Answered(c) PROVE TypeOK'
    <3>1. CASE Finish(c)
      BY <2>7, <3>1, FinishTyped DEF TypeOK, Answered
    <3>2. CASE Goto(c, "enroll") /\ UNCHANGED serve
      BY <2>7, <3>2, GotoTyped DEF TypeOK, Answered, Label
    <3>3. CASE /\ worker' = [worker EXCEPT ![c] =
                                [@ EXCEPT !.pc = "prepare", !.granted = TRUE]]
               /\ UNCHANGED serve
      <4>1. worker' \in [Calls -> Worker]
        BY <3>3 DEF TypeOK, Worker
      <4>. QED  BY <2>7, <3>3, <4>1 DEF TypeOK, Answered
    <3>. QED  BY <2>7, <3>1, <3>2, <3>3 DEF Answered
  <2>8. ASSUME NEW c \in Calls, CheckToken(c) PROVE TypeOK'
    BY <2>8, GotoTyped DEF TypeOK, CheckToken, Label
  <2>9. ASSUME NEW c \in Calls, FetchToken(c) PROVE TypeOK'
    <3>1. CASE cached = 0
      BY <2>9, <3>1, FinishTyped DEF TypeOK, FetchToken
    <3>2. CASE cached # 0
      <4>1. worker' \in [Calls -> Worker]
        <5>1. cached \in Nat
          BY ToolServerAssumption DEF TypeOK
        <5>2. worker' = [worker EXCEPT ![c] =
                           [@ EXCEPT !.pc = "run", !.held = cached]]
          BY <2>9, <3>2 DEF FetchToken
        <5>. QED  BY <5>1, <5>2, HeldTyped
      <4>. QED  BY <2>9, <3>2, <4>1 DEF TypeOK, FetchToken
    <3>. QED  BY <3>1, <3>2
  <2>10. ASSUME NEW c \in Calls, ClearToken(c) PROVE TypeOK'
    <3>1. worker' \in [Calls -> Worker]
      BY <2>10, AskTyped DEF ClearToken
    <3>. QED  BY <2>10, <3>1 DEF TypeOK, ClearToken
  <2>11. ASSUME NEW c \in Calls, EnrollToken(c) PROVE TypeOK'
    <3>1. worker' \in [Calls -> Worker]
      <4>1. issued + 1 \in Nat
        BY ToolServerAssumption DEF TypeOK
      <4>. QED  BY <2>11, <4>1 DEF TypeOK, Worker, EnrollToken
    <3>. QED  BY <2>11, <3>1, ToolServerAssumption DEF TypeOK, EnrollToken
  <2>12. ASSUME NEW c \in Calls, EnrollFails(c) PROVE TypeOK'
    BY <2>12, FinishTyped DEF TypeOK, EnrollFails
  <2>13. ASSUME NEW c \in Calls, StoreToken(c) PROVE TypeOK'
    <3>1. worker[c].held \in 0..issued
      BY ToolServerAssumption DEF TypeOK, Worker, HeldIssued
    <3>. QED  BY <2>13, <3>1, GotoTyped DEF TypeOK, StoreToken, Label
  <2>14. ASSUME NEW c \in Calls, KillCommand(c) \/ ExitCommand(c) PROVE TypeOK'
    BY <2>14, FinishTyped DEF TypeOK, KillCommand, ExitCommand
  <2>15. ASSUME NEW c \in Calls, RunBinary(c) PROVE TypeOK'
    <3>1. worker' \in [Calls -> Worker]
      <4>1. worker[c].pos + 1 \in Nat
        BY DEF TypeOK, Worker
      <4>2. worker' = [worker EXCEPT ![c].pos = worker[c].pos + 1]
        BY <2>15 DEF RunBinary
      <4>. QED  BY <4>1, <4>2 DEF TypeOK, Worker
    <3>2. ran' \subseteq Calls \X Binaries
      <4>1. worker[c].req.command \in Seq(Binaries)
        BY DEF TypeOK, Worker, Request
      <4>2. worker[c].pos \in DOMAIN worker[c].req.command
        BY <2>15 DEF RunBinary
      <4>3. worker[c].req.command[worker[c].pos] \in Binaries
        BY <4>1, <4>2
      <4>. QED  BY <2>15, <4>3 DEF TypeOK, RunBinary
    <3>. QED  BY <2>15, <3>1, <3>2 DEF TypeOK, RunBinary
  <2>16. ASSUME NEW c \in Calls, ServeEvent(c) PROVE TypeOK'
    <3> DEFINE e == Head(serve[c].events)
               n == Tail(serve[c].events)
               ph == IF e.type = "result" THEN "closed" ELSE serve[c].phase
               s == [serve[c] EXCEPT !.events = n, !.phase = ph]
               box == Append(client[c].inbox, e)
    <3>1. serve[c] \in Serve /\ client[c] \in Client
      BY DEF TypeOK
    <3>2. e \in Event /\ n \in Seq(Event)
      BY <2>16, <3>1 DEF ServeEvent, Serve
    <3>3. ph \in {"none", "serving", "cancelling", "closed"}
      BY <3>1 DEF Serve
    <3>4. s \in Serve
      <4> HIDE DEF n, ph
      <4>. QED  BY <3>1, <3>2, <3>3 DEF Serve
    <3>5. serve' = [serve EXCEPT ![c] = s]
      BY <2>16 DEF ServeEvent
    <3>6. box \in Seq(Event)
      <4> HIDE DEF e
      <4>. QED  BY <3>1, <3>2 DEF Client
    <3>7. \/ client' = [client EXCEPT ![c].inbox = box]
          \/ client' = client
      BY <2>16 DEF ServeEvent
    <3>8. client' \in [Calls -> Client]
      <4> HIDE DEF box
      <4>. QED  BY <3>6, <3>7 DEF TypeOK, Client
    <3>9. serve' \in [Calls -> Serve]
      <4> HIDE DEF s
      <4>. QED  BY <3>4, <3>5, EventsTyped
    <3>. QED  BY <2>16, <3>8, <3>9 DEF TypeOK, ServeEvent
  <2>17. ASSUME NEW c \in Calls, ServeDisconnect(c) PROVE TypeOK'
    <3>1. worker' \in [Calls -> Worker]
      BY <2>17, AnswerTyped DEF ServeDisconnect
    <3>2. serve' \in [Calls -> Serve]
      BY <2>17 DEF TypeOK, Serve, ServeDisconnect
    <3>3. pending' \subseteq Question
      BY <2>17 DEF TypeOK, ServeDisconnect
    <3>. QED  BY <2>17, <3>1, <3>2, <3>3 DEF TypeOK, ServeDisconnect
  <2>18. ASSUME NEW c \in Calls, ServeCancelled(c) PROVE TypeOK'
    <3>1. serve' \in [Calls -> Serve]
      BY <2>18 DEF TypeOK, Serve, ServeCancelled
    <3>. QED  BY <2>18, <3>1 DEF TypeOK, ServeCancelled
  <2>19. ASSUME NEW r \in replies, HandleReply(r) PROVE TypeOK'
    <3>1. worker' \in [Calls -> Worker]
      BY <2>19, AnswerTyped DEF HandleReply
    <3>2. client' \in [Calls -> Client]
      BY <2>19, ReplyReadTyped DEF HandleReply
    <3>3. pending' \subseteq Question /\ replies' \subseteq Reply
      BY <2>19 DEF TypeOK, HandleReply
    <3>4. whitelist' \subseteq Binaries
      BY <2>19 DEF TypeOK, HandleReply, Question
    <3>. QED  BY <2>19, <3>1, <3>2, <3>3, <3>4 DEF TypeOK, HandleReply
  <2>20. ASSUME NEW r \in replies, HandleReplyFails(r) PROVE TypeOK'
    <3>1. client' \in [Calls -> Client]
      BY <2>20, ReplyReadTyped DEF HandleReplyFails
    <3>2. pending' \subseteq Question /\ replies' \subseteq Reply
      BY <2>20 DEF TypeOK, HandleReplyFails
    <3>3. worker' \in [Calls -> Worker]
      BY <2>20, AnswerTyped DEF HandleReplyFails
    <3>4. whitelist' \subseteq Binaries
      BY <2>20 DEF TypeOK, HandleReplyFails, Question
    <3>. QED  BY <2>20, <3>1, <3>2, <3>3, <3>4 DEF TypeOK, HandleReplyFails
  <2>21. CASE Authenticate
    BY <2>21, ToolServerAssumption DEF TypeOK, Authenticate
  <2>22. ASSUME NEW c \in Calls, ClientReceive(c) PROVE TypeOK'
    <3> DEFINE e == Head(client[c].inbox)
               n == Tail(client[c].inbox)
               ph == IF e.type = "ask" THEN "asking" ELSE "done"
               s == [client[c] EXCEPT !.inbox = n, !.q = e.q, !.phase = ph]
    <3>1. client[c] \in Client
      BY DEF TypeOK
    <3>2. e \in Event /\ n \in Seq(Event)
      BY <2>22, <3>1 DEF ClientReceive, Client
    <3>3. ph \in {"asking", "done"} /\ e.q \in Question
      <4> HIDE DEF e
      <4>. QED  BY <3>2 DEF Event
    <3>4. s \in Client
      <4> HIDE DEF n, ph, e
      <4>. QED  BY <3>1, <3>2, <3>3 DEF Client
    <3>5. client' = [client EXCEPT ![c] = s]
      BY <2>22 DEF ClientReceive
    <3>6. client' \in [Calls -> Client]
      <4> HIDE DEF s
      <4>. QED  BY <3>4, <3>5 DEF TypeOK
    <3>. QED  BY <2>22, <3>6 DEF TypeOK, ClientReceive
  <2>23. ASSUME NEW c \in Calls, ClientEof(c) \/ ClientClose(c) \/ ClientGiveUp(c)
         PROVE  TypeOK'
    <3>1. client' \in [Calls -> Client]
      BY <2>23 DEF TypeOK, Client, ClientEof, ClientClose, ClientGiveUp
    <3>. QED
      BY <2>23, <3>1 DEF TypeOK, ClientEof, ClientClose, ClientGiveUp
  <2>24. ASSUME NEW c \in Calls, NEW yes \in BOOLEAN, ClientAnswer(c, yes)
         PROVE  TypeOK'
    <3>1. client' \in [Calls -> Client]
      BY <2>24 DEF TypeOK, Client, ClientAnswer
    <3>2. [q |-> client[c].q, yes |-> yes] \in Reply
      BY DEF TypeOK, Client, Reply
    <3>. QED  BY <2>24, <3>1, <3>2 DEF TypeOK, ClientAnswer
  <2>25. ASSUME NEW t \in live, TokenDies(t) PROVE TypeOK'
    BY <2>25 DEF TypeOK, TokenDies
  <2>26. ASSUME NEW b \in Unlistable, Unlist(b) PROVE TypeOK'
    BY <2>26 DEF TypeOK, Unlist
  <2>27. CASE UNCHANGED vars
    BY <2>27 DEF TypeOK, vars
  <2>. QED
    BY <2>1, <2>2, <2>3, <2>4, <2>5, <2>6, <2>7, <2>8, <2>9, <2>10, <2>11, <2>12,
       <2>13, <2>14, <2>15, <2>16, <2>17, <2>18, <2>19, <2>20, <2>21, <2>22,
       <2>23, <2>24, <2>25, <2>26, <2>27
    DEF Next, WorkerStep, LoopStep, ReplyStep
<1>3. ASSUME TypeOK, HeldIssued, [Next]_vars PROVE HeldIssued'
  <2>1. CASE Next
    BY <1>3, <2>1, HeldStep
  <2>2. CASE UNCHANGED vars
    BY <1>3, <2>2 DEF HeldIssued, vars, auth
  <2>. QED  BY <1>3, <2>1, <2>2
<1>. QED  BY <1>1, <1>2, <1>3, PTL DEF Spec

-----------------------------------------------------------------------------
(* The inductive invariant behind the safety properties.                   *)

\* Question ids are never reused.
IdsUnique ==
  /\ \A q \in asked : q.id # 0 /\ q.id < nextSeq
  /\ \A q1, q2 \in asked : q1.id = q2.id => q1 = q2

\* Whatever carries a question on its way to the user and back carries one
\* that was registered, and every reply in flight is one the user gave.
WorkerCarries(c) ==
  worker[c].pc \in {"list", "put"} => worker[c].q \in asked
ServeCarries(c) ==
  \A i \in DOMAIN serve[c].events :
    serve[c].events[i].type = "ask" => serve[c].events[i].q \in asked
ClientCarries(c) ==
  /\ client[c].phase = "asking" => client[c].q \in asked
  /\ \A i \in DOMAIN client[c].inbox :
       client[c].inbox[i].type = "ask" => client[c].inbox[i].q \in asked

Circulating ==
  /\ pending \subseteq asked
  /\ \A r \in replies : r \in replied /\ r.q \in asked
  /\ \A c \in Calls : WorkerCarries(c) /\ ServeCarries(c) /\ ClientCarries(c)

AskLabel == {"register", "list", "put", "wait"}

\* A strict call is past its approval, or asks for the password after it.
PastApproval(c) ==
  \/ worker[c].pc \in {"token", "fetch", "clear", "enroll", "store", "run"}
  \/ worker[c].pc \in AskLabel /\ worker[c].q.kind = "auth"

\* What a call has asked for and been granted, by where its worker stands.
CallInv(c) ==
  /\ worker[c].q.call = c
  /\ client[c].phase = "idle" => worker[c].pc = "new"
  /\ worker[c].pc = "new" =>
       ~worker[c].granted /\ \A b \in Binaries : <<c, b>> \notin ran
  /\ worker[c].pc = "register" => worker[c].answer = "none"
  /\ worker[c].pc \in AskLabel /\ worker[c].q.kind = "approval"
       /\ worker[c].req.always
     => worker[c].q.bins = BinariesOf(worker[c].req.command)
  /\ worker[c].granted /\ worker[c].req.always
     => \A b \in BinariesOf(worker[c].req.command) : Consented(c, b)
  /\ PastApproval(c) /\ worker[c].req.always
     => worker[c].granted \/ BinariesOf(worker[c].req.command) = {}

CallsInv == \A c \in Calls : CallInv(c)

\* A binary on the whitelist was there from the beginning or is consented to.
WhitelistConsented ==
  \A b \in whitelist : b \in Listed \/ \E d \in Calls : Consented(d, b)

IInv ==
  /\ IdsUnique /\ Circulating
  /\ PendingIsAwaited /\ AnswersAreOwn
  /\ CallsInv /\ WhitelistConsented /\ RunsAreAuthorized

LEMMA InitInv == Init => IInv
<1> SUFFICES ASSUME Init PROVE IInv
  OBVIOUS
<1>1. CallsInv
  BY DEF CallsInv, CallInv, PastApproval, AskLabel, Init, NoQuestion
<1>. QED
  BY <1>1
  DEF IInv, IdsUnique, Circulating, WorkerCarries, ServeCarries, ClientCarries,
      PendingIsAwaited, AnswersAreOwn, WhitelistConsented, RunsAreAuthorized, Init

\* Only request_approval and request_sudo_password make new questions.
LEMMA OnlyRegister ==
  ASSUME Next
  PROVE  \/ UNCHANGED <<asked, nextSeq>>
         \/ \E c \in Calls : Register(c)
<1> USE DEF shared, past
<1>1. ASSUME NEW c \in Calls,
             Prepare(c) \/ PrepareRejects(c) \/ ListQuestion(c) \/ PutQuestion(c)
               \/ Answered(c) \/ CheckToken(c) \/ FetchToken(c) \/ ClearToken(c)
      PROVE  UNCHANGED <<asked, nextSeq>>
  BY <1>1 DEF Prepare, PrepareRejects, ListQuestion, PutQuestion, Answered,
              CheckToken, FetchToken, ClearToken
<1>2. ASSUME NEW c \in Calls,
             EnrollToken(c) \/ EnrollFails(c) \/ StoreToken(c) \/ KillCommand(c)
               \/ ExitCommand(c) \/ RunBinary(c) \/ LoopStep(c)
      PROVE  UNCHANGED <<asked, nextSeq>>
  BY <1>2 DEF EnrollToken, EnrollFails, StoreToken, KillCommand, ExitCommand,
              RunBinary, LoopStep, ServeEvent, ServeDisconnect, ServeCancelled
<1>3. ASSUME NEW c \in Calls,
             \/ ClientReceive(c) \/ ClientEof(c) \/ ClientClose(c) \/ ClientGiveUp(c)
             \/ \E yes \in BOOLEAN : ClientAnswer(c, yes)
             \/ \E req \in Requests : StartCall(c, req)
      PROVE  UNCHANGED <<asked, nextSeq>>
  BY <1>3 DEF ClientReceive, ClientEof, ClientClose, ClientGiveUp, ClientAnswer, StartCall
<1>4. CASE \/ ReplyStep \/ Authenticate
           \/ \E t \in live : TokenDies(t)
           \/ \E b \in Unlistable : Unlist(b)
  BY <1>4 DEF ReplyStep, HandleReply, HandleReplyFails, Authenticate, TokenDies, Unlist
<1>. QED  BY <1>1, <1>2, <1>3, <1>4 DEF Next, WorkerStep

LEMMA IdsStep ==
  ASSUME TypeOK, IdsUnique, Next
  PROVE  IdsUnique'
<1>1. CASE UNCHANGED <<asked, nextSeq>>
  BY <1>1 DEF IdsUnique
<1>2. ASSUME NEW c \in Calls, Register(c) PROVE IdsUnique'
  <2>1. CASE worker[c].req.emit
    <3> DEFINE q == [worker[c].q EXCEPT !.id = nextSeq]
    <3>1. nextSeq' = nextSeq + 1 /\ asked' = asked \cup {q}
      BY <1>2, <2>1 DEF Register
    <3>2. q.id = nextSeq /\ nextSeq \in Nat \ {0} /\ \A x \in asked : x.id \in Nat
      BY DEF TypeOK, Worker, Question
    <3> HIDE DEF q
    <3>. QED  BY <3>1, <3>2 DEF IdsUnique
  <2>2. CASE ~worker[c].req.emit
    BY <1>2, <2>2 DEF IdsUnique, Register
  <2>. QED  BY <2>1, <2>2
<1>. QED  BY <1>1, <1>2, OnlyRegister

\* A step of a worker thread touches its own record and nobody else's runs.
LEMMA WorkerFrame ==
  ASSUME TypeOK, NEW c \in Calls, WorkerStep(c) \/ RunBinary(c) \/ ExitCommand(c)
  PROVE  /\ UNCHANGED <<client, replies, replied, whitelist>>
         /\ \A d \in Calls : d # c => worker'[d] = worker[d]
         /\ worker'[c].req = worker[c].req
         /\ \A d, b : d # c /\ <<d, b>> \in ran' => <<d, b>> \in ran
<1> USE DEF shared, auth, past, TypeOK
<1> DEFINE Own == /\ \A d \in Calls : d # c => worker'[d] = worker[d]
                  /\ worker'[c].req = worker[c].req
<1>1. ASSUME NEW l, Goto(c, l) PROVE Own
  BY <1>1 DEF Goto, Worker
<1>2. ASSUME NEW k, NEW b, Ask(c, k, b) PROVE Own
  BY <1>2 DEF Ask, Worker
<1>3. ASSUME NEW w, worker' = [worker EXCEPT ![c] = w], w.req = worker[c].req
      PROVE  Own
  BY <1>3
<1>4. CASE \/ Prepare(c) \/ PrepareRejects(c) \/ ListQuestion(c) \/ PutQuestion(c)
           \/ CheckToken(c) \/ EnrollFails(c) \/ KillCommand(c) \/ ExitCommand(c)
           \/ ClearToken(c) \/ StoreToken(c)
  <2>1. Own
    <3> HIDE DEF Own
    <3>. QED
      BY <1>1, <1>2, <1>4
      DEF Prepare, PrepareRejects, ListQuestion, PutQuestion, CheckToken,
          EnrollFails, KillCommand, ExitCommand, ClearToken, StoreToken, Finish
  <2>2. UNCHANGED <<client, replies, replied, whitelist, ran>>
    BY <1>4
    DEF Prepare, PrepareRejects, ListQuestion, PutQuestion, CheckToken,
        EnrollFails, KillCommand, ExitCommand, ClearToken, StoreToken
  <2>. QED  BY <2>1, <2>2
<1>5. CASE Register(c)
  BY <1>5 DEF Register, Worker
<1>6. CASE Answered(c)
  BY <1>6 DEF Answered, Worker, Finish, Goto
<1>7. CASE FetchToken(c)
  BY <1>7 DEF FetchToken, Worker, Finish, Goto
<1>8. CASE EnrollToken(c)
  BY <1>8 DEF EnrollToken, Worker
<1>9. CASE RunBinary(c)
  <2>1. /\ worker' = [worker EXCEPT ![c].pos = @ + 1]
        /\ UNCHANGED <<client, replies, replied, whitelist>>
        /\ ran' \subseteq ran \cup {<<c, worker[c].req.command[worker[c].pos]>>}
    BY <1>9 DEF RunBinary
  <2>2. Own
    BY <2>1 DEF Worker
  <2>. QED  BY <2>1, <2>2
<1>. QED  BY <1>4, <1>5, <1>6, <1>7, <1>8, <1>9 DEF WorkerStep

\* The loop and the replies change nothing of a worker but its answer.
LEMMA LoopFrame ==
  ASSUME TypeOK, NEW c \in Calls, LoopStep(c) \/ ReplyStep
  PROVE  /\ UNCHANGED <<asked, replied, ran>>
         /\ \A d \in Calls :
              /\ worker'[d].pc = worker[d].pc /\ worker'[d].q = worker[d].q
              /\ worker'[d].req = worker[d].req
              /\ worker'[d].granted = worker[d].granted
              /\ client'[d].phase = "idle" => client[d].phase = "idle"
<1> USE DEF shared, auth, past, TypeOK
<1>1. ASSUME NEW found, NEW a, worker' = Answer(found, a), NEW d \in Calls
      PROVE  /\ worker'[d].pc = worker[d].pc /\ worker'[d].q = worker[d].q
             /\ worker'[d].req = worker[d].req
             /\ worker'[d].granted = worker[d].granted
  BY <1>1 DEF Answer, Worker
<1>2. ASSUME NEW r \in replies, ReplyRead(r), NEW d \in Calls
      PROVE  client'[d].phase = "idle" => client[d].phase = "idle"
  BY <1>2 DEF ReplyRead, Client, Reply, Question
<1>3. ASSUME NEW r \in replies, HandleReply(r) PROVE UNCHANGED <<asked, replied, ran>>
  BY <1>3 DEF HandleReply
<1>4. ASSUME NEW r \in replies, HandleReplyFails(r)
      PROVE UNCHANGED <<asked, replied, ran>>
  BY <1>4 DEF HandleReplyFails
<1>5. CASE ReplyStep
  <2>1. PICK r \in replies : HandleReply(r) \/ HandleReplyFails(r)
    BY <1>5 DEF ReplyStep
  <2>2. /\ \E found, a : worker' = Answer(found, a)
        /\ ReplyRead(r)
    BY <2>1 DEF HandleReply, HandleReplyFails
  <2>. QED  BY <1>1, <1>2, <1>3, <1>4, <2>1, <2>2
<1>6. CASE ServeDisconnect(c)
  BY <1>1, <1>6 DEF ServeDisconnect
<1>7. CASE ServeEvent(c)
  BY <1>7 DEF ServeEvent, Client
<1>8. CASE ServeCancelled(c)
  BY <1>8 DEF ServeCancelled
<1>. QED  BY <1>5, <1>6, <1>7, <1>8 DEF LoopStep

\* A connection, a client or the surroundings leave the workers alone.
LEMMA ClientFrame ==
  ASSUME TypeOK, NEW c \in Calls,
         \/ ClientReceive(c) \/ ClientEof(c) \/ ClientClose(c) \/ ClientGiveUp(c)
         \/ \E yes \in BOOLEAN : ClientAnswer(c, yes)
         \/ Authenticate
         \/ \E t \in live : TokenDies(t)
         \/ \E b \in Unlistable : Unlist(b)
  PROVE  /\ UNCHANGED <<worker, serve, pending, asked, ran>>
         /\ replied \subseteq replied' /\ whitelist' \subseteq whitelist
         /\ \A d \in Calls : client'[d].phase = "idle" => client[d].phase = "idle"
<1> USE DEF shared, auth, past, TypeOK, Client
<1>1. CASE ClientReceive(c)
  BY <1>1 DEF ClientReceive
<1>2. CASE ClientEof(c) \/ ClientClose(c) \/ ClientGiveUp(c)
  BY <1>2 DEF ClientEof, ClientClose, ClientGiveUp
<1>3. ASSUME NEW yes \in BOOLEAN, ClientAnswer(c, yes)
      PROVE  /\ UNCHANGED <<worker, serve, pending, asked, ran, whitelist>>
             /\ replied \subseteq replied'
             /\ \A d \in Calls : client'[d].phase = "idle" => client[d].phase = "idle"
  BY <1>3 DEF ClientAnswer
<1>4. CASE Authenticate
  BY <1>4 DEF Authenticate
<1>5. CASE \/ \E t \in live : TokenDies(t)
           \/ \E b \in Unlistable : Unlist(b)
  BY <1>5 DEF TokenDies, Unlist
<1>. QED  BY <1>1, <1>2, <1>3, <1>4, <1>5

\* The user's words are never taken back.
LEMMA RepliedGrows ==
  ASSUME TypeOK, Next
  PROVE  replied \subseteq replied'
<1>1. ASSUME NEW c \in Calls, NEW req \in Requests, StartCall(c, req)
      PROVE  replied \subseteq replied'
  BY <1>1 DEF StartCall, past
<1>2. ASSUME ReplyStep PROVE replied \subseteq replied'
  BY <1>2 DEF ReplyStep, HandleReply, HandleReplyFails, past
<1>3. ASSUME \/ Authenticate \/ \E t \in live : TokenDies(t)
             \/ \E b \in Unlistable : Unlist(b)
      PROVE  replied \subseteq replied'
  BY <1>3 DEF Authenticate, TokenDies, Unlist, past
<1>. QED  BY <1>1, <1>2, <1>3, WorkerFrame, LoopFrame, ClientFrame DEF Next

LEMMA ConsentStays ==
  ASSUME TypeOK, Next, NEW c, NEW b, Consented(c, b)
  PROVE  Consented(c, b)'
BY RepliedGrows DEF Consented

\* The binaries a relaxed call relies on stay consented to.
LEMMA WhitelistStep ==
  ASSUME TypeOK, IInv, Next
  PROVE  WhitelistConsented'
<1> USE DEF past, auth, shared
<1>1. ASSUME whitelist' \subseteq whitelist PROVE WhitelistConsented'
  BY <1>1, ConsentStays DEF WhitelistConsented, IInv
<1>2. ASSUME NEW r \in replies, r.yes,
             whitelist' \subseteq whitelist \cup UNION {p.bins : p \in {x \in pending : x.id = r.q.id}}
      PROVE  WhitelistConsented'
  <2>1. \A p \in pending : p.id = r.q.id => p = r.q
    BY DEF IInv, Circulating, IdsUnique
  <2>2. whitelist' \subseteq whitelist \cup r.q.bins
    BY <1>2, <2>1
  <2>3. r \in replied /\ r.q.call \in Calls
    BY DEF IInv, Circulating, TypeOK, Reply, Question
  <2>4. \A b \in r.q.bins : Consented(r.q.call, b)
    BY <1>2, <2>3 DEF Consented
  <2>. QED  BY <2>2, <2>3, <2>4, ConsentStays DEF WhitelistConsented, IInv
<1>3. ASSUME NEW r \in replies, HandleReply(r) \/ HandleReplyFails(r)
      PROVE  WhitelistConsented'
  <2>1. CASE HandleReply(r) /\ ~r.yes
    BY <1>1, <2>1 DEF HandleReply
  <2>2. CASE HandleReply(r) /\ r.yes
    BY <1>2, <2>2 DEF HandleReply
  <2>3. CASE HandleReplyFails(r)
    BY <1>2, <2>3 DEF HandleReplyFails
  <2>. QED  BY <1>3, <2>1, <2>2, <2>3
<1>4. ASSUME NEW c \in Calls, LoopStep(c) PROVE WhitelistConsented'
  BY <1>1, <1>4 DEF LoopStep, ServeEvent, ServeDisconnect, ServeCancelled
<1>5. ASSUME NEW c \in Calls, NEW req \in Requests, StartCall(c, req)
      PROVE  WhitelistConsented'
  BY <1>1, <1>5 DEF StartCall
<1>6. CASE \/ Authenticate
           \/ \E t \in live : TokenDies(t)
           \/ \E b \in Unlistable : Unlist(b)
  BY <1>1, <1>6 DEF Authenticate, TokenDies, Unlist
<1>. QED
  BY <1>1, <1>3, <1>4, <1>5, <1>6, WorkerFrame, ClientFrame
  DEF Next, ReplyStep

\* What the wrapper executes is consented to at that moment.
LEMMA RunsStep ==
  ASSUME TypeOK, IInv, Next
  PROVE  RunsAreAuthorized'
<1> USE DEF past, auth, shared
<1> DEFINE Allowed(d, b) ==
             \/ Consented(d, b)
             \/ /\ ~worker[d].req.always
                /\ b \in Listed \/ \E e \in Calls : Consented(e, b)
<1>1. \A x \in ran : x[1] \in Calls /\ x[2] \in Binaries /\ Allowed(x[1], x[2])
  BY DEF IInv, RunsAreAuthorized, TypeOK
<1>2. \A d, b : Consented(d, b) => Consented(d, b)'
  BY ConsentStays
<1>3. ASSUME NEW x \in ran, worker'[x[1]].req = worker[x[1]].req
      PROVE  Allowed(x[1], x[2])'
  BY <1>1, <1>2, <1>3
<1>4. ASSUME ran' \subseteq ran, \A d \in Calls : worker'[d].req = worker[d].req
      PROVE  RunsAreAuthorized'
  BY <1>1, <1>3, <1>4 DEF RunsAreAuthorized
<1>5. ASSUME NEW c \in Calls, RunBinary(c) PROVE RunsAreAuthorized'
  <2>0. PICK b : b = worker[c].req.command[worker[c].pos]
    OBVIOUS
  <2>1. \A d \in Calls : worker'[d].req = worker[d].req
    BY <1>5, WorkerFrame
  <2>2. CASE b \in whitelist
    <3>1. worker[c].pc = "run" /\ b \in BinariesOf(worker[c].req.command)
      BY <1>5, <2>0 DEF RunBinary, BinariesOf
    <3>2. CallInv(c)
      BY DEF IInv, CallsInv
    <3>3. worker[c].req.always => Consented(c, b)
      BY <3>1, <3>2 DEF CallInv, PastApproval
    <3>4. b \in Listed \/ \E d \in Calls : Consented(d, b)
      BY <2>2 DEF IInv, WhitelistConsented
    <3>5. Allowed(c, b)'
      BY <3>3, <3>4, <1>2, <2>1
    <3>6. ran' \subseteq ran \cup {<<c, b>>}
      BY <1>5, <2>0 DEF RunBinary
    <3>7. \A x \in ran : Allowed(x[1], x[2])'
      BY <1>1, <1>3, <2>1
    <3>. QED  BY <3>5, <3>6, <3>7 DEF RunsAreAuthorized
  <2>3. CASE b \notin whitelist
    <3>1. ran' = ran
      BY <1>5, <2>0, <2>3 DEF RunBinary
    <3>. QED  BY <1>4, <2>1, <3>1
  <2>. QED  BY <2>2, <2>3
<1>6. ASSUME NEW c \in Calls, WorkerStep(c) \/ ExitCommand(c) PROVE RunsAreAuthorized'
  <2>1. \A d \in Calls : worker'[d].req = worker[d].req
    BY <1>6, WorkerFrame
  <2>2. ran' = ran
    BY <1>6
    DEF WorkerStep, Prepare, PrepareRejects, Register, ListQuestion, PutQuestion,
        Answered, CheckToken, FetchToken, ClearToken, EnrollToken, EnrollFails,
        StoreToken, KillCommand, ExitCommand
  <2>. QED  BY <1>4, <2>1, <2>2
<1>7. ASSUME NEW c \in Calls, NEW req \in Requests, StartCall(c, req)
      PROVE  RunsAreAuthorized'
  <2>1. worker[c].pc = "new"
    BY <1>7 DEF IInv, CallsInv, CallInv, StartCall
  <2>2. \A x \in ran : x[1] # c
    <3>1. \A b \in Binaries : <<c, b>> \notin ran
      BY <2>1 DEF IInv, CallsInv, CallInv
    <3>2. ran \subseteq Calls \X Binaries
      BY DEF TypeOK
    <3>. QED  BY <3>1, <3>2
  <2>3. \A d \in Calls : d # c => worker'[d].req = worker[d].req
    BY <1>7 DEF StartCall, TypeOK
  <2>4. ran' = ran
    BY <1>7 DEF StartCall
  <2>5. \A x \in ran : Allowed(x[1], x[2])'
    BY <1>1, <1>3, <2>2, <2>3
  <2>. QED  BY <2>4, <2>5 DEF RunsAreAuthorized
<1>8. ASSUME NEW c \in Calls, LoopStep(c) PROVE RunsAreAuthorized'
  BY <1>4, <1>8, LoopFrame
<1>9. ASSUME NEW c \in Calls,
             \/ ClientReceive(c) \/ ClientEof(c) \/ ClientClose(c) \/ ClientGiveUp(c)
             \/ \E yes \in BOOLEAN : ClientAnswer(c, yes)
      PROVE  RunsAreAuthorized'
  BY <1>4, <1>9, ClientFrame
<1>10. CASE \/ Authenticate
            \/ \E t \in live : TokenDies(t)
            \/ \E b \in Unlistable : Unlist(b)
  BY <1>4, <1>10 DEF Authenticate, TokenDies, Unlist
<1>11. CASE ReplyStep
  <2>1. PICK r \in replies : HandleReply(r) \/ HandleReplyFails(r)
    BY <1>11 DEF ReplyStep
  <2>2. r.q.call \in Calls
    BY DEF TypeOK, Reply, Question
  <2>. QED  BY <1>4, <1>11, <2>2, LoopFrame
<1>. QED  BY <1>5, <1>6, <1>7, <1>8, <1>9, <1>10, <1>11 DEF Next

\* A reply resolves exactly the question the user answered.
LEMMA FoundIsAnswered ==
  ASSUME TypeOK, IInv, NEW r \in replies, NEW p \in pending, p.id = r.q.id
  PROVE  p = r.q /\ r.q.call \in Calls /\ r \in replied /\ r = [q |-> p, yes |-> r.yes]
<1>1. p = r.q
  BY DEF IInv, Circulating, IdsUnique
<1>. QED  BY <1>1 DEF IInv, Circulating, TypeOK, Reply, Question

LEMMA AnswersStep ==
  ASSUME TypeOK, IInv, Next
  PROVE  AnswersAreOwn'
<1> USE DEF past, auth, shared
<1> DEFINE Own(d) == worker[d].answer = "yes" => [q |-> worker[d].q, yes |-> TRUE] \in replied
<1>1. \A d \in Calls : Own(d)
  BY DEF IInv, AnswersAreOwn
<1>2. ASSUME NEW d \in Calls, worker'[d].answer = worker[d].answer,
             worker'[d].q = worker[d].q
      PROVE  Own(d)'
  BY <1>1, <1>2, RepliedGrows
<1>3. ASSUME NEW d \in Calls, worker'[d].answer # "yes" PROVE Own(d)'
  BY <1>3
<1>4. ASSUME NEW c \in Calls, WorkerStep(c) \/ RunBinary(c) \/ ExitCommand(c)
      PROVE  AnswersAreOwn'
  <2>1. \A d \in Calls : d # c => Own(d)'
    BY <1>2, <1>4, WorkerFrame
  <2>2. Own(c)'
    <3> USE DEF TypeOK
    <3>1. ASSUME NEW l, Goto(c, l) PROVE Own(c)'
      BY <1>2, <3>1 DEF Goto, Worker
    <3>2. ASSUME NEW k, NEW b, Ask(c, k, b) PROVE Own(c)'
      BY <1>3, <3>2 DEF Ask, Worker
    <3>3. CASE \/ Prepare(c) \/ PrepareRejects(c) \/ ListQuestion(c) \/ PutQuestion(c)
               \/ CheckToken(c) \/ EnrollFails(c) \/ KillCommand(c) \/ ExitCommand(c)
               \/ ClearToken(c) \/ StoreToken(c)
      <4> HIDE DEF Own, TypeOK
      <4>. QED
        BY <3>1, <3>2, <3>3
        DEF Prepare, PrepareRejects, ListQuestion, PutQuestion, CheckToken,
            EnrollFails, KillCommand, ExitCommand, ClearToken, StoreToken, Finish
    <3>4. CASE Register(c)
      <4>1. worker[c].pc = "register" /\ worker[c].answer # "yes"
        BY <3>4 DEF Register, IInv, CallsInv, CallInv
      <4>2. CASE worker[c].req.emit
        <5>1. worker' = [worker EXCEPT ![c] = [@ EXCEPT !.pc = "list",
                           !.q = [worker[c].q EXCEPT !.id = nextSeq]]]
          BY <3>4, <4>2 DEF Register
        <5>. QED  BY <1>3, <4>1, <5>1 DEF Worker
      <4>3. CASE ~worker[c].req.emit
        <5>1. worker' = [worker EXCEPT ![c] =
                           [@ EXCEPT !.pc = "wait", !.answer = "no"]]
          BY <3>4, <4>3 DEF Register
        <5>. QED  BY <1>3, <5>1 DEF Worker
      <4>. QED  BY <4>2, <4>3
    <3>5. CASE Answered(c)
      <4>1. CASE worker' = [worker EXCEPT ![c] =
                              [@ EXCEPT !.pc = "prepare", !.granted = TRUE]]
        BY <1>2, <4>1 DEF Worker
      <4>2. CASE Finish(c) \/ Goto(c, "enroll")
        BY <3>1, <4>2 DEF Finish
      <4>. QED  BY <3>5, <4>1, <4>2 DEF Answered
    <3>6. CASE FetchToken(c)
      <4>1. CASE worker' = [worker EXCEPT ![c] =
                              [@ EXCEPT !.pc = "run", !.held = cached]]
        BY <1>2, <4>1 DEF Worker
      <4>. QED  BY <3>1, <3>6, <4>1 DEF FetchToken, Finish
    <3>7. CASE EnrollToken(c)
      BY <1>2, <3>7 DEF EnrollToken, Worker
    <3>8. CASE RunBinary(c)
      <4>1. worker' = [worker EXCEPT ![c].pos = worker[c].pos + 1]
        BY <3>8 DEF RunBinary
      <4>. QED  BY <1>2, <4>1 DEF Worker
    <3>. QED  BY <1>4, <3>3, <3>4, <3>5, <3>6, <3>7, <3>8 DEF WorkerStep
  <2>. QED  BY <2>1, <2>2 DEF AnswersAreOwn
<1>5. ASSUME NEW r \in replies, HandleReply(r) PROVE AnswersAreOwn'
  <2> DEFINE found == {p \in pending : p.id = r.q.id}
             a == IF r.yes THEN "yes" ELSE "no"
  <2>1. worker' = Answer(found, a)
    BY <1>5 DEF HandleReply
  <2>2. ASSUME NEW d \in Calls PROVE Own(d)'
    <3>1. CASE \E p \in found : p.call = d
      <4>1. PICK p \in found : p.call = d
        BY <3>1
      <4>2. worker[d].q = p
        BY <4>1 DEF IInv, PendingIsAwaited
      <4>3. worker'[d] = [worker[d] EXCEPT !.answer = a]
        BY <2>1, <3>1 DEF Answer
      <4>4. worker'[d].q = p /\ worker'[d].answer = a
        BY <4>2, <4>3 DEF TypeOK, Worker
      <4>5. r \in replied /\ r = [q |-> p, yes |-> r.yes] /\ r.yes \in BOOLEAN
        BY <4>1, FoundIsAnswered DEF TypeOK, Reply
      <4>6. CASE r.yes
        <5>1. r = [q |-> p, yes |-> TRUE]
          BY <4>5, <4>6
        <5>. QED  BY <4>4, <4>5, <5>1, RepliedGrows
      <4>7. CASE ~r.yes
        BY <4>4, <4>7
      <4>. QED  BY <4>6, <4>7
    <3>2. CASE ~ \E p \in found : p.call = d
      BY <1>2, <2>1, <3>2 DEF Answer
    <3>. QED  BY <3>1, <3>2
  <2>. QED  BY <2>2 DEF AnswersAreOwn
<1>6. ASSUME NEW found, NEW a \in {"no", "lost"}, worker' = Answer(found, a)
      PROVE  AnswersAreOwn'
  <2>1. ASSUME NEW d \in Calls PROVE Own(d)'
    <3>1. \/ worker'[d] = [worker[d] EXCEPT !.answer = a]
          \/ worker'[d] = worker[d]
      BY <1>6 DEF Answer
    <3>. QED  BY <1>2, <1>3, <3>1 DEF TypeOK, Worker
  <2>. QED  BY <2>1 DEF AnswersAreOwn
<1>7. ASSUME UNCHANGED worker PROVE AnswersAreOwn'
  BY <1>2, <1>7 DEF AnswersAreOwn
<1>8. ASSUME NEW c \in Calls, NEW req \in Requests, StartCall(c, req)
      PROVE  AnswersAreOwn'
  <2>1. worker' = [worker EXCEPT ![c] = [@ EXCEPT !.pc = "prepare", !.req = req]]
    BY <1>8 DEF StartCall
  <2>2. \A d \in Calls : worker'[d].answer = worker[d].answer /\ worker'[d].q = worker[d].q
    BY <2>1 DEF TypeOK, Worker
  <2>. QED  BY <1>2, <2>2 DEF AnswersAreOwn
<1>9. ASSUME NEW r \in replies, HandleReplyFails(r) PROVE AnswersAreOwn'
  BY <1>6, <1>9 DEF HandleReplyFails
<1>12. ASSUME NEW c \in Calls, ServeDisconnect(c) PROVE AnswersAreOwn'
  BY <1>6, <1>12 DEF ServeDisconnect
<1>10. ASSUME NEW c \in Calls, ServeEvent(c) \/ ServeCancelled(c) PROVE AnswersAreOwn'
  BY <1>7, <1>10 DEF ServeEvent, ServeCancelled
<1>11. CASE \/ Authenticate
            \/ \E t \in live : TokenDies(t)
            \/ \E b \in Unlistable : Unlist(b)
  BY <1>7, <1>11 DEF Authenticate, TokenDies, Unlist
<1>. QED
  BY <1>4, <1>5, <1>7, <1>8, <1>9, <1>10, <1>11, <1>12, ClientFrame
  DEF Next, ReplyStep, LoopStep

\* A worker whose question is pending stays blocked until it is resolved.
LEMMA PendingStep ==
  ASSUME TypeOK, IInv, Next
  PROVE  PendingIsAwaited'
<1> USE DEF past, auth, shared
<1> DEFINE Awaited(p) == Waiting(p.call) /\ worker[p.call].q = p
<1>1. \A p \in pending : p.call \in Calls /\ Awaited(p)
  BY DEF IInv, PendingIsAwaited, TypeOK, Question
<1>2. ASSUME pending' \subseteq pending, UNCHANGED worker PROVE PendingIsAwaited'
  BY <1>1, <1>2 DEF PendingIsAwaited, Waiting
<1>3. ASSUME NEW c \in Calls, WorkerStep(c) \/ RunBinary(c) \/ ExitCommand(c),
             pending' \subseteq pending, ~Waiting(c)
      PROVE  PendingIsAwaited'
  BY <1>1, <1>3, WorkerFrame DEF PendingIsAwaited, Waiting
<1>4. ASSUME NEW c \in Calls,
             \/ Prepare(c) \/ PrepareRejects(c) \/ CheckToken(c) \/ FetchToken(c)
             \/ ClearToken(c) \/ EnrollToken(c) \/ EnrollFails(c) \/ StoreToken(c)
             \/ KillCommand(c) \/ RunBinary(c) \/ ExitCommand(c) \/ Answered(c)
      PROVE  PendingIsAwaited'
  <2>1. ~Waiting(c)
    BY <1>4
    DEF Waiting, Prepare, PrepareRejects, CheckToken, FetchToken, ClearToken,
        EnrollToken, EnrollFails, StoreToken, KillCommand, RunBinary,
        ExitCommand, Answered
  <2>2. pending' = pending
    BY <1>4
    DEF Prepare, PrepareRejects, CheckToken, FetchToken, ClearToken,
        EnrollToken, EnrollFails, StoreToken, KillCommand, RunBinary,
        ExitCommand, Answered
  <2>. QED  BY <1>3, <1>4, <2>1, <2>2 DEF WorkerStep
<1>5. ASSUME NEW c \in Calls, ListQuestion(c) \/ PutQuestion(c)
      PROVE  PendingIsAwaited'
  <2>1. PICK l \in {"put", "wait"} : Goto(c, l)
    BY <1>5 DEF ListQuestion, PutQuestion
  <2>2. pending' = pending
    BY <1>5 DEF ListQuestion, PutQuestion
  <2>3. \A d \in Calls : /\ worker'[d].answer = worker[d].answer
                         /\ worker'[d].q = worker[d].q
                         /\ worker'[d].pc = worker[d].pc \/ worker'[d].pc = l
    BY <2>1 DEF Goto, TypeOK, Worker
  <2>. QED  BY <1>1, <2>2, <2>3 DEF PendingIsAwaited, Waiting
<1>6. ASSUME NEW c \in Calls, Register(c) PROVE PendingIsAwaited'
  <2>1. worker[c].pc = "register" /\ worker[c].answer = "none" /\ worker[c].q.call = c
    BY <1>6 DEF Register, IInv, CallsInv, CallInv
  <2>2. CASE ~worker[c].req.emit
    BY <1>3, <1>6, <2>1, <2>2 DEF Register, Waiting, WorkerStep
  <2>3. CASE worker[c].req.emit
    <3>0. PICK q : q = [worker[c].q EXCEPT !.id = nextSeq]
      OBVIOUS
    <3>1. /\ worker' = [worker EXCEPT ![c] = [@ EXCEPT !.pc = "list", !.q = q]]
          /\ pending' \subseteq pending \cup {q}
      BY <1>6, <2>3, <3>0 DEF Register
    <3>2. q.call = c
      BY <2>1, <3>0 DEF TypeOK, Worker, Question
    <3>3. \A p \in pending : p.call # c
      BY <1>1, <2>1 DEF Waiting
    <3>4. worker'[c].pc = "list" /\ worker'[c].q = q /\ worker'[c].answer = "none"
      BY <3>1, <2>1 DEF TypeOK, Worker
    <3>5. Awaited(q)'
      BY <3>2, <3>4 DEF Waiting
    <3>6. \A p \in pending : Awaited(p)'
      BY <1>1, <3>1, <3>3 DEF Waiting, TypeOK
    <3>. QED  BY <3>1, <3>5, <3>6 DEF PendingIsAwaited, Waiting
  <2>. QED  BY <2>2, <2>3
<1>7. ASSUME NEW found \in SUBSET pending, NEW a, worker' = Answer(found, a),
             pending' = pending \ found
      PROVE  PendingIsAwaited'
  <2>1. SUFFICES ASSUME NEW p \in pending, p \notin found PROVE Awaited(p)'
    BY <1>7 DEF PendingIsAwaited
  <2>2. ~ \E x \in found : x.call = p.call
    BY <1>1, <2>1
  <2>3. worker'[p.call] = worker[p.call]
    BY <1>1, <1>7, <2>2 DEF Answer
  <2>. QED  BY <1>1, <2>3 DEF Waiting
<1>8. ASSUME NEW r \in replies, HandleReply(r) PROVE PendingIsAwaited'
  BY <1>7, <1>8 DEF HandleReply
<1>9. ASSUME NEW c \in Calls, ServeDisconnect(c) PROVE PendingIsAwaited'
  BY <1>7, <1>9 DEF ServeDisconnect
<1>10. ASSUME NEW r \in replies, HandleReplyFails(r) PROVE PendingIsAwaited'
  BY <1>7, <1>10 DEF HandleReplyFails
<1>11. ASSUME NEW c \in Calls, ServeEvent(c) \/ ServeCancelled(c)
       PROVE  PendingIsAwaited'
  BY <1>2, <1>11 DEF ServeEvent, ServeCancelled
<1>12. ASSUME NEW c \in Calls, NEW req \in Requests, StartCall(c, req)
       PROVE  PendingIsAwaited'
  <2>1. worker[c].pc = "new"
    BY <1>12 DEF IInv, CallsInv, CallInv, StartCall
  <2>2. \A p \in pending : p.call # c
    BY <1>1, <2>1 DEF Waiting
  <2>3. pending' = pending /\ \A d \in Calls : d # c => worker'[d] = worker[d]
    BY <1>12 DEF StartCall, TypeOK
  <2>. QED  BY <1>1, <2>2, <2>3 DEF PendingIsAwaited, Waiting
<1>13. CASE \/ Authenticate
            \/ \E t \in live : TokenDies(t)
            \/ \E b \in Unlistable : Unlist(b)
  BY <1>2, <1>13 DEF Authenticate, TokenDies, Unlist
<1>. QED
  BY <1>2, <1>4, <1>5, <1>6, <1>8, <1>9, <1>10, <1>11, <1>12, <1>13, ClientFrame
  DEF Next, WorkerStep, ReplyStep, LoopStep

\* Registered questions stay registered.
LEMMA AskedGrows ==
  ASSUME TypeOK, Next
  PROVE  asked \subseteq asked'
<1>1. ASSUME NEW c \in Calls, Register(c) PROVE asked \subseteq asked'
  BY <1>1 DEF Register
<1>. QED  BY <1>1, OnlyRegister

LEMMA PendingAsked ==
  ASSUME TypeOK, IInv, Next
  PROVE  pending' \subseteq asked'
<1> USE DEF past, auth, shared
<1>1. pending \subseteq asked
  BY DEF IInv, Circulating
<1>2. ASSUME pending' \subseteq pending PROVE pending' \subseteq asked'
  BY <1>1, <1>2, AskedGrows
<1>3. ASSUME NEW c \in Calls,
             \/ Prepare(c) \/ PrepareRejects(c) \/ CheckToken(c) \/ FetchToken(c)
             \/ ClearToken(c) \/ EnrollToken(c) \/ EnrollFails(c) \/ StoreToken(c)
             \/ KillCommand(c) \/ RunBinary(c) \/ ExitCommand(c) \/ Answered(c)
             \/ ListQuestion(c) \/ PutQuestion(c)
      PROVE  pending' \subseteq pending
  BY <1>3
  DEF Prepare, PrepareRejects, CheckToken, FetchToken, ClearToken, EnrollToken,
      EnrollFails, StoreToken, KillCommand, RunBinary, ExitCommand, Answered,
      ListQuestion, PutQuestion
<1>4. ASSUME NEW c \in Calls, Register(c) PROVE pending' \subseteq asked'
  BY <1>1, <1>4 DEF Register
<1>5. ASSUME NEW c \in Calls,
             LoopStep(c) \/ ReplyStep \/ \E req \in Requests : StartCall(c, req)
      PROVE  pending' \subseteq pending
  BY <1>5
  DEF LoopStep, ServeEvent, ServeDisconnect, ServeCancelled, ReplyStep,
      HandleReply, HandleReplyFails, StartCall
<1>6. CASE \/ ReplyStep \/ Authenticate
           \/ \E t \in live : TokenDies(t)
           \/ \E b \in Unlistable : Unlist(b)
  BY <1>2, <1>6
  DEF ReplyStep, HandleReply, HandleReplyFails, Authenticate, TokenDies, Unlist
<1>. QED  BY <1>2, <1>3, <1>4, <1>5, <1>6, ClientFrame DEF Next, WorkerStep

LEMMA RepliesAsked ==
  ASSUME TypeOK, IInv, Next
  PROVE  \A r \in replies' : r \in replied' /\ r.q \in asked'
<1> USE DEF past, auth, shared
<1>1. \A r \in replies : r \in replied /\ r.q \in asked
  BY DEF IInv, Circulating
<1>2. ASSUME replies' \subseteq replies
      PROVE  \A r \in replies' : r \in replied' /\ r.q \in asked'
  BY <1>1, <1>2, AskedGrows, RepliedGrows
<1>3. ASSUME NEW c \in Calls, NEW yes \in BOOLEAN, ClientAnswer(c, yes)
      PROVE  \A r \in replies' : r \in replied' /\ r.q \in asked'
  <2>1. client[c].phase = "asking"
    BY <1>3 DEF ClientAnswer
  <2>2. client[c].q \in asked
    BY <2>1 DEF IInv, Circulating, ClientCarries
  <2>. QED  BY <1>1, <1>3, <2>2 DEF ClientAnswer
<1>4. CASE \/ ReplyStep \/ Authenticate
           \/ \E t \in live : TokenDies(t)
           \/ \E b \in Unlistable : Unlist(b)
  BY <1>2, <1>4
  DEF ReplyStep, HandleReply, HandleReplyFails, Authenticate, TokenDies, Unlist
<1>5. ASSUME NEW c \in Calls,
             \/ LoopStep(c) \/ \E req \in Requests : StartCall(c, req)
             \/ ClientReceive(c) \/ ClientEof(c) \/ ClientClose(c) \/ ClientGiveUp(c)
      PROVE  replies' = replies
  BY <1>5
  DEF LoopStep, ServeEvent, ServeDisconnect, ServeCancelled, StartCall,
      ClientReceive, ClientEof, ClientClose, ClientGiveUp
<1>. QED  BY <1>2, <1>3, <1>4, <1>5, WorkerFrame DEF Next

LEMMA WorkerCarriesStep ==
  ASSUME TypeOK, IInv, Next, NEW d \in Calls
  PROVE  WorkerCarries(d)'
<1> USE DEF past, auth, shared
<1>1. WorkerCarries(d)
  BY DEF IInv, Circulating
<1>2. ASSUME worker'[d].q = worker[d].q,
             worker'[d].pc \notin {"list", "put"} \/ worker'[d].pc = worker[d].pc
      PROVE  WorkerCarries(d)'
  BY <1>1, <1>2, AskedGrows DEF WorkerCarries
<1>3. ASSUME worker'[d].pc \notin {"list", "put"} PROVE WorkerCarries(d)'
  BY <1>3 DEF WorkerCarries
<1>4. ASSUME NEW c \in Calls, c # d, WorkerStep(c) \/ RunBinary(c) \/ ExitCommand(c)
      PROVE  WorkerCarries(d)'
  BY <1>2, <1>4, WorkerFrame
<1>5. ASSUME NEW l, Goto(d, l), l \notin {"list", "put"} PROVE WorkerCarries(d)'
  BY <1>3, <1>5 DEF Goto, TypeOK, Worker
<1>6. ASSUME NEW k, NEW b, Ask(d, k, b) PROVE WorkerCarries(d)'
  BY <1>3, <1>6 DEF Ask, TypeOK, Worker
<1>7. CASE \/ Prepare(d) \/ PrepareRejects(d) \/ CheckToken(d) \/ EnrollFails(d)
           \/ KillCommand(d) \/ ExitCommand(d) \/ ClearToken(d) \/ StoreToken(d)
  BY <1>5, <1>6, <1>7
  DEF Prepare, PrepareRejects, CheckToken, EnrollFails, KillCommand, ExitCommand,
      ClearToken, StoreToken, Finish
<1>8. CASE Register(d)
  <2>1. CASE worker[d].req.emit
    <3>0. PICK q : q = [worker[d].q EXCEPT !.id = nextSeq]
      OBVIOUS
    <3>1. /\ worker' = [worker EXCEPT ![d] = [@ EXCEPT !.pc = "list", !.q = q]]
          /\ q \in asked'
      BY <1>8, <2>1, <3>0 DEF Register
    <3>. QED  BY <3>1 DEF WorkerCarries, TypeOK, Worker
  <2>2. CASE ~worker[d].req.emit
    <3>1. worker' = [worker EXCEPT ![d] = [@ EXCEPT !.pc = "wait", !.answer = "no"]]
      BY <1>8, <2>2 DEF Register
    <3>. QED  BY <1>3, <3>1 DEF TypeOK, Worker
  <2>. QED  BY <2>1, <2>2
<1>9. CASE ListQuestion(d)
  <2>1. worker[d].q \in asked
    BY <1>1, <1>9 DEF ListQuestion, WorkerCarries
  <2>2. worker'[d].q = worker[d].q
    BY <1>9 DEF ListQuestion, Goto, TypeOK, Worker
  <2>. QED  BY <2>1, <2>2, AskedGrows DEF WorkerCarries
<1>10. CASE PutQuestion(d)
  BY <1>5, <1>10 DEF PutQuestion
<1>11. CASE Answered(d)
  <2>1. CASE worker' = [worker EXCEPT ![d] =
                          [@ EXCEPT !.pc = "prepare", !.granted = TRUE]]
    BY <1>3, <2>1 DEF TypeOK, Worker
  <2>. QED  BY <1>5, <1>11, <2>1 DEF Answered, Finish
<1>12. CASE FetchToken(d)
  <2>1. CASE worker' = [worker EXCEPT ![d] = [@ EXCEPT !.pc = "run", !.held = cached]]
    BY <1>3, <2>1 DEF TypeOK, Worker
  <2>. QED  BY <1>5, <1>12, <2>1 DEF FetchToken, Finish
<1>13. CASE EnrollToken(d)
  BY <1>3, <1>13 DEF EnrollToken, TypeOK, Worker
<1>14. CASE RunBinary(d)
  <2>1. worker' = [worker EXCEPT ![d].pos = worker[d].pos + 1]
    BY <1>14 DEF RunBinary
  <2>. QED  BY <1>2, <2>1 DEF TypeOK, Worker
<1>15. ASSUME NEW c \in Calls, NEW req \in Requests, StartCall(c, req)
       PROVE  WorkerCarries(d)'
  <2>1. worker' = [worker EXCEPT ![c] = [@ EXCEPT !.pc = "prepare", !.req = req]]
    BY <1>15 DEF StartCall
  <2>2. /\ worker'[d].pc = worker[d].pc \/ worker'[d].pc = "prepare"
        /\ worker'[d].q = worker[d].q
    BY <2>1 DEF TypeOK, Worker
  <2>. QED  BY <1>2, <2>2
<1>16. CASE ReplyStep \/ \E c \in Calls : LoopStep(c)
  BY <1>2, <1>16, LoopFrame
<1>17. CASE \/ Authenticate
            \/ \E t \in live : TokenDies(t)
            \/ \E b \in Unlistable : Unlist(b)
  BY <1>2, <1>17, ClientFrame
<1>. QED
  BY <1>2, <1>4, <1>7, <1>8, <1>9, <1>10, <1>11, <1>12, <1>13, <1>14, <1>15,
     <1>16, <1>17, ClientFrame
  DEF Next, WorkerStep

LEMMA ServeCarriesStep ==
  ASSUME TypeOK, IInv, Next, NEW d \in Calls
  PROVE  ServeCarries(d)'
<1> USE DEF past, auth, shared
<1>1. ServeCarries(d) /\ WorkerCarries(d)
  BY DEF IInv, Circulating
<1>2. ASSUME serve'[d].events = serve[d].events PROVE ServeCarries(d)'
  BY <1>1, <1>2, AskedGrows DEF ServeCarries
<1>3. ASSUME NEW c \in Calls, NEW t \in {"ask", "result"}, Put(c, t),
             t = "ask" => worker[c].q \in asked
      PROVE  ServeCarries(d)'
  <2>1. CASE c # d
    BY <1>2, <1>3, <2>1 DEF Put, TypeOK
  <2>2. CASE c = d
    <3>0. PICK e : e = [type |-> t, q |-> worker[d].q]
      OBVIOUS
    <3>1. serve[d].events \in Seq(Event) /\ e \in Event
      BY <3>0 DEF TypeOK, Serve, Event, Worker
    <3>2. serve'[d].events = Append(serve[d].events, e)
      BY <1>3, <2>2, <3>0 DEF Put, TypeOK, Serve
    <3>3. e.type = "ask" => e.q \in asked'
      BY <1>3, <2>2, <3>0, AskedGrows
    <3>4. ASSUME NEW i \in DOMAIN serve'[d].events,
                 serve'[d].events[i].type = "ask"
          PROVE  serve'[d].events[i].q \in asked'
      <4>1. CASE i = Len(serve[d].events) + 1
        BY <3>1, <3>2, <3>3, <3>4, <4>1
      <4>2. CASE i # Len(serve[d].events) + 1
        <5>1. /\ i \in DOMAIN serve[d].events
              /\ serve'[d].events[i] = serve[d].events[i]
          BY <3>1, <3>2, <3>4, <4>2
        <5>. QED  BY <1>1, <3>4, <5>1, AskedGrows DEF ServeCarries
      <4>. QED  BY <4>1, <4>2
    <3>. QED  BY <3>4 DEF ServeCarries
  <2>. QED  BY <2>1, <2>2
<1>4. ASSUME NEW c \in Calls,
             \/ Prepare(c) \/ PrepareRejects(c) \/ Answered(c) \/ CheckToken(c)
             \/ FetchToken(c) \/ EnrollFails(c) \/ KillCommand(c) \/ ExitCommand(c)
      PROVE  Put(c, "result") \/ UNCHANGED serve
  BY <1>4
  DEF Prepare, PrepareRejects, Answered, CheckToken, FetchToken, EnrollFails,
      KillCommand, ExitCommand, Finish
<1>5. ASSUME NEW c \in Calls,
             Register(c) \/ ClearToken(c) \/ EnrollToken(c) \/ StoreToken(c) \/ RunBinary(c)
      PROVE  UNCHANGED serve
  BY <1>5 DEF Register, ClearToken, EnrollToken, StoreToken, RunBinary
<1>6. ASSUME NEW c \in Calls, ListQuestion(c) PROVE ServeCarries(d)'
  BY <1>2, <1>6 DEF ListQuestion, TypeOK, Serve
<1>7. ASSUME NEW c \in Calls, PutQuestion(c) PROVE ServeCarries(d)'
  <2>1. worker[c].q \in asked
    BY <1>7 DEF PutQuestion, IInv, Circulating, WorkerCarries
  <2>. QED  BY <1>3, <1>7, <2>1 DEF PutQuestion
<1>8. ASSUME NEW c \in Calls, ServeEvent(c) PROVE ServeCarries(d)'
  <2>1. CASE c # d
    BY <1>2, <1>8, <2>1 DEF ServeEvent, TypeOK
  <2>2. CASE c = d
    <3>1. serve[d].events \in Seq(Event) /\ serve[d].events # <<>>
      BY <1>8, <2>2 DEF ServeEvent, TypeOK, Serve
    <3>2. serve'[d].events = Tail(serve[d].events)
      <4> DEFINE n == Tail(serve[c].events)
                 ph == IF Head(serve[c].events).type = "result"
                         THEN "closed" ELSE serve[c].phase
      <4>1. serve' = [serve EXCEPT ![c] = [@ EXCEPT !.events = n, !.phase = ph]]
        BY <1>8 DEF ServeEvent
      <4> HIDE DEF n, ph
      <4>2. serve'[c].events = n
        BY <4>1 DEF TypeOK, Serve
      <4>. QED  BY <2>2, <4>2 DEF n
    <3>3. \A i \in DOMAIN serve'[d].events :
            /\ i + 1 \in DOMAIN serve[d].events
            /\ serve'[d].events[i] = serve[d].events[i + 1]
      BY <3>1, <3>2
    <3>. QED  BY <1>1, <3>3, AskedGrows DEF ServeCarries
  <2>. QED  BY <2>1, <2>2
<1>9. ASSUME NEW c \in Calls, ServeDisconnect(c) \/ ServeCancelled(c)
      PROVE  ServeCarries(d)'
  <2>1. CASE ServeDisconnect(c)
    <3>1. serve' = [serve EXCEPT ![c] =
                      [@ EXCEPT !.phase = "cancelling", !.cancel = TRUE]]
      BY <2>1 DEF ServeDisconnect
    <3>. QED  BY <1>2, <3>1 DEF TypeOK, Serve
  <2>2. CASE ServeCancelled(c)
    BY <1>2, <2>2 DEF ServeCancelled, TypeOK, Serve
  <2>. QED  BY <1>9, <2>1, <2>2
<1>10. ASSUME NEW c \in Calls, NEW req \in Requests, StartCall(c, req)
       PROVE  ServeCarries(d)'
  BY <1>2, <1>10 DEF StartCall, TypeOK, Serve
<1>11. CASE ReplyStep
  BY <1>2, <1>11 DEF ReplyStep, HandleReply, HandleReplyFails
<1>12. CASE \/ Authenticate
            \/ \E t \in live : TokenDies(t)
            \/ \E b \in Unlistable : Unlist(b)
  BY <1>2, <1>12, ClientFrame
<1>. QED
  BY <1>2, <1>3, <1>4, <1>5, <1>6, <1>7, <1>8, <1>9, <1>10, <1>11, <1>12, ClientFrame
  DEF Next, WorkerStep, LoopStep

LEMMA ClientCarriesStep ==
  ASSUME TypeOK, IInv, Next, NEW d \in Calls
  PROVE  ClientCarries(d)'
<1> USE DEF past, auth, shared
<1>1. ClientCarries(d) /\ ServeCarries(d)
  BY DEF IInv, Circulating
<1>2. ASSUME client'[d].inbox = client[d].inbox, client'[d].q = client[d].q,
             client'[d].phase = "asking" => client[d].phase = "asking"
      PROVE  ClientCarries(d)'
  BY <1>1, <1>2, AskedGrows DEF ClientCarries
<1>3. ASSUME NEW c \in Calls, ServeEvent(c) PROVE ClientCarries(d)'
  <2>0. PICK e : e = Head(serve[c].events)
    OBVIOUS
  <2>1. CASE client' = client \/ c # d
    BY <1>2, <1>3, <2>1 DEF ServeEvent, TypeOK
  <2>2. CASE client' # client /\ c = d
    <3>1. client' = [client EXCEPT ![d].inbox = Append(client[d].inbox, e)]
      BY <1>3, <2>0, <2>2 DEF ServeEvent
    <3>2. serve[d].events \in Seq(Event) /\ serve[d].events # <<>>
      BY <1>3, <2>2 DEF ServeEvent, TypeOK, Serve
    <3>3. e = serve[d].events[1] /\ 1 \in DOMAIN serve[d].events /\ e \in Event
      BY <2>0, <2>2, <3>2
    <3>4. e.type = "ask" => e.q \in asked'
      BY <1>1, <3>3, AskedGrows DEF ServeCarries
    <3>5. client[d].inbox \in Seq(Event)
      BY DEF TypeOK, Client
    <3>6. /\ client'[d].inbox = Append(client[d].inbox, e)
          /\ client'[d].q = client[d].q /\ client'[d].phase = client[d].phase
      BY <3>1 DEF TypeOK, Client
    <3>7. ASSUME NEW i \in DOMAIN client'[d].inbox,
                 client'[d].inbox[i].type = "ask"
          PROVE  client'[d].inbox[i].q \in asked'
      <4>1. CASE i = Len(client[d].inbox) + 1
        BY <3>3, <3>4, <3>5, <3>6, <3>7, <4>1
      <4>2. CASE i # Len(client[d].inbox) + 1
        <5>1. /\ i \in DOMAIN client[d].inbox
              /\ client'[d].inbox[i] = client[d].inbox[i]
          BY <3>3, <3>5, <3>6, <3>7, <4>2
        <5>. QED  BY <1>1, <3>7, <5>1, AskedGrows DEF ClientCarries
      <4>. QED  BY <4>1, <4>2
    <3>. QED  BY <1>1, <3>6, <3>7, AskedGrows DEF ClientCarries
  <2>. QED  BY <2>1, <2>2
<1>4. ASSUME NEW c \in Calls, ClientReceive(c) PROVE ClientCarries(d)'
  <2>1. CASE c # d
    BY <1>2, <1>4, <2>1 DEF ClientReceive, TypeOK
  <2>2. CASE c = d
    <3>0. PICK e : e = Head(client[d].inbox)
      OBVIOUS
    <3>1. client[d].inbox \in Seq(Event) /\ client[d].inbox # <<>>
      BY <1>4, <2>2 DEF ClientReceive, TypeOK, Client
    <3>2. e = client[d].inbox[1] /\ 1 \in DOMAIN client[d].inbox /\ e \in Event
      BY <3>0, <3>1
    <3>3. /\ client'[d].inbox = Tail(client[d].inbox) /\ client'[d].q = e.q
          /\ client'[d].phase = "asking" => e.type = "ask"
      <4> DEFINE n == Tail(client[d].inbox)
                 k == e.q
                 ph == IF e.type = "ask" THEN "asking" ELSE "done"
      <4>1. client' = [client EXCEPT ![d] =
                         [@ EXCEPT !.inbox = n, !.q = k, !.phase = ph]]
        BY <1>4, <2>2, <3>0 DEF ClientReceive
      <4>2. ph = "asking" => e.type = "ask"
        OBVIOUS
      <4> HIDE DEF n, k, ph
      <4>3. client'[d].inbox = n /\ client'[d].q = k /\ client'[d].phase = ph
        BY <4>1 DEF TypeOK, Client
      <4>. QED  BY <4>2, <4>3 DEF n, k
    <3>4. \A i \in DOMAIN client'[d].inbox :
            /\ i + 1 \in DOMAIN client[d].inbox
            /\ client'[d].inbox[i] = client[d].inbox[i + 1]
      BY <3>1, <3>3
    <3>5. e.type = "ask" => e.q \in asked'
      BY <1>1, <3>2, AskedGrows DEF ClientCarries
    <3>. QED  BY <1>1, <3>3, <3>4, <3>5, AskedGrows DEF ClientCarries
  <2>. QED  BY <2>1, <2>2
<1>5. ASSUME NEW c \in Calls,
             \/ ClientEof(c) \/ ClientClose(c) \/ ClientGiveUp(c)
             \/ \E yes \in BOOLEAN : ClientAnswer(c, yes)
      PROVE  ClientCarries(d)'
  <2>1. \/ \E l \in {"done", "responding"} : client' = [client EXCEPT ![c].phase = l]
        \/ client' = [client EXCEPT ![c].closed = TRUE]
    BY <1>5 DEF ClientEof, ClientClose, ClientGiveUp, ClientAnswer
  <2>2. ASSUME NEW l \in {"done", "responding"}, client' = [client EXCEPT ![c].phase = l]
        PROVE  ClientCarries(d)'
    BY <1>2, <2>2 DEF TypeOK, Client
  <2>3. CASE client' = [client EXCEPT ![c].closed = TRUE]
    BY <1>2, <2>3 DEF TypeOK, Client
  <2>. QED  BY <2>1, <2>2, <2>3
<1>6. ASSUME NEW r \in replies, ReplyRead(r) PROVE ClientCarries(d)'
  <2>1. PICK l : l = IF client[r.q.call].phase = "responding"
                       THEN "waiting" ELSE client[r.q.call].phase
    OBVIOUS
  <2>2. client' = [client EXCEPT ![r.q.call].phase = l]
    BY <1>6, <2>1 DEF ReplyRead
  <2>3. /\ client'[d].inbox = client[d].inbox /\ client'[d].q = client[d].q
        /\ client'[d].phase = client[d].phase \/ (d = r.q.call /\ client'[d].phase = l)
    BY <2>2 DEF TypeOK, Client
  <2>. QED  BY <1>2, <2>1, <2>3
<1>7. CASE ReplyStep
  BY <1>6, <1>7 DEF ReplyStep, HandleReply, HandleReplyFails
<1>8. ASSUME NEW c \in Calls, ServeDisconnect(c) \/ ServeCancelled(c)
      PROVE  ClientCarries(d)'
  BY <1>2, <1>8 DEF ServeDisconnect, ServeCancelled
<1>9. ASSUME NEW c \in Calls, NEW req \in Requests, StartCall(c, req)
      PROVE  ClientCarries(d)'
  BY <1>2, <1>9 DEF StartCall, TypeOK, Client
<1>10. CASE \/ Authenticate
            \/ \E t \in live : TokenDies(t)
            \/ \E b \in Unlistable : Unlist(b)
  BY <1>2, <1>10 DEF Authenticate, TokenDies, Unlist
<1>11. ASSUME NEW c \in Calls, WorkerStep(c) \/ RunBinary(c) \/ ExitCommand(c)
       PROVE  ClientCarries(d)'
  BY <1>2, <1>11, WorkerFrame
<1>. QED
  BY <1>3, <1>4, <1>5, <1>7, <1>8, <1>9, <1>10, <1>11 DEF Next, LoopStep

\* CallInv speaks of one call: what does not touch it preserves it.
LEMMA CallInvFrame ==
  ASSUME TypeOK, IInv, Next, NEW d \in Calls,
         /\ worker'[d].pc = worker[d].pc /\ worker'[d].q = worker[d].q
         /\ worker'[d].req = worker[d].req
         /\ worker'[d].granted = worker[d].granted,
         worker'[d].answer = worker[d].answer \/ worker[d].pc # "register",
         client'[d].phase = "idle" => client[d].phase = "idle",
         \A b \in Binaries : <<d, b>> \in ran' => <<d, b>> \in ran
  PROVE  CallInv(d)'
<1>1. CallInv(d)
  BY DEF IInv, CallsInv
<1>2. \A b : Consented(d, b) => Consented(d, b)'
  BY ConsentStays
<1>. QED  BY <1>1, <1>2 DEF CallInv, PastApproval

\* The steps that leave question, request and grant of their worker alone and
\* do not begin to ask: they end the call or lead on past an approval.
LEMMA CallInvGoto ==
  ASSUME TypeOK, IInv, Next, NEW d \in Calls, worker[d].pc # "new",
         /\ worker'[d].q = worker[d].q
         /\ worker'[d].req = worker[d].req
         /\ worker'[d].granted = worker[d].granted,
         \/ worker'[d].pc = "done"
         \/ PastApproval(d) /\ PastApproval(d)' /\ worker'[d].pc \notin AskLabel
         \/ /\ worker[d].pc \in AskLabel /\ worker'[d].pc \in AskLabel
            /\ worker'[d].pc # "register",
         client'[d].phase = "idle" => client[d].phase = "idle"
  PROVE  CallInv(d)'
<1>1. CallInv(d)
  BY DEF IInv, CallsInv
<1>2. \A b : Consented(d, b) => Consented(d, b)'
  BY ConsentStays
<1>3. client[d].phase # "idle" /\ worker'[d].pc # "new"
  BY <1>1 DEF CallInv, PastApproval, AskLabel
<1>. QED  BY <1>1, <1>2, <1>3 DEF CallInv, PastApproval, AskLabel

LEMMA CallInvOwnStep ==
  ASSUME TypeOK, IInv, Next, NEW c \in Calls,
         WorkerStep(c) \/ RunBinary(c) \/ ExitCommand(c)
  PROVE  CallInv(c)'
<1> USE DEF past, auth, shared
<1>1. CallInv(c) /\ UNCHANGED client
  BY WorkerFrame DEF IInv, CallsInv
<1>2. \A b : Consented(c, b) => Consented(c, b)'
  BY ConsentStays
<1>3. ASSUME NEW l, Goto(c, l)
      PROVE  /\ worker'[c].pc = l /\ worker'[c].q = worker[c].q
             /\ worker'[c].req = worker[c].req
             /\ worker'[c].granted = worker[c].granted
  BY <1>3 DEF Goto, TypeOK, Worker
<1>4. ASSUME Finish(c), worker[c].pc # "new" PROVE CallInv(c)'
  BY <1>1, <1>3, <1>4, CallInvGoto DEF Finish
<1>5. ASSUME NEW k \in {"approval", "auth"}, NEW b \in SUBSET Binaries, Ask(c, k, b),
             k = "approval" /\ worker[c].req.always
               => b = BinariesOf(worker[c].req.command),
             k = "auth" => PastApproval(c), worker[c].pc # "new"
      PROVE  CallInv(c)'
  <2>0. PICK q : q = [id |-> 0, call |-> c, kind |-> k, bins |-> b]
    OBVIOUS
  <2>1. worker' = [worker EXCEPT ![c] = [@ EXCEPT !.pc = "register",
                     !.answer = "none", !.seen = worker[c].seen \cup b, !.q = q]]
    BY <1>5, <2>0 DEF Ask
  <2>2. /\ worker'[c].pc = "register" /\ worker'[c].answer = "none"
        /\ worker'[c].q = q /\ worker'[c].req = worker[c].req
        /\ worker'[c].granted = worker[c].granted
    <3>0. PICK n : n = worker[c].seen \cup b
      OBVIOUS
    <3>. QED  BY <2>1, <3>0 DEF TypeOK, Worker
  <2>3. q.call = c /\ q.kind = k /\ q.bins = b
    BY <2>0
  <2>4. client[c].phase # "idle"
    BY <1>1, <1>5 DEF CallInv
  <2>. QED
    BY <1>1, <1>2, <1>5, <2>2, <2>3, <2>4 DEF CallInv, PastApproval, AskLabel
<1>6. CASE Prepare(c)
  <2>1. worker[c].pc = "prepare" /\ Missing(c) \subseteq Binaries
    BY <1>6, MissingTyped DEF Prepare
  <2>2. CASE Missing(c) = {} /\ (Goto(c, "run") \/ Goto(c, "token"))
    <3>1. worker[c].req.always
            => worker[c].granted \/ BinariesOf(worker[c].req.command) = {}
      BY <2>2 DEF Missing
    <3>2. client[c].phase # "idle"
      BY <1>1, <2>1 DEF CallInv
    <3>3. worker'[c].pc \in {"run", "token"} /\ worker'[c].q = worker[c].q
          /\ worker'[c].req = worker[c].req /\ worker'[c].granted = worker[c].granted
      BY <1>3, <2>2
    <3>. QED
      BY <1>1, <1>2, <2>1, <3>1, <3>2, <3>3 DEF CallInv, PastApproval, AskLabel
  <2>3. CASE Finish(c)
    BY <1>4, <2>1, <2>3
  <2>4. CASE Ask(c, "approval", Missing(c)) /\ Missing(c) # {}
    <3>1. worker[c].req.always => Missing(c) = BinariesOf(worker[c].req.command)
      BY <2>4 DEF Missing
    <3>. QED  BY <1>5, <2>1, <2>4, <3>1
  <2>. QED  BY <1>6, <2>2, <2>3, <2>4 DEF Prepare
<1>7. CASE PrepareRejects(c) \/ EnrollFails(c) \/ KillCommand(c) \/ ExitCommand(c)
  BY <1>4, <1>7 DEF PrepareRejects, EnrollFails, KillCommand, ExitCommand
<1>8. CASE Register(c)
  <2>1. worker[c].pc = "register"
    BY <1>8 DEF Register
  <2>2. CASE worker[c].req.emit
    <3>0. PICK q : q = [worker[c].q EXCEPT !.id = nextSeq]
      OBVIOUS
    <3>1. worker' = [worker EXCEPT ![c] = [@ EXCEPT !.pc = "list", !.q = q]]
      BY <1>8, <2>2, <3>0 DEF Register
    <3>2. /\ worker'[c].pc = "list" /\ worker'[c].q = q
          /\ worker'[c].req = worker[c].req /\ worker'[c].granted = worker[c].granted
      BY <3>1 DEF TypeOK, Worker
    <3>3. /\ q.call = worker[c].q.call /\ q.kind = worker[c].q.kind
          /\ q.bins = worker[c].q.bins
      BY <3>0 DEF TypeOK, Worker, Question
    <3>. QED
      BY <1>1, <1>2, <2>1, <3>2, <3>3 DEF CallInv, PastApproval, AskLabel
  <2>3. CASE ~worker[c].req.emit
    <3>1. worker' = [worker EXCEPT ![c] = [@ EXCEPT !.pc = "wait", !.answer = "no"]]
      BY <1>8, <2>3 DEF Register
    <3>2. /\ worker'[c].pc = "wait" /\ worker'[c].q = worker[c].q
          /\ worker'[c].req = worker[c].req /\ worker'[c].granted = worker[c].granted
      BY <3>1 DEF TypeOK, Worker
    <3>. QED  BY <1>1, <2>1, <3>2, CallInvGoto DEF AskLabel
  <2>. QED  BY <2>2, <2>3
<1>9. CASE ListQuestion(c) \/ PutQuestion(c)
  <2>1. worker[c].pc \in {"list", "put"} /\ (Goto(c, "put") \/ Goto(c, "wait"))
    BY <1>9 DEF ListQuestion, PutQuestion
  <2>. QED  BY <1>1, <1>3, <2>1, CallInvGoto DEF AskLabel
<1>10. CASE Answered(c)
  <2>1. worker[c].pc = "wait"
    BY <1>10 DEF Answered
  <2>2. CASE worker[c].answer = "no" /\ Finish(c)
    BY <1>4, <2>1, <2>2
  <2>3. CASE /\ worker[c].answer = "yes" /\ worker[c].q.kind = "approval"
             /\ worker' = [worker EXCEPT ![c] =
                             [@ EXCEPT !.pc = "prepare", !.granted = TRUE]]
    <3>1. /\ worker'[c].pc = "prepare" /\ worker'[c].q = worker[c].q
          /\ worker'[c].req = worker[c].req
      BY <2>3 DEF TypeOK, Worker
    <3>2. worker[c].req.always =>
            \A b \in BinariesOf(worker[c].req.command) : Consented(c, b)
      <4>1. PICK r : r = [q |-> worker[c].q, yes |-> TRUE]
        OBVIOUS
      <4>2. r \in replied /\ r.yes /\ r.q = worker[c].q
        BY <2>3, <4>1 DEF IInv, AnswersAreOwn
      <4>3. worker[c].q.call = c
            /\ (worker[c].req.always =>
                  worker[c].q.bins = BinariesOf(worker[c].req.command))
        BY <1>1, <2>1, <2>3 DEF CallInv, AskLabel
      <4>. QED  BY <4>2, <4>3 DEF Consented
    <3>3. client[c].phase # "idle"
      BY <1>1, <2>1 DEF CallInv
    <3>. QED
      BY <1>1, <1>2, <3>1, <3>2, <3>3 DEF CallInv, PastApproval, AskLabel
  <2>4. CASE worker[c].q.kind = "auth" /\ Goto(c, "enroll")
    <3>1. worker'[c].pc = "enroll"
      BY <1>3, <2>4
    <3>2. PastApproval(c) /\ PastApproval(c)' /\ worker'[c].pc \notin AskLabel
      BY <2>1, <2>4, <3>1 DEF PastApproval, AskLabel
    <3>. QED  BY <1>1, <1>3, <2>1, <2>4, <3>2, CallInvGoto
  <2>. QED  BY <1>10, <2>2, <2>3, <2>4 DEF Answered
<1>11. ASSUME worker[c].pc \in {"token", "fetch", "clear", "enroll", "store", "run"},
              worker'[c].pc \in {"fetch", "clear", "store", "run"},
              /\ worker'[c].q = worker[c].q /\ worker'[c].req = worker[c].req
              /\ worker'[c].granted = worker[c].granted
       PROVE  CallInv(c)'
  BY <1>1, <1>11, CallInvGoto DEF PastApproval, AskLabel
<1>12. CASE CheckToken(c) \/ StoreToken(c)
  <2>1. /\ worker[c].pc \in {"token", "store"}
        /\ \E l \in {"fetch", "clear", "run"} : Goto(c, l)
    BY <1>12 DEF CheckToken, StoreToken
  <2>. QED  BY <1>3, <1>11, <2>1
<1>13. CASE FetchToken(c)
  <2>1. worker[c].pc = "fetch"
    BY <1>13 DEF FetchToken
  <2>2. CASE worker' = [worker EXCEPT ![c] = [@ EXCEPT !.pc = "run", !.held = cached]]
    BY <1>11, <2>1, <2>2 DEF TypeOK, Worker
  <2>. QED  BY <1>4, <1>13, <2>1, <2>2 DEF FetchToken
<1>14. CASE ClearToken(c)
  <2>1. worker[c].pc = "clear" /\ Ask(c, "auth", {})
    BY <1>14 DEF ClearToken
  <2>2. PastApproval(c)
    BY <2>1 DEF PastApproval
  <2>. QED  BY <1>5, <2>1, <2>2
<1>15. CASE EnrollToken(c)
  <2>1. /\ worker[c].pc = "enroll"
        /\ worker' = [worker EXCEPT ![c] =
                        [@ EXCEPT !.pc = "store", !.held = issued + 1]]
    BY <1>15 DEF EnrollToken
  <2>. QED  BY <1>11, <2>1 DEF TypeOK, Worker
<1>16. CASE RunBinary(c)
  <2>1. /\ worker[c].pc = "run"
        /\ worker' = [worker EXCEPT ![c].pos = worker[c].pos + 1]
    BY <1>16 DEF RunBinary
  <2>. QED  BY <1>11, <2>1 DEF TypeOK, Worker
<1>. QED
  BY <1>6, <1>7, <1>8, <1>9, <1>10, <1>12, <1>13, <1>14, <1>15, <1>16 DEF WorkerStep

LEMMA CallsStep ==
  ASSUME TypeOK, IInv, Next
  PROVE  CallsInv'
<1> USE DEF past, auth, shared
<1>0. SUFFICES ASSUME NEW d \in Calls PROVE CallInv(d)'
  BY DEF CallsInv
<1>1. ASSUME NEW c \in Calls, WorkerStep(c) \/ RunBinary(c) \/ ExitCommand(c)
      PROVE  CallInv(d)'
  <2>1. CASE c = d
    BY <1>1, <2>1, CallInvOwnStep
  <2>2. CASE c # d
    <3>1. worker'[d] = worker[d] /\ client' = client
          /\ \A b : <<d, b>> \in ran' => <<d, b>> \in ran
      BY <1>1, <2>2, WorkerFrame
    <3>. QED  BY <3>1, CallInvFrame
  <2>. QED  BY <2>1, <2>2
<1>2. ASSUME NEW c \in Calls, LoopStep(c) \/ ReplyStep PROVE CallInv(d)'
  <2>1. worker[d].pc = "register" => worker'[d].answer = worker[d].answer
    <3>1. \A p \in pending : p.call = d => worker[d].pc # "register"
      BY DEF IInv, PendingIsAwaited, Waiting
    <3>2. ASSUME NEW found \in SUBSET pending, NEW a, worker' = Answer(found, a)
          PROVE  worker[d].pc = "register" => worker'[d].answer = worker[d].answer
      BY <3>1, <3>2 DEF Answer
    <3>3. ASSUME ReplyStep
          PROVE  worker[d].pc = "register" => worker'[d].answer = worker[d].answer
      BY <3>2, <3>3 DEF ReplyStep, HandleReply, HandleReplyFails
    <3>4. ASSUME LoopStep(c)
          PROVE  worker[d].pc = "register" => worker'[d].answer = worker[d].answer
      BY <3>2, <3>4 DEF LoopStep, ServeEvent, ServeDisconnect, ServeCancelled
    <3>. QED  BY <1>2, <3>3, <3>4
  <2>. QED  BY <1>2, <2>1, LoopFrame, CallInvFrame
<1>3. ASSUME NEW c \in Calls,
             \/ ClientReceive(c) \/ ClientEof(c) \/ ClientClose(c) \/ ClientGiveUp(c)
             \/ \E yes \in BOOLEAN : ClientAnswer(c, yes)
             \/ Authenticate
             \/ \E t \in live : TokenDies(t)
             \/ \E b \in Unlistable : Unlist(b)
      PROVE  CallInv(d)'
  BY <1>3, ClientFrame, CallInvFrame
<1>4. ASSUME NEW c \in Calls, NEW req \in Requests, StartCall(c, req)
      PROVE  CallInv(d)'
  <2>1. CASE c # d
    <3>1. worker'[d] = worker[d] /\ client'[d] = client[d] /\ ran' = ran
      BY <1>4, <2>1 DEF StartCall, TypeOK
    <3>. QED  BY <3>1, CallInvFrame
  <2>2. CASE c = d
    <3>1. CallInv(d) /\ worker[d].pc = "new" /\ ~worker[d].granted
      BY <1>4, <2>2 DEF StartCall, IInv, CallsInv, CallInv
    <3>2. /\ worker' = [worker EXCEPT ![d] = [@ EXCEPT !.pc = "prepare", !.req = req]]
          /\ client' = [client EXCEPT ![d].phase = "waiting"]
      BY <1>4, <2>2 DEF StartCall
    <3>3. /\ worker'[d].pc = "prepare" /\ worker'[d].q = worker[d].q
          /\ ~worker'[d].granted /\ client'[d].phase = "waiting"
      BY <3>1, <3>2 DEF TypeOK, Worker, Client
    <3>. QED  BY <3>1, <3>3 DEF CallInv, PastApproval, AskLabel
  <2>. QED  BY <2>1, <2>2
<1>. QED  BY <1>1, <1>2, <1>3, <1>4 DEF Next

LEMMA IInvStep ==
  ASSUME TypeOK, IInv, [Next]_vars
  PROVE  IInv'
<1>1. CASE Next
  <2>1. Circulating'
    BY <1>1, PendingAsked, RepliesAsked, WorkerCarriesStep, ServeCarriesStep,
       ClientCarriesStep
    DEF Circulating
  <2>2. IdsUnique'
    BY <1>1, IdsStep DEF IInv
  <2>. QED
    BY <1>1, <2>1, <2>2, PendingStep, AnswersStep, CallsStep, WhitelistStep, RunsStep
    DEF IInv
<1>2. CASE UNCHANGED vars
  <2>1. UNCHANGED <<worker, serve, client, nextSeq, pending, replies, whitelist,
                    asked, replied, ran>>
    BY <1>2 DEF vars, shared, past
  <2>2. IdsUnique' /\ Circulating' /\ PendingIsAwaited' /\ AnswersAreOwn'
    BY <2>1
    DEF IInv, IdsUnique, Circulating, WorkerCarries, ServeCarries, ClientCarries,
        PendingIsAwaited, Waiting, AnswersAreOwn
  <2>3. CallsInv'
    BY <2>1 DEF IInv, CallsInv, CallInv, PastApproval, Consented
  <2>4. WhitelistConsented' /\ RunsAreAuthorized'
    BY <2>1 DEF IInv, WhitelistConsented, RunsAreAuthorized, Consented
  <2>. QED  BY <2>2, <2>3, <2>4 DEF IInv
<1>. QED  BY <1>1, <1>2

LEMMA Invariance == Spec => []IInv
BY InitInv, IInvStep, TypeCorrect, PTL DEF Spec

-----------------------------------------------------------------------------

\* Whatever carries a question, the tables, an event, a client or an answer,
\* carries a registered one, and no two registered questions share an id.
THEOREM QuestionsRegistered == Spec => [](IdsUnique /\ Circulating)
BY Invariance, PTL DEF IInv

\* Nothing the wrapper has executed as root lacks the user's consent: strict
\* calls have their own, relaxed ones some call's, or the initial whitelist.
THEOREM RunsAuthorized == Spec => []RunsAreAuthorized
BY Invariance, PTL DEF IInv

\* A worker is let through only by the user's yes to its own question.
THEOREM AnswersOwn == Spec => []AnswersAreOwn
BY Invariance, PTL DEF IInv

\* Every entry of the two dictionaries is awaited by its blocked worker.
THEOREM PendingAwaited == Spec => []PendingIsAwaited
BY Invariance, PTL DEF IInv

-----------------------------------------------------------------------------
(* The refinement of PrivilegeGate.  A step that agrees or refuses maps to *)
(* one of the gate only if the question is the one its call waits for, is  *)
(* answered once, and nothing runs before.                                 *)

NoAsk(s) == \A i \in DOMAIN s : s[i].type # "ask"

\* At most one event asks, and it asks q.
OneAsk(s, q) ==
  \A i, j \in DOMAIN s :
    s[i].type = "ask" => s[i].q = q /\ (s[j].type = "ask" => i = j)

NothingRan(c) == \A b \in Binaries : <<c, b>> \notin ran

\* The question of a call is on its way to the user.
Carried(c) ==
  \/ worker[c].pc \in {"list", "put"}
  \/ ~NoAsk(serve[c].events) \/ ~NoAsk(client[c].inbox)
  \/ client[c].phase = "asking"

\* It is in one place, and it is the one of the worker.
InOnePlace(c) ==
  /\ OneAsk(serve[c].events, worker[c].q) /\ OneAsk(client[c].inbox, worker[c].q)
  /\ NoAsk(serve[c].events) \/ NoAsk(client[c].inbox)
  /\ worker[c].pc \in {"list", "put"} \/ client[c].phase = "asking" =>
       NoAsk(serve[c].events) /\ NoAsk(client[c].inbox)
  /\ client[c].phase = "asking" =>
       client[c].q = worker[c].q /\ worker[c].pc \notin {"list", "put"}

\* On its way it is not answered, and nothing has run.
Unsettled(c) ==
  Carried(c) => /\ worker[c].pc \in {"list", "put", "wait", "done"}
                /\ \A r \in replied : r.q # worker[c].q
                /\ NothingRan(c)

\* A call that was refused goes no further.
RefusedStops(c) ==
  \A r \in replied : ~r.yes /\ r.q.call = c =>
    worker[c].q = r.q /\ worker[c].pc \in {"wait", "done"} /\ NothingRan(c)

NotYetRun(c) == worker[c].pc \notin {"run", "done"} => NothingRan(c)

AnsweredOnce ==
  /\ \A r \in replied : r.q \in asked
  /\ \A r1, r2 \in replied : r1.q = r2.q => r1 = r2

GateInv ==
  /\ AnsweredOnce
  /\ \A c \in Calls : InOnePlace(c) /\ Unsettled(c) /\ RefusedStops(c) /\ NotYetRun(c)

\* What the event queue and the inbox of a call hold is added at the end and
\* taken at the head.
LEMMA AskAppended ==
  ASSUME NEW s \in Seq(Event), NEW e \in Event, NEW q
  PROVE  /\ e.type # "ask" /\ NoAsk(s) => NoAsk(Append(s, e))
         /\ e.type # "ask" /\ OneAsk(s, q) => OneAsk(Append(s, e), q)
         /\ e.type = "ask" /\ e.q = q /\ NoAsk(s) => OneAsk(Append(s, e), q)
<1> DEFINE t == Append(s, e)
<1>1. /\ Len(s) \in Nat /\ DOMAIN s = 1..Len(s) /\ DOMAIN t = 1..(Len(s) + 1)
      /\ t[Len(s) + 1] = e /\ \A i \in 1..Len(s) : t[i] = s[i]
  OBVIOUS
<1> HIDE DEF t
<1>2. \A i \in DOMAIN t : i = Len(s) + 1 \/ (i \in DOMAIN s /\ t[i] = s[i])
  BY <1>1
<1>3. e.type # "ask" /\ NoAsk(s) => NoAsk(t)
  BY <1>1, <1>2 DEF NoAsk
<1>4. e.type # "ask" /\ OneAsk(s, q) => OneAsk(t, q)
  BY <1>1, <1>2 DEF OneAsk
<1>5. e.type = "ask" /\ e.q = q /\ NoAsk(s) => OneAsk(t, q)
  BY <1>1, <1>2 DEF OneAsk, NoAsk
<1>. QED  BY <1>3, <1>4, <1>5 DEF t

LEMMA AskTaken ==
  ASSUME NEW s \in Seq(Event), s # <<>>, NEW q, OneAsk(s, q)
  PROVE  /\ OneAsk(Tail(s), q)
         /\ NoAsk(s) => NoAsk(Tail(s)) /\ Head(s).type # "ask"
         /\ Head(s).type = "ask" => Head(s).q = q /\ NoAsk(Tail(s))
<1> DEFINE t == Tail(s)
<1>1. /\ Len(s) \in Nat \ {0} /\ DOMAIN s = 1..Len(s) /\ DOMAIN t = 1..(Len(s) - 1)
      /\ Head(s) = s[1] /\ \A i \in 1..(Len(s) - 1) : t[i] = s[i + 1]
  OBVIOUS
<1> HIDE DEF t
<1>2. \A i \in DOMAIN t : i + 1 \in DOMAIN s /\ t[i] = s[i + 1] /\ i + 1 # 1
  BY <1>1
<1>3. 1 \in DOMAIN s
  BY <1>1
<1>4. OneAsk(t, q)
  <2> SUFFICES ASSUME NEW i \in DOMAIN t, NEW j \in DOMAIN t, t[i].type = "ask"
               PROVE  t[i].q = q /\ (t[j].type = "ask" => i = j)
    BY DEF OneAsk
  <2>1. i \in Nat /\ j \in Nat
    BY <1>1
  <2>2. s[i + 1].q = q /\ (s[j + 1].type = "ask" => i + 1 = j + 1)
    BY <1>2 DEF OneAsk
  <2>. QED  BY <1>2, <2>1, <2>2
<1>5. NoAsk(s) => NoAsk(t) /\ Head(s).type # "ask"
  BY <1>1, <1>2, <1>3 DEF NoAsk
<1>6. Head(s).type = "ask" => Head(s).q = q /\ NoAsk(t)
  BY <1>1, <1>2, <1>3 DEF NoAsk, OneAsk
<1>. QED  BY <1>4, <1>5, <1>6 DEF t

\* The part of the invariant about one call.
GateCall(c) == InOnePlace(c) /\ Unsettled(c) /\ RefusedStops(c) /\ NotYetRun(c)

\* A step that moves nothing of a call, but may drop the question it shows.
LEMMA GateFrame ==
  ASSUME NEW d \in Calls, GateCall(d), worker[d].q.call = d,
         worker'[d].pc = worker[d].pc, worker'[d].q = worker[d].q,
         serve'[d].events = serve[d].events, client'[d].inbox = client[d].inbox,
         client'[d].phase = "asking" => client[d].phase = "asking" /\ client'[d].q = client[d].q,
         \A b \in Binaries : <<d, b>> \in ran' => <<d, b>> \in ran,
         \A r \in replied' : r \in replied \/ r.q.call # d
  PROVE  GateCall(d)'
<1>1. InOnePlace(d)'
  BY DEF GateCall, InOnePlace
<1>2. Carried(d)' => Carried(d)
  BY DEF Carried
<1>3. NothingRan(d) => NothingRan(d)'
  BY DEF NothingRan
<1>4. Unsettled(d)'
  BY <1>2, <1>3 DEF GateCall, Unsettled
<1>5. RefusedStops(d)'
  BY <1>3 DEF GateCall, RefusedStops
<1>6. NotYetRun(d)'
  BY <1>3 DEF GateCall, NotYetRun
<1>. QED  BY <1>1, <1>4, <1>5, <1>6 DEF GateCall

\* A step of a call that has no question on its way and gets none.
LEMMA GateFree ==
  ASSUME NEW c \in Calls, GateCall(c),
         worker[c].pc \notin {"list", "put", "wait", "done"},
         worker'[c].pc \notin {"list", "put"},
         NoAsk(serve[c].events) => NoAsk(serve'[c].events),
         client'[c].inbox = client[c].inbox,
         client'[c].phase = "asking" => client[c].phase = "asking",
         replied' = replied, NotYetRun(c)'
  PROVE  GateCall(c)'
<1>1. NoAsk(serve[c].events) /\ NoAsk(client[c].inbox) /\ client[c].phase # "asking"
  BY DEF GateCall, Unsettled, Carried
<1>2. NoAsk(serve'[c].events) /\ NoAsk(client'[c].inbox) /\ client'[c].phase # "asking"
  BY <1>1
<1>3. InOnePlace(c)'
  BY <1>2 DEF InOnePlace, OneAsk, NoAsk
<1>4. Unsettled(c)'
  BY <1>2 DEF Unsettled, Carried
<1>5. RefusedStops(c)'
  BY DEF GateCall, RefusedStops
<1>. QED  BY <1>3, <1>4, <1>5 DEF GateCall

\* A step of the worker after which its question, if any, is where it was.
LEMMA GateMove ==
  ASSUME NEW c \in Calls, GateCall(c),
         worker[c].pc \in {"list", "wait"}, worker'[c].q = worker[c].q,
         \/ worker[c].pc = "list" /\ worker'[c].pc = "put"
         \/ worker[c].pc = "wait" /\ worker'[c].pc = "done",
         OneAsk(serve[c].events, worker[c].q) => OneAsk(serve'[c].events, worker[c].q),
         NoAsk(serve[c].events) => NoAsk(serve'[c].events),
         client' = client, replied' = replied, ran' = ran
  PROVE  GateCall(c)'
<1>1. InOnePlace(c)'
  BY DEF GateCall, InOnePlace
<1>2. Carried(c)' => Carried(c)
  BY DEF Carried
<1>3. NothingRan(c)' = NothingRan(c)
  BY DEF NothingRan
<1>4. Unsettled(c)'
  BY <1>2, <1>3 DEF GateCall, Unsettled
<1>5. RefusedStops(c)'
  BY <1>3 DEF GateCall, RefusedStops
<1>6. NotYetRun(c)'
  BY <1>3 DEF GateCall, NotYetRun
<1>. QED  BY <1>1, <1>4, <1>5, <1>6 DEF GateCall

\* Where Goto takes a worker.
LEMMA GotoMoves ==
  ASSUME TypeOK, NEW c \in Calls, NEW l, Goto(c, l)
  PROVE  worker'[c].pc = l /\ worker'[c].q = worker[c].q
<1>1. worker \in [Calls -> Worker] /\ worker[c] \in Worker
  BY DEF TypeOK
<1>. QED  BY <1>1 DEF Goto, Worker

\* A result is no question.
LEMMA PutEvents ==
  ASSUME TypeOK, NEW c \in Calls, NEW type \in {"ask", "result"}, Put(c, type)
  PROVE  /\ serve'[c].events = Append(serve[c].events, [type |-> type, q |-> worker[c].q])
         /\ serve[c].events \in Seq(Event) /\ [type |-> type, q |-> worker[c].q] \in Event
         /\ \A d \in Calls : d # c => serve'[d] = serve[d]
         /\ type # "ask" /\ NoAsk(serve[c].events) => NoAsk(serve'[c].events)
         /\ \A q : type # "ask" /\ OneAsk(serve[c].events, q) => OneAsk(serve'[c].events, q)
         /\ type = "ask" /\ NoAsk(serve[c].events) => OneAsk(serve'[c].events, worker[c].q)
<1> DEFINE e == [type |-> type, q |-> worker[c].q]
<1>1. serve \in [Calls -> Serve] /\ serve[c] \in Serve /\ worker[c] \in Worker
  BY DEF TypeOK
<1>2. serve[c].events \in Seq(Event) /\ e \in Event
  BY <1>1 DEF Serve, Worker, Event
<1>3. serve' = [serve EXCEPT ![c].events = Append(serve[c].events, e)]
  BY DEF Put
<1>4. e.type = type /\ e.q = worker[c].q
  OBVIOUS
<1> HIDE DEF e
<1>5. serve'[c].events = Append(serve[c].events, e) /\ \A d \in Calls : d # c => serve'[d] = serve[d]
  BY <1>1, <1>3 DEF Serve
<1>6. /\ type # "ask" /\ NoAsk(serve[c].events) => NoAsk(serve'[c].events)
      /\ \A q : type # "ask" /\ OneAsk(serve[c].events, q) => OneAsk(serve'[c].events, q)
      /\ type = "ask" /\ NoAsk(serve[c].events) => OneAsk(serve'[c].events, worker[c].q)
  BY <1>2, <1>4, <1>5, AskAppended
<1>. QED  BY <1>2, <1>5, <1>6 DEF e

\* The calls that a step of a worker does not make.
LEMMA GateOthers ==
  ASSUME TypeOK, IInv, GateInv, NEW c \in Calls,
         WorkerStep(c) \/ RunBinary(c) \/ ExitCommand(c),
         NEW d \in Calls, d # c
  PROVE  GateCall(d)'
<1>1. /\ UNCHANGED <<client, replied>> /\ worker'[d] = worker[d]
      /\ \A b \in Binaries : <<d, b>> \in ran' => <<d, b>> \in ran
  BY WorkerFrame
<1>2. serve'[d] = serve[d]
  <2>1. CASE serve' = serve
    BY <2>1
  <2>2. ASSUME NEW type \in {"ask", "result"}, Put(c, type) PROVE serve'[d] = serve[d]
    BY <2>2, PutEvents
  <2>3. CASE ListQuestion(c)
    BY <2>3 DEF ListQuestion, TypeOK
  <2>4. \/ serve' = serve \/ Put(c, "ask") \/ Put(c, "result") \/ ListQuestion(c)
    BY DEF WorkerStep, Prepare, PrepareRejects, Register, PutQuestion, Answered, CheckToken,
           FetchToken, ClearToken, EnrollToken, EnrollFails, StoreToken, KillCommand, RunBinary,
           ExitCommand, Finish
  <2>. QED  BY <2>1, <2>2, <2>3, <2>4
<1>3. GateCall(d) /\ worker[d].q.call = d
  BY DEF GateInv, GateCall, IInv, CallsInv, CallInv
<1>. QED  BY <1>1, <1>2, <1>3, GateFrame

\* The call itself, where it has no question on its way.
LEMMA GateOwnFree ==
  ASSUME TypeOK, IInv, GateInv, NEW c \in Calls,
         \/ Prepare(c) \/ PrepareRejects(c) \/ (Register(c) /\ ~worker[c].req.emit) \/ CheckToken(c)
         \/ FetchToken(c) \/ ClearToken(c) \/ EnrollToken(c) \/ EnrollFails(c) \/ StoreToken(c)
         \/ KillCommand(c) \/ RunBinary(c) \/ ExitCommand(c)
  PROVE  GateCall(c)'
<1>1. client' = client /\ replied' = replied
  BY WorkerFrame DEF WorkerStep
<1>2. GateCall(c) /\ worker[c] \in Worker /\ worker \in [Calls -> Worker]
  BY DEF GateInv, GateCall, TypeOK
<1>3. worker[c].pc \notin {"list", "put", "wait", "done"}
  BY DEF Prepare, PrepareRejects, Register, CheckToken, FetchToken, ClearToken, EnrollToken,
         EnrollFails, StoreToken, KillCommand, RunBinary, ExitCommand
<1>4. NoAsk(serve[c].events) => NoAsk(serve'[c].events)
  <2>1. serve' = serve \/ Put(c, "result")
    BY DEF Prepare, PrepareRejects, Register, CheckToken, FetchToken, ClearToken, EnrollToken,
           EnrollFails, StoreToken, KillCommand, RunBinary, ExitCommand, Finish
  <2>2. "result" \in {"ask", "result"} /\ "result" # "ask"
    OBVIOUS
  <2>. QED  BY <2>1, <2>2, PutEvents
<1>5. worker'[c].pc \notin {"list", "put"} /\ (worker[c].pc = "run" => worker'[c].pc \in {"run", "done"})
  <2>1. ASSUME NEW l, Goto(c, l), l \notin {"list", "put"}, worker[c].pc = "run" => l \in {"run", "done"}
        PROVE  /\ worker'[c].pc \notin {"list", "put"}
               /\ (worker[c].pc = "run" => worker'[c].pc \in {"run", "done"})
    BY <2>1, GotoMoves
  <2>2. ASSUME Finish(c) PROVE worker'[c].pc = "done"
    BY <2>2, GotoMoves DEF Finish
  <2>3. ASSUME NEW kind, NEW bins, Ask(c, kind, bins) PROVE worker'[c].pc = "register"
    BY <1>2, <2>3 DEF Ask, Worker
  <2>4. CASE PrepareRejects(c) \/ EnrollFails(c) \/ KillCommand(c) \/ ExitCommand(c)
    BY <2>2, <2>4 DEF PrepareRejects, EnrollFails, KillCommand, ExitCommand
  <2>5. CASE Prepare(c)
    BY <2>1, <2>2, <2>3, <2>5 DEF Prepare
  <2>6. CASE CheckToken(c) \/ StoreToken(c)
    BY <2>1, <2>6 DEF CheckToken, StoreToken
  <2>7. CASE ClearToken(c)
    BY <2>3, <2>7 DEF ClearToken
  <2>8. CASE (Register(c) /\ ~worker[c].req.emit) \/ FetchToken(c)
    BY <1>2, <2>2, <2>8 DEF Register, FetchToken, Worker
  <2>9. CASE EnrollToken(c) \/ RunBinary(c)
    <3>1. CASE EnrollToken(c)
      <4>1. worker' = [worker EXCEPT ![c] = [@ EXCEPT !.pc = "store", !.held = issued + 1]]
            /\ worker[c].pc = "enroll"
        BY <3>1 DEF EnrollToken
      <4>. QED  BY <1>2, <4>1 DEF Worker
    <3>2. CASE RunBinary(c)
      <4>1. worker' = [worker EXCEPT ![c].pos = @ + 1] /\ worker[c].pc = "run"
        BY <3>2 DEF RunBinary
      <4>. QED  BY <1>2, <4>1 DEF Worker
    <3>. QED  BY <2>9, <3>1, <3>2
  <2>. QED  BY <2>4, <2>5, <2>6, <2>7, <2>8, <2>9
<1>6. NotYetRun(c)'
  <2>1. CASE RunBinary(c)
    <3>1. worker'[c].pc \in {"run", "done"}
      BY <1>5, <2>1 DEF RunBinary
    <3>. QED  BY <3>1 DEF NotYetRun
  <2>2. CASE ~RunBinary(c)
    <3>1. ran' = ran
      BY <2>2 DEF Prepare, PrepareRejects, Register, CheckToken, FetchToken, ClearToken, EnrollToken,
         EnrollFails, StoreToken, KillCommand, ExitCommand, past
    <3>2. NothingRan(c)' = NothingRan(c)
      BY <3>1 DEF NothingRan
    <3>. QED  BY <1>2, <1>3, <1>5, <3>2 DEF GateCall, NotYetRun
  <2>. QED  BY <2>1, <2>2
<1>. QED  BY <1>1, <1>2, <1>3, <1>4, <1>5, <1>6, GateFree

\* A question that is registered is new: nobody has answered it.
LEMMA GateRegister ==
  ASSUME TypeOK, IInv, GateInv, NEW c \in Calls, Register(c), worker[c].req.emit
  PROVE  GateCall(c)'
<1> DEFINE q == [worker[c].q EXCEPT !.id = nextSeq]
<1>1. /\ worker[c].pc = "register" /\ worker' = [worker EXCEPT ![c] = [@ EXCEPT !.pc = "list", !.q = q]]
      /\ UNCHANGED <<serve, client, replied, ran>>
  BY DEF Register
<1>2. /\ worker[c] \in Worker /\ worker \in [Calls -> Worker] /\ worker[c].q \in Question
      /\ nextSeq \in Nat \ {0}
  BY DEF TypeOK, Worker
<1>3. q.id = nextSeq /\ q.call = worker[c].q.call
  BY <1>2 DEF Question
<1> HIDE DEF q
<1>4. worker'[c].pc = "list" /\ worker'[c].q = q
  BY <1>1, <1>2 DEF Worker
<1>5. GateCall(c) /\ AnsweredOnce /\ IdsUnique
  BY DEF GateInv, GateCall, IInv
<1>6. \A r \in replied : r.q # q
  <2> SUFFICES ASSUME NEW r \in replied PROVE r.q # q
    OBVIOUS
  <2>1. r.q.id < nextSeq /\ r.q.id \in Nat
    BY <1>5 DEF AnsweredOnce, IdsUnique, TypeOK, Question
  <2>. QED  BY <1>2, <1>3, <2>1
<1>7. NoAsk(serve[c].events) /\ NoAsk(client[c].inbox) /\ client[c].phase # "asking" /\ NothingRan(c)
  BY <1>1, <1>5 DEF GateCall, Unsettled, Carried, NotYetRun
<1>8. InOnePlace(c)'
  BY <1>1, <1>4, <1>7 DEF InOnePlace, OneAsk, NoAsk
<1>9. Unsettled(c)'
  BY <1>1, <1>4, <1>6, <1>7 DEF Unsettled, NothingRan
<1>10. RefusedStops(c)' /\ NotYetRun(c)'
  BY <1>1, <1>4, <1>5, <1>7 DEF GateCall, RefusedStops, NotYetRun, NothingRan
<1>. QED  BY <1>8, <1>9, <1>10 DEF GateCall

\* The worker lists its question and puts it on the queue.
LEMMA GatePut ==
  ASSUME TypeOK, IInv, GateInv, NEW c \in Calls, ListQuestion(c) \/ PutQuestion(c)
  PROVE  GateCall(c)'
<1>1. GateCall(c)
  BY DEF GateInv, GateCall
<1>2. client' = client /\ replied' = replied /\ ran' = ran
  BY DEF ListQuestion, PutQuestion, past
<1>3. CASE ListQuestion(c)
  <2>1. worker[c].pc = "list" /\ worker'[c].pc = "put" /\ worker'[c].q = worker[c].q
    BY <1>3, GotoMoves DEF ListQuestion
  <2>2. serve'[c].events = serve[c].events
    BY <1>3 DEF ListQuestion, TypeOK, Serve
  <2>. QED  BY <1>1, <1>2, <2>1, <2>2, GateMove
<1>4. CASE PutQuestion(c)
  <2>1. /\ worker[c].pc = "put" /\ worker'[c].pc = "wait" /\ worker'[c].q = worker[c].q
        /\ Put(c, "ask")
    BY <1>4, GotoMoves DEF PutQuestion
  <2>2. /\ NoAsk(serve[c].events) /\ NoAsk(client[c].inbox) /\ client[c].phase # "asking"
        /\ OneAsk(client[c].inbox, worker[c].q)
    BY <1>1, <2>1 DEF GateCall, InOnePlace
  <2>3. OneAsk(serve'[c].events, worker[c].q)
    BY <2>1, <2>2, PutEvents
  <2>4. InOnePlace(c)'
    BY <1>2, <2>1, <2>2, <2>3 DEF InOnePlace
  <2>5. (\A r \in replied : r.q # worker[c].q) /\ NothingRan(c) /\ NothingRan(c)'
    BY <1>1, <1>2, <2>1 DEF GateCall, Unsettled, Carried, NothingRan
  <2>6. Unsettled(c)'
    BY <1>2, <2>1, <2>5 DEF Unsettled
  <2>7. RefusedStops(c)' /\ NotYetRun(c)'
    BY <1>1, <1>2, <2>1, <2>5 DEF GateCall, RefusedStops, NotYetRun
  <2>. QED  BY <2>4, <2>6, <2>7 DEF GateCall
<1>. QED  BY <1>3, <1>4

\* The worker goes on only when the user has agreed, and then nothing is refused.
LEMMA GateAnswered ==
  ASSUME TypeOK, IInv, GateInv, NEW c \in Calls, Answered(c)
  PROVE  GateCall(c)'
<1>1. GateCall(c) /\ worker[c] \in Worker /\ worker \in [Calls -> Worker]
  BY DEF GateInv, GateCall, TypeOK
<1>2. worker[c].pc = "wait" /\ client' = client /\ replied' = replied /\ ran' = ran
  BY DEF Answered, past
<1>3. CASE worker[c].answer = "no"
  <2>1. Put(c, "result") /\ Goto(c, "done")
    BY <1>3 DEF Answered, Finish
  <2>2. worker'[c].pc = "done" /\ worker'[c].q = worker[c].q
    BY <2>1, GotoMoves
  <2>3. /\ OneAsk(serve[c].events, worker[c].q) => OneAsk(serve'[c].events, worker[c].q)
        /\ NoAsk(serve[c].events) => NoAsk(serve'[c].events)
    BY <2>1, PutEvents
  <2>. QED  BY <1>1, <1>2, <2>2, <2>3, GateMove
<1>4. CASE worker[c].answer = "yes"
  <2> DEFINE a == [q |-> worker[c].q, yes |-> TRUE]
  <2>1. a \in replied /\ a.q = worker[c].q /\ a.yes = TRUE
    BY <1>4 DEF IInv, AnswersAreOwn
  <2> HIDE DEF a
  <2>2. ~Carried(c)
    BY <1>1, <2>1 DEF GateCall, Unsettled
  <2>3. \A r \in replied : r.q.call = c => r.yes
    <3> SUFFICES ASSUME NEW r \in replied, r.q.call = c, ~r.yes PROVE FALSE
      OBVIOUS
    <3>1. r.q = a.q
      BY <1>1, <2>1 DEF GateCall, RefusedStops
    <3>2. r = a
      BY <2>1, <3>1 DEF GateInv, AnsweredOnce
    <3>. QED  BY <2>1, <3>2
  <2>4. serve' = serve /\ worker'[c].pc \in {"prepare", "enroll"}
    <3>1. CASE worker[c].q.kind = "approval"
      <4>1. /\ serve' = serve
            /\ worker' = [worker EXCEPT ![c] = [@ EXCEPT !.pc = "prepare", !.granted = TRUE]]
        BY <1>4, <3>1 DEF Answered
      <4>. QED  BY <1>1, <4>1 DEF Worker
    <3>2. CASE worker[c].q.kind = "auth"
      <4>1. Goto(c, "enroll") /\ serve' = serve
        BY <1>4, <3>2 DEF Answered
      <4>. QED  BY <4>1, GotoMoves
    <3>. QED  BY <1>1, <3>1, <3>2 DEF Worker, Question
  <2>5. NothingRan(c) /\ NothingRan(c)'
    BY <1>1, <1>2 DEF GateCall, NotYetRun, NothingRan
  <2>6. InOnePlace(c)' /\ Unsettled(c)'
    BY <1>2, <2>2, <2>4 DEF InOnePlace, OneAsk, Unsettled, Carried, NoAsk
  <2>7. RefusedStops(c)' /\ NotYetRun(c)'
    BY <1>2, <2>3, <2>5 DEF RefusedStops, NotYetRun
  <2>. QED  BY <2>6, <2>7 DEF GateCall
<1>. QED  BY <1>3, <1>4 DEF Answered

\* A call that starts has nothing on its way yet.
LEMMA GateStart ==
  ASSUME TypeOK, IInv, GateInv, NEW c \in Calls, NEW req \in Requests, StartCall(c, req)
  PROVE  \A d \in Calls : GateCall(d)'
<1>1. /\ worker' = [worker EXCEPT ![c] = [@ EXCEPT !.pc = "prepare", !.req = req]]
      /\ client' = [client EXCEPT ![c].phase = "waiting"]
      /\ serve' = [serve EXCEPT ![c].phase = "serving"]
      /\ replied' = replied /\ ran' = ran /\ client[c].phase = "idle"
  BY DEF StartCall, past
<1>2. worker \in [Calls -> Worker] /\ client \in [Calls -> Client] /\ serve \in [Calls -> Serve]
  BY DEF TypeOK
<1>3. /\ \A d \in Calls : d # c => worker'[d] = worker[d] /\ client'[d] = client[d] /\ serve'[d] = serve[d]
      /\ worker'[c].pc = "prepare" /\ worker'[c].q = worker[c].q
      /\ client'[c].phase = "waiting" /\ client'[c].inbox = client[c].inbox
      /\ serve'[c].events = serve[c].events
  BY <1>1, <1>2 DEF Worker, Client, Serve
<1>4. worker[c].pc = "new" /\ \A d \in Calls : worker[d].q.call = d /\ GateCall(d)
  BY <1>1 DEF IInv, CallsInv, CallInv, GateInv, GateCall
<1>5. NotYetRun(c)'
  BY <1>1, <1>4 DEF GateCall, NotYetRun, NothingRan
<1>6. GateCall(c)'
  BY <1>1, <1>3, <1>4, <1>5, GateFree
<1>7. ASSUME NEW d \in Calls, d # c PROVE GateCall(d)'
  BY <1>1, <1>3, <1>4, <1>7, GateFrame
<1>. QED  BY <1>6, <1>7

\* The loop passes a question on and answers in the user's place, but says nothing.
LEMMA GateLoop ==
  ASSUME TypeOK, IInv, GateInv, NEW c \in Calls, LoopStep(c)
  PROVE  \A d \in Calls : GateCall(d)'
<1>1. /\ replied' = replied /\ ran' = ran
      /\ \A d \in Calls : worker'[d].pc = worker[d].pc /\ worker'[d].q = worker[d].q
  BY LoopFrame
<1>2. worker \in [Calls -> Worker] /\ client \in [Calls -> Client] /\ serve \in [Calls -> Serve]
  BY DEF TypeOK
<1>3. \A d \in Calls : worker[d].q.call = d /\ GateCall(d)
  BY DEF IInv, CallsInv, CallInv, GateInv, GateCall
<1>4. CASE ServeDisconnect(c) \/ ServeCancelled(c)
  <2>1. client' = client /\ \A d \in Calls : serve'[d].events = serve[d].events
    <3>1. CASE ServeDisconnect(c)
      <4>1. /\ client' = client
            /\ serve' = [serve EXCEPT ![c] = [@ EXCEPT !.phase = "cancelling", !.cancel = TRUE]]
        BY <3>1 DEF ServeDisconnect
      <4>. QED  BY <1>2, <4>1 DEF Serve
    <3>2. CASE ServeCancelled(c)
      BY <1>2, <3>2 DEF ServeCancelled, Serve
    <3>. QED  BY <1>4, <3>1, <3>2
  <2>. QED  BY <1>1, <1>3, <2>1, GateFrame
<1>5. CASE ServeEvent(c)
  <2> DEFINE e == Head(serve[c].events)
             s == serve[c].events
             b == client[c].inbox
  <2>1. /\ s \in Seq(Event) /\ s # <<>> /\ e \in Event /\ b \in Seq(Event)
    BY <1>2, <1>5 DEF ServeEvent, Serve, Client
  <2>2. /\ serve'[c].events = Tail(s) /\ client'[c].phase = client[c].phase /\ client'[c].q = client[c].q
        /\ client'[c].inbox = b \/ client'[c].inbox = Append(b, e)
        /\ \A d \in Calls : d # c => serve'[d] = serve[d] /\ client'[d] = client[d]
    BY <1>2, <1>5 DEF ServeEvent, Serve, Client
  <2>3. GateCall(c) /\ OneAsk(s, worker[c].q) /\ OneAsk(b, worker[c].q) /\ (NoAsk(s) \/ NoAsk(b))
    BY <1>3 DEF GateCall, InOnePlace
  <2>4. /\ OneAsk(Tail(s), worker[c].q)
        /\ NoAsk(s) => NoAsk(Tail(s)) /\ e.type # "ask"
        /\ e.type = "ask" => e.q = worker[c].q /\ NoAsk(Tail(s))
    BY <2>1, <2>3, AskTaken
  <2>5. /\ e.type # "ask" /\ NoAsk(b) => NoAsk(Append(b, e))
        /\ e.type # "ask" /\ OneAsk(b, worker[c].q) => OneAsk(Append(b, e), worker[c].q)
        /\ e.type = "ask" /\ e.q = worker[c].q /\ NoAsk(b) => OneAsk(Append(b, e), worker[c].q)
    BY <2>1, AskAppended
  <2> HIDE DEF e, s, b
  <2>6. /\ OneAsk(client'[c].inbox, worker[c].q)
        /\ NoAsk(s) /\ NoAsk(b) => NoAsk(Tail(s)) /\ NoAsk(client'[c].inbox)
        /\ NoAsk(Tail(s)) \/ NoAsk(client'[c].inbox)
    BY <2>2, <2>3, <2>4, <2>5
  <2>7. InOnePlace(c)'
    BY <1>1, <2>2, <2>3, <2>4, <2>6 DEF GateCall, InOnePlace, s, b
  <2>8. Carried(c)' => Carried(c)
    BY <1>1, <2>2, <2>6 DEF Carried, s, b
  <2>9. NothingRan(c)' = NothingRan(c)
    BY <1>1 DEF NothingRan
  <2>10. Unsettled(c)' /\ RefusedStops(c)' /\ NotYetRun(c)'
    BY <1>1, <2>3, <2>8, <2>9 DEF GateCall, Unsettled, RefusedStops, NotYetRun
  <2>11. ASSUME NEW d \in Calls, d # c PROVE GateCall(d)'
    BY <1>1, <1>3, <2>2, <2>11, GateFrame
  <2>. QED  BY <2>7, <2>10, <2>11 DEF GateCall
<1>. QED  BY <1>4, <1>5 DEF LoopStep

\* The answer reaches the worker when the user has given it already.
LEMMA GateReply ==
  ASSUME TypeOK, IInv, GateInv, ReplyStep
  PROVE  \A d \in Calls : GateCall(d)'
<1>1. PICK r \in replies : HandleReply(r) \/ HandleReplyFails(r)
  BY DEF ReplyStep
<1>2. /\ worker \in [Calls -> Worker] /\ client \in [Calls -> Client] /\ serve \in [Calls -> Serve]
      /\ r.q.call \in Calls
  BY DEF TypeOK, Reply, Question
<1>3. /\ replied' = replied /\ ran' = ran
      /\ \A d \in Calls : worker'[d].pc = worker[d].pc /\ worker'[d].q = worker[d].q
  BY <1>2, LoopFrame
<1>4. serve' = serve /\ ReplyRead(r)
  BY <1>1 DEF HandleReply, HandleReplyFails
<1>5. \A d \in Calls : /\ client'[d].inbox = client[d].inbox /\ client'[d].q = client[d].q
                       /\ client'[d].phase = "asking" => client[d].phase = "asking"
  BY <1>2, <1>4 DEF ReplyRead, Client
<1>6. \A d \in Calls : worker[d].q.call = d /\ GateCall(d)
  BY DEF IInv, CallsInv, CallInv, GateInv, GateCall
<1>. QED  BY <1>3, <1>4, <1>5, <1>6, GateFrame

\* The client shows the question, sends the answer, or gives both up.
LEMMA GateClient ==
  ASSUME TypeOK, IInv, GateInv, NEW c \in Calls,
         \/ ClientReceive(c) \/ ClientEof(c) \/ ClientClose(c) \/ ClientGiveUp(c)
  PROVE  \A d \in Calls : GateCall(d)'
<1>1. UNCHANGED <<worker, serve, ran, replied>>
  BY DEF ClientReceive, ClientEof, ClientClose, ClientGiveUp, past
<1>2. client \in [Calls -> Client] /\ client[c] \in Client
  BY DEF TypeOK
<1>3. \A d \in Calls : worker[d].q.call = d /\ GateCall(d)
  BY DEF IInv, CallsInv, CallInv, GateInv, GateCall
<1>4. CASE ClientEof(c) \/ ClientClose(c) \/ ClientGiveUp(c)
  <2>1. \A d \in Calls : /\ client'[d].inbox = client[d].inbox /\ client'[d].q = client[d].q
                         /\ client'[d].phase = "asking" => client[d].phase = "asking"
    <3>1. CASE ClientEof(c) \/ ClientGiveUp(c)
      <4>1. client' = [client EXCEPT ![c].phase = "done"]
        BY <3>1 DEF ClientEof, ClientGiveUp
      <4>. QED  BY <1>2, <4>1 DEF Client
    <3>2. CASE ClientClose(c)
      <4>1. client' = [client EXCEPT ![c].closed = TRUE]
        BY <3>2 DEF ClientClose
      <4>. QED  BY <1>2, <4>1 DEF Client
    <3>. QED  BY <1>4, <3>1, <3>2
  <2>. QED  BY <1>1, <1>3, <2>1, GateFrame
<1>5. CASE ClientReceive(c)
  <2> DEFINE b == client[c].inbox
             e == Head(b)
  <2>1. b \in Seq(Event) /\ b # <<>> /\ client[c].phase = "waiting"
    BY <1>2, <1>5 DEF ClientReceive, Client
  <2>2. /\ client'[c].inbox = Tail(b) /\ client'[c].q = e.q
        /\ client'[c].phase = "asking" => e.type = "ask"
        /\ \A d \in Calls : d # c => client'[d] = client[d]
    BY <1>2, <1>5 DEF ClientReceive, Client
  <2>3. GateCall(c) /\ OneAsk(b, worker[c].q) /\ (NoAsk(serve[c].events) \/ NoAsk(b))
    BY <1>3 DEF GateCall, InOnePlace
  <2>4. /\ OneAsk(Tail(b), worker[c].q)
        /\ NoAsk(b) => NoAsk(Tail(b)) /\ e.type # "ask"
        /\ e.type = "ask" => e.q = worker[c].q /\ NoAsk(Tail(b))
    BY <2>1, <2>3, AskTaken
  <2> HIDE DEF e, b
  <2>5. worker[c].pc \in {"list", "put"} => NoAsk(serve[c].events) /\ NoAsk(b)
    BY <2>3 DEF GateCall, InOnePlace, b
  <2>6. InOnePlace(c)'
    BY <1>1, <2>2, <2>3, <2>4, <2>5 DEF GateCall, InOnePlace
  <2>7. Carried(c)' => Carried(c)
    BY <1>1, <2>2, <2>4 DEF Carried, b
  <2>8. NothingRan(c)' = NothingRan(c)
    BY <1>1 DEF NothingRan
  <2>9. Unsettled(c)' /\ RefusedStops(c)' /\ NotYetRun(c)'
    BY <1>1, <2>3, <2>7, <2>8 DEF GateCall, Unsettled, RefusedStops, NotYetRun
  <2>10. ASSUME NEW d \in Calls, d # c PROVE GateCall(d)'
    BY <1>1, <1>3, <2>2, <2>10, GateFrame
  <2>. QED  BY <2>6, <2>9, <2>10 DEF GateCall
<1>. QED  BY <1>4, <1>5

\* The user answers the question of the call, which nobody has answered before.
LEMMA AnswerFacts ==
  ASSUME TypeOK, IInv, GateInv, NEW c \in Calls, NEW yes \in BOOLEAN, ClientAnswer(c, yes)
  PROVE  /\ replied' = replied \cup {[q |-> worker[c].q, yes |-> yes]}
         /\ worker[c].q \in asked /\ worker[c].q.call = c /\ worker[c].q \in Question
         /\ \A r \in replied : r.q # worker[c].q
         /\ worker[c].pc \in {"wait", "done"} /\ NothingRan(c)
         /\ UNCHANGED <<worker, serve, ran, asked>>
         /\ NoAsk(serve[c].events) /\ NoAsk(client[c].inbox)
<1>1. client[c].phase = "asking" /\ client[c].q \in asked
  BY DEF ClientAnswer, IInv, Circulating, ClientCarries
<1>2. GateCall(c) /\ worker[c].q.call = c /\ worker[c] \in Worker
  BY DEF IInv, CallsInv, CallInv, GateInv, GateCall, TypeOK
<1>3. Carried(c) /\ client[c].q = worker[c].q /\ worker[c].pc \notin {"list", "put"}
      /\ NoAsk(serve[c].events) /\ NoAsk(client[c].inbox)
  BY <1>1, <1>2 DEF GateCall, InOnePlace, Carried
<1>4. worker[c].pc \in {"wait", "done"} /\ NothingRan(c) /\ \A r \in replied : r.q # worker[c].q
  BY <1>2, <1>3 DEF GateCall, Unsettled
<1>5. replied' = replied \cup {[q |-> client[c].q, yes |-> yes]} /\ UNCHANGED <<worker, serve, ran, asked>>
  BY DEF ClientAnswer
<1>. QED  BY <1>1, <1>2, <1>3, <1>4, <1>5 DEF Worker

LEMMA GateClientAnswer ==
  ASSUME TypeOK, IInv, GateInv, NEW c \in Calls, NEW yes \in BOOLEAN, ClientAnswer(c, yes)
  PROVE  AnsweredOnce' /\ \A d \in Calls : GateCall(d)'
<1> DEFINE a == [q |-> worker[c].q, yes |-> yes]
<1>1. a.q = worker[c].q /\ a.yes = yes /\ replied' = replied \cup {a}
  BY AnswerFacts
<1> HIDE DEF a
<1>2. /\ worker[c].q \in asked /\ worker[c].q.call = c
      /\ \A r \in replied : r.q # worker[c].q
      /\ worker[c].pc \in {"wait", "done"} /\ NothingRan(c)
      /\ UNCHANGED <<worker, serve, ran, asked>>
      /\ NoAsk(serve[c].events) /\ NoAsk(client[c].inbox)
  BY AnswerFacts
<1>3. client' = [client EXCEPT ![c].phase = "responding"] /\ client \in [Calls -> Client]
  BY DEF ClientAnswer, TypeOK
<1>4. /\ client'[c].phase = "responding" /\ client'[c].inbox = client[c].inbox
      /\ \A d \in Calls : d # c => client'[d] = client[d]
  BY <1>3 DEF Client
<1>5. \A d \in Calls : worker[d].q.call = d /\ GateCall(d)
  BY DEF IInv, CallsInv, CallInv, GateInv, GateCall
<1>6. AnsweredOnce'
  BY <1>1, <1>2 DEF GateInv, AnsweredOnce
<1>7. InOnePlace(c)' /\ Unsettled(c)'
  BY <1>2, <1>4 DEF InOnePlace, OneAsk, NoAsk, Unsettled, Carried
<1>8. NothingRan(c)'
  BY <1>2 DEF NothingRan
<1>9. RefusedStops(c)' /\ NotYetRun(c)'
  BY <1>1, <1>2, <1>5, <1>8 DEF GateCall, RefusedStops, NotYetRun
<1>10. ASSUME NEW d \in Calls, d # c PROVE GateCall(d)'
  BY <1>1, <1>2, <1>4, <1>5, <1>10, GateFrame
<1>. QED  BY <1>6, <1>7, <1>9, <1>10 DEF GateCall

LEMMA GateInvStep ==
  ASSUME TypeOK, IInv, GateInv, [Next]_vars
  PROVE  GateInv'
<1>1. SUFFICES AnsweredOnce' /\ \A d \in Calls : GateCall(d)'
  BY DEF GateInv, GateCall
<1>2. \A d \in Calls : worker[d].q.call = d /\ GateCall(d)
  BY DEF IInv, CallsInv, CallInv, GateInv, GateCall
<1>3. CASE \E c \in Calls, yes \in BOOLEAN : ClientAnswer(c, yes)
  BY <1>3, GateClientAnswer
<1>4. CASE UNCHANGED vars
  <2>1. UNCHANGED <<worker, serve, client, replied, ran, asked>>
    BY <1>4 DEF vars, past
  <2>2. AnsweredOnce'
    BY <2>1 DEF GateInv, AnsweredOnce
  <2>. QED  BY <1>2, <2>1, <2>2, GateFrame
<1>5. CASE Next /\ ~\E c \in Calls, yes \in BOOLEAN : ClientAnswer(c, yes)
  <2>1. replied' = replied
    <3>1. ASSUME NEW c \in Calls, WorkerStep(c) \/ RunBinary(c) \/ ExitCommand(c) PROVE replied' = replied
      BY <3>1, WorkerFrame
    <3>2. ASSUME NEW c \in Calls, LoopStep(c) \/ ReplyStep PROVE replied' = replied
      BY <3>2, LoopFrame
    <3>3. CASE ReplyStep
      <4>1. PICK r \in replies : HandleReply(r) \/ HandleReplyFails(r)
        BY <3>3 DEF ReplyStep
      <4>. QED  BY <4>1 DEF HandleReply, HandleReplyFails, past
    <3>4. ASSUME NEW c \in Calls,
                 \/ ClientReceive(c) \/ ClientEof(c) \/ ClientClose(c) \/ ClientGiveUp(c)
                 \/ \E req \in Requests : StartCall(c, req)
          PROVE  replied' = replied
      BY <3>4 DEF ClientReceive, ClientEof, ClientClose, ClientGiveUp, StartCall, past
    <3>5. CASE Authenticate \/ (\E t \in live : TokenDies(t)) \/ (\E b \in Unlistable : Unlist(b))
      BY <3>5 DEF Authenticate, TokenDies, Unlist, past
    <3>. QED  BY <1>5, <3>1, <3>2, <3>3, <3>4, <3>5 DEF Next
  <2>2. asked \subseteq asked'
    <3>1. CASE \E c \in Calls : Register(c)
      BY <3>1 DEF Register
    <3>. QED  BY <1>5, <3>1, OnlyRegister
  <2>3. AnsweredOnce'
    BY <2>1, <2>2 DEF GateInv, AnsweredOnce
  <2>4. ASSUME NEW c \in Calls, WorkerStep(c) \/ RunBinary(c) \/ ExitCommand(c)
        PROVE  \A d \in Calls : GateCall(d)'
    <3>1. CASE Register(c) /\ worker[c].req.emit
      BY <2>4, <3>1, GateOthers, GateRegister
    <3>2. CASE ListQuestion(c) \/ PutQuestion(c)
      BY <2>4, <3>2, GateOthers, GatePut
    <3>3. CASE Answered(c)
      BY <2>4, <3>3, GateOthers, GateAnswered
    <3>4. CASE ~((Register(c) /\ worker[c].req.emit) \/ ListQuestion(c) \/ PutQuestion(c) \/ Answered(c))
      <4>1. \/ Prepare(c) \/ PrepareRejects(c) \/ (Register(c) /\ ~worker[c].req.emit) \/ CheckToken(c)
            \/ FetchToken(c) \/ ClearToken(c) \/ EnrollToken(c) \/ EnrollFails(c) \/ StoreToken(c)
            \/ KillCommand(c) \/ RunBinary(c) \/ ExitCommand(c)
        BY <2>4, <3>4 DEF WorkerStep
      <4>. QED  BY <2>4, <4>1, GateOthers, GateOwnFree
    <3>. QED  BY <3>1, <3>2, <3>3, <3>4
  <2>5. CASE Authenticate \/ (\E t \in live : TokenDies(t)) \/ (\E b \in Unlistable : Unlist(b))
    <3>1. UNCHANGED <<worker, serve, client, ran>>
      BY <2>5 DEF Authenticate, TokenDies, Unlist, past
    <3>. QED  BY <1>2, <2>1, <2>3, <3>1, GateFrame
  <2>. QED  BY <1>5, <2>3, <2>4, <2>5, GateStart, GateLoop, GateReply, GateClient DEF Next
<1>. QED  BY <1>3, <1>4, <1>5

LEMMA GateInvInit == Init => GateInv
<1> SUFFICES ASSUME Init PROVE GateInv
  OBVIOUS
<1>1. replied = {} /\ ran = {} /\ asked = {}
  BY DEF Init
<1>2. \A c \in Calls : /\ worker[c].pc = "new" /\ client[c].phase = "idle"
                       /\ serve[c].events = <<>> /\ client[c].inbox = <<>>
  BY DEF Init
<1>3. DOMAIN <<>> = {}
  OBVIOUS
<1>4. \A c \in Calls : NoAsk(serve[c].events) /\ NoAsk(client[c].inbox)
  BY <1>2, <1>3 DEF NoAsk
<1>5. \A c \in Calls : InOnePlace(c) /\ Unsettled(c)
  BY <1>2, <1>4 DEF InOnePlace, Unsettled, Carried, OneAsk, NoAsk
<1>6. \A c \in Calls : RefusedStops(c) /\ NotYetRun(c)
  BY <1>1 DEF RefusedStops, NotYetRun, NothingRan
<1>. QED  BY <1>1, <1>5, <1>6 DEF GateInv, AnsweredOnce

LEMMA GateInvariance == Spec => []GateInv
<1>. QED  BY GateInvInit, GateInvStep, TypeCorrect, Invariance, PTL DEF Spec

-----------------------------------------------------------------------------

\* A worker that has begun does not begin again.
LEMMA WorkerBegun ==
  ASSUME TypeOK, NEW c \in Calls, WorkerStep(c) \/ RunBinary(c) \/ ExitCommand(c)
  PROVE  worker[c].pc # "new" /\ worker'[c].pc # "new"
<1>1. worker[c] \in Worker /\ worker \in [Calls -> Worker]
  BY DEF TypeOK
<1>2. ASSUME NEW l, Goto(c, l), l # "new" PROVE worker'[c].pc # "new"
  BY <1>2, GotoMoves
<1>3. ASSUME Finish(c) PROVE worker'[c].pc # "new"
  BY <1>3, GotoMoves DEF Finish
<1>4. ASSUME NEW kind, NEW bins, Ask(c, kind, bins) PROVE worker'[c].pc # "new"
  BY <1>1, <1>4 DEF Ask, Worker
<1>5. CASE PrepareRejects(c) \/ EnrollFails(c) \/ KillCommand(c) \/ ExitCommand(c)
  BY <1>3, <1>5 DEF PrepareRejects, EnrollFails, KillCommand, ExitCommand
<1>6. CASE Prepare(c)
  BY <1>2, <1>3, <1>4, <1>6 DEF Prepare
<1>7. CASE CheckToken(c) \/ StoreToken(c) \/ ListQuestion(c) \/ PutQuestion(c)
  BY <1>2, <1>7 DEF CheckToken, StoreToken, ListQuestion, PutQuestion
<1>8. CASE ClearToken(c)
  BY <1>4, <1>8 DEF ClearToken
<1>9. CASE Register(c)
  BY <1>1, <1>9 DEF Register, Worker
<1>10. CASE FetchToken(c)
  BY <1>1, <1>3, <1>10 DEF FetchToken, Worker
<1>11. CASE Answered(c)
  BY <1>1, <1>2, <1>3, <1>11 DEF Answered, Worker
<1>12. CASE EnrollToken(c)
  BY <1>1, <1>12 DEF EnrollToken, Worker
<1>13. CASE RunBinary(c)
  BY <1>1, <1>13 DEF RunBinary, Worker
<1>. QED  BY <1>5, <1>6, <1>7, <1>8, <1>9, <1>10, <1>11, <1>12, <1>13 DEF WorkerStep

\* How strict a call is, as the gate sees it.
GateMode(c) == IF worker[c].pc = "new" THEN "none"
               ELSE IF worker[c].req.always THEN "strict" ELSE "relaxed"

\* Steps the gate does not see.
LEMMA GateStutters ==
  ASSUME replied' = replied, ran' = ran, \A c \in Calls : GateMode(c)' = GateMode(c)
  PROVE  UNCHANGED Gate!gate
<1>1. \A c \in Calls : \A b \in Binaries : Consented(c, b)' = Consented(c, b)
  BY DEF Consented
<1>2. \A c \in Calls : Refused(c)' = Refused(c)
  BY DEF Refused
<1>. QED  BY <1>1, <1>2 DEF Gate!gate, GateMode

LEMMA GateInit == Init => Gate!Init
<1> SUFFICES ASSUME Init PROVE Gate!Init
  OBVIOUS
<1>1. replied = {} /\ ran = {} /\ \A c \in Calls : worker[c].pc = "new"
  BY DEF Init
<1>. QED  BY <1>1 DEF Gate!Init, Consented, Refused

\* A call that starts opens the gate in its mode.
LEMMA StartOpens ==
  ASSUME TypeOK, IInv, NEW c \in Calls, NEW req \in Requests, StartCall(c, req)
  PROVE  Gate!Next
<1>1. /\ worker' = [worker EXCEPT ![c] = [@ EXCEPT !.pc = "prepare", !.req = req]]
      /\ replied' = replied /\ ran' = ran /\ worker[c].pc = "new"
      /\ worker \in [Calls -> Worker] /\ worker[c] \in Worker
  BY DEF StartCall, past, IInv, CallsInv, CallInv, TypeOK
<1>2. /\ worker'[c].pc = "prepare" /\ \A d \in Calls : d # c => worker'[d] = worker[d]
  BY <1>1 DEF Worker
<1>3. PICK m \in {"strict", "relaxed"} : GateMode(c)' = m
  BY <1>2 DEF GateMode
<1>4. GateMode(c) = "none" /\ \A d \in Calls : d # c => GateMode(d)' = GateMode(d)
  BY <1>1, <1>2 DEF GateMode
<1>5. /\ \A d \in Calls : \A b \in Binaries : Consented(d, b)' = Consented(d, b)
      /\ \A d \in Calls : Refused(d)' = Refused(d)
  BY <1>1 DEF Consented, Refused
<1>6. Gate!Open(c, m)
  BY <1>1, <1>3, <1>4, <1>5 DEF Gate!Open, GateMode
<1>. QED  BY <1>6 DEF Gate!Next

\* An answer of the user agrees or refuses, within the call it is about.
LEMMA AnswerPasses ==
  ASSUME TypeOK, IInv, GateInv, NEW c \in Calls, NEW yes \in BOOLEAN, ClientAnswer(c, yes)
  PROVE  Gate!Next
<1> DEFINE q == worker[c].q
           a == [q |-> q, yes |-> yes]
<1>1. /\ replied' = replied \cup {a} /\ a.q = q /\ a.yes = yes
      /\ q.call = c /\ q \in Question /\ \A r \in replied : r.q # q
      /\ worker[c].pc \in {"wait", "done"} /\ NothingRan(c) /\ worker' = worker /\ ran' = ran
  BY AnswerFacts
<1> HIDE DEF a, q
<1>2. GateMode(c) # "none" /\ \A d \in Calls : GateMode(d)' = GateMode(d)
  BY <1>1 DEF GateMode
<1>3. CASE yes
  <2>1. ~Refused(c)
    <3> SUFFICES ASSUME NEW r \in replied, ~r.yes, r.q.call = c PROVE FALSE
      BY DEF Refused
    <3>1. r.q = q
      BY DEF GateInv, RefusedStops, q
    <3>. QED  BY <1>1, <3>1
  <2>2. \A d \in Calls : Refused(d)' = Refused(d)
    BY <1>1, <1>3 DEF Refused
  <2>3. \A d \in Calls : \A b \in Binaries :
          Consented(d, b)' = (Consented(d, b) \/ (d = c /\ b \in q.bins))
    BY <1>1, <1>3 DEF Consented
  <2>4. q.bins \subseteq Binaries
    BY <1>1 DEF Question
  <2>5. Gate!Agree(c, q.bins)
    BY <1>1, <1>2, <2>1, <2>2, <2>3, <2>4 DEF Gate!Agree, GateMode
  <2>. QED  BY <2>4, <2>5 DEF Gate!Next
<1>4. CASE ~yes
  <2>1. \A d \in Calls : \A b \in Binaries : Consented(d, b)' = Consented(d, b)
    BY <1>1, <1>4 DEF Consented
  <2>2. \A d \in Calls : Refused(d)' = (Refused(d) \/ d = c)
    BY <1>1, <1>4 DEF Refused
  <2>3. Gate!Refuse(c)
    BY <1>1, <1>2, <2>1, <2>2 DEF Gate!Refuse, GateMode, NothingRan
  <2>. QED  BY <2>3 DEF Gate!Next
<1>. QED  BY <1>3, <1>4

\* What the wrapper executes the gate allows.
LEMMA RunPasses ==
  ASSUME TypeOK, IInv, GateInv, RunsAreAuthorized', NEW c \in Calls, RunBinary(c)
  PROVE  Gate!Next \/ UNCHANGED Gate!gate
<1> DEFINE b == worker[c].req.command[worker[c].pos]
<1>1. /\ worker[c].pc = "run" /\ replied' = replied
      /\ ran' = ran \/ ran' = ran \cup {<<c, b>>}
  BY DEF RunBinary
<1>2. \A d \in Calls : GateMode(d)' = GateMode(d)
  <2>1. worker[c].pc # "new" /\ worker'[c].pc # "new" /\ worker'[c].req = worker[c].req
        /\ \A d \in Calls : d # c => worker'[d] = worker[d]
    BY WorkerBegun, WorkerFrame
  <2>. QED  BY <2>1 DEF GateMode
<1>3. CASE ran' = ran
  BY <1>1, <1>2, <1>3, GateStutters
<1>4. CASE ran' = ran \cup {<<c, b>>}
  <2>1. b \in Binaries
    BY DEF RunBinary, TypeOK, Worker, Request
  <2> HIDE DEF b
  <2>2. ~Refused(c)
    BY <1>1 DEF GateInv, RefusedStops, Refused
  <2>3. /\ \A d \in Calls : \A x \in Binaries : Consented(d, x)' = Consented(d, x)
        /\ \A d \in Calls : Refused(d)' = Refused(d)
    BY <1>1 DEF Consented, Refused
  <2>4. \/ Consented(c, b)
        \/ ~worker[c].req.always /\ (b \in Listed \/ \E d \in Calls : Consented(d, b))
    <3>1. <<c, b>> \in ran'
      BY <1>4
    <3>2. <<c, b>>[1] = c /\ <<c, b>>[2] = b
      OBVIOUS
    <3>3. \/ \E r \in replied' : r.yes /\ r.q.call = c /\ b \in r.q.bins
          \/ /\ ~worker'[c].req.always
             /\ b \in Listed \/ \E d \in Calls : \E r \in replied' :
                                  r.yes /\ r.q.call = d /\ b \in r.q.bins
      BY <3>1, <3>2 DEF RunsAreAuthorized, Consented
    <3>4. worker'[c].req = worker[c].req
      BY WorkerFrame
    <3>. QED  BY <1>1, <3>3, <3>4 DEF Consented
  <2>5. GateMode(c) # "none" /\ (~worker[c].req.always => GateMode(c) = "relaxed")
    BY <1>1 DEF GateMode
  <2>6. Gate!Allowed(c, b)
    BY <2>1, <2>4, <2>5 DEF Gate!Allowed, GateMode
  <2>7. Gate!Run(c, b)
    BY <1>2, <1>4, <2>2, <2>3, <2>5, <2>6 DEF Gate!Run, GateMode
  <2>. QED  BY <2>1, <2>7 DEF Gate!Next
<1>. QED  BY <1>1, <1>3, <1>4

LEMMA GateStep ==
  ASSUME TypeOK, IInv, GateInv, RunsAreAuthorized', [Next]_vars
  PROVE  Gate!Next \/ UNCHANGED Gate!gate
<1>1. CASE UNCHANGED vars
  <2>1. replied' = replied /\ ran' = ran /\ worker' = worker
    BY <1>1 DEF vars, past
  <2>. QED  BY <2>1, GateStutters DEF GateMode
<1>2. ASSUME NEW c \in Calls, WorkerStep(c) \/ ExitCommand(c)
      PROVE  UNCHANGED Gate!gate
  <2>1. /\ worker[c].pc # "new" /\ worker'[c].pc # "new" /\ worker'[c].req = worker[c].req
        /\ \A d \in Calls : d # c => worker'[d] = worker[d]
        /\ replied' = replied
    BY <1>2, WorkerBegun, WorkerFrame
  <2>2. ran' = ran
    BY <1>2
    DEF WorkerStep, Prepare, PrepareRejects, Register, ListQuestion, PutQuestion,
        Answered, CheckToken, FetchToken, ClearToken, EnrollToken, EnrollFails,
        StoreToken, KillCommand, ExitCommand, past
  <2>3. \A d \in Calls : GateMode(d)' = GateMode(d)
    BY <2>1 DEF GateMode
  <2>. QED  BY <2>1, <2>2, <2>3, GateStutters
<1>3. ASSUME NEW c \in Calls, LoopStep(c) \/ ReplyStep PROVE UNCHANGED Gate!gate
  <2>1. /\ replied' = replied /\ ran' = ran
        /\ \A d \in Calls : worker'[d].pc = worker[d].pc /\ worker'[d].req = worker[d].req
    BY <1>3, LoopFrame
  <2>2. \A d \in Calls : GateMode(d)' = GateMode(d)
    BY <2>1 DEF GateMode
  <2>. QED  BY <2>1, <2>2, GateStutters
<1>4. ASSUME NEW c \in Calls, ClientReceive(c) \/ ClientEof(c) \/ ClientClose(c) \/ ClientGiveUp(c)
      PROVE  UNCHANGED Gate!gate
  <2>1. replied' = replied /\ ran' = ran /\ worker' = worker
    BY <1>4 DEF ClientReceive, ClientEof, ClientClose, ClientGiveUp, past
  <2>. QED  BY <2>1, GateStutters DEF GateMode
<1>5. CASE Authenticate \/ (\E t \in live : TokenDies(t)) \/ (\E b \in Unlistable : Unlist(b))
  <2>1. replied' = replied /\ ran' = ran /\ worker' = worker
    BY <1>5 DEF Authenticate, TokenDies, Unlist, past
  <2>. QED  BY <2>1, GateStutters DEF GateMode
<1>6. CASE ReplyStep
  <2>1. PICK r \in replies : TRUE
    BY <1>6 DEF ReplyStep
  <2>2. r.q.call \in Calls
    BY DEF TypeOK, Reply, Question
  <2>. QED  BY <1>3, <1>6, <2>2
<1>. QED  BY <1>1, <1>2, <1>3, <1>4, <1>5, <1>6, StartOpens, AnswerPasses, RunPasses DEF Next

\* The tool server implements PrivilegeGate: what the user is asked and what the
\* wrapper executes are steps of the gate, and every other step leaves it alone
\* (_exec_shell, request_approval, _resolve_approval).
THEOREM GateImplemented == Spec => GateHolds
<1>1. TypeOK /\ IInv /\ GateInv /\ IInv' /\ [Next]_vars => [Gate!Next]_(Gate!gate)
  <2>1. IInv' => RunsAreAuthorized'
    BY DEF IInv
  <2>. QED  BY <2>1, GateStep
<1>. QED  BY <1>1, GateInit, TypeCorrect, Invariance, GateInvariance, PTL
          DEF Spec, GateHolds, Gate!Spec
=============================================================================

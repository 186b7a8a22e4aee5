--------------------------------- MODULE AuthD ---------------------------------
(***************************************************************************)
(* golim-authd, the root-side daemon that mints the session tokens the     *)
(* privileged wrapper asks for.  Every connection has a thread of its own, *)
(* one more thread forgets expired tokens.  Handlers read the clock first  *)
(* and take a lock afterwards, and a registration gives its lock up while  *)
(* sudo verifies the password: between two steps of one thread here the    *)
(* others may do anything, and the time a thread works with may be old.    *)
(*                                                                         *)
(* Success forgets the failures of its uid under another lock than the one *)
(* the failures are counted under.  Each count is one step here all the    *)
(* same: a count that goes on with a list already forgotten is a count     *)
(* made just before.                                                       *)
(***************************************************************************)
EXTENDS Naturals

CONSTANTS
  Users,      \* users of the machine, each with one uid
  Root,       \* the one whose uid is 0, as which the wrapper calls
  Members,    \* users that register sessions
  Conns,      \* connection threads
  TTL, Limit, Ban, Window,  \* token_ttl and the REGISTER_ constants
  MaxTime,    \* bound: the clock stops here
  MaxTokens   \* bound: tokens ever minted

ASSUME AuthDAssumption ==
  /\ Root \in Users /\ Members \subseteq Users
  /\ TTL \in Nat \ {0} /\ Limit \in Nat \ {0} /\ Ban \in Nat /\ Window \in Nat
  /\ MaxTime \in Nat /\ MaxTokens \in Nat

VARIABLES
  now,        \* time.time()
  tokens,     \* _tokens; a user without tokens is a user without an entry
  failures,   \* _register_failures
  conn,       \* per connection thread: the request it handles
  cleaner,    \* the cleanup thread
  issued,     \* history: how many tokens have been minted
  minted,     \* history: every token ever stored
  revoked,    \* history: tokens revoked, or lost in a restart
  imposed     \* history: when the last ban of a user was imposed

history == <<issued, minted, revoked, imposed>>
vars    == <<now, tokens, failures, conn, cleaner, history>>

Ids   == 1..MaxTokens
Time  == 0..MaxTime
Token == [id: Ids, user: Users, expiry: Nat]

\* [failure_count, banned_until, window_start]; `none' is a uid without entry.
\* However failures of several connections mix with successes and resets, the
\* count never stays at the limit: reaching it imposes a ban and cuts it back.
NoFailures == [none |-> TRUE, count |-> 0, banned |-> 0, start |-> 0]
Failures   == [none: BOOLEAN, count: 0..(Limit - 1), banned: Nat, start: Nat]

Conn == [pc: {"idle", "check", "password", "mint", "failed",
              "verify", "revoke", "answered"},
         peer: Users, user: Users, at: Nat, token: Nat,
         valid: BOOLEAN, gone: BOOLEAN]

TypeOK ==
  /\ now \in Time
  /\ tokens \subseteq minted /\ minted \subseteq Token
  /\ failures \in [Users -> Failures]
  /\ conn \in [Conns -> Conn]
  /\ cleaner \in [busy: BOOLEAN, at: Nat]
  /\ issued \in 0..MaxTokens
  /\ revoked \subseteq Ids
  /\ imposed \in [Users -> Nat]

Idle == [pc |-> "idle", peer |-> Root, user |-> Root, at |-> 0, token |-> 0,
         valid |-> FALSE, gone |-> FALSE]

Init ==
  /\ now = 0 /\ tokens = {} /\ failures = [u \in Users |-> NoFailures]
  /\ conn = [c \in Conns |-> Idle]
  /\ cleaner = [busy |-> FALSE, at |-> 0]
  /\ issued = 0 /\ minted = {} /\ revoked = {} /\ imposed = [u \in Users |-> 0]

\* _peer_can_use_user
MayUse(peer, user) == peer = Root \/ peer = user

-----------------------------------------------------------------------------
(* register {user, password}: the peer must be the user.                   *)

Begin(c, req) == conn[c].pc = "idle" /\ conn' = [conn EXCEPT ![c] = req]

BeginRegister(c, u) ==
  /\ Begin(c, [Idle EXCEPT !.pc = "check", !.peer = u, !.user = u, !.at = now])
  /\ UNCHANGED <<now, tokens, failures, cleaner, history>>

Goto(c, label) == conn' = [conn EXCEPT ![c].pc = label]
Done(c)        == conn' = [conn EXCEPT ![c] = Idle]

Banned(u, time) == failures[u].banned # 0 /\ time < failures[u].banned

\* Mutant: the ban is not looked at.
RegisterAllowedAlways(c) ==
  /\ conn[c].pc = "check"
  /\ Goto(c, "password")
  /\ UNCHANGED <<now, tokens, failures, cleaner, history>>

\* _register_allowed, under _register_lock.
RegisterAllowed(c) ==
  LET u == conn[c].user
      s == failures[u] IN
  /\ conn[c].pc = "check"
  /\ \/ /\ Banned(u, conn[c].at)
        /\ Done(c)
        /\ UNCHANGED failures
     \/ /\ ~Banned(u, conn[c].at)
        /\ Goto(c, "password")
        /\ failures' = IF ~s.none /\ conn[c].at > s.start + Window
                         THEN [failures EXCEPT ![u] = [@ EXCEPT !.count = 0, !.start = conn[c].at]]
                         ELSE failures
  /\ UNCHANGED <<now, tokens, cleaner, history>>

\* _verify_password: sudo accepts it or not, after any time.
PasswordVerified(c) ==
  /\ conn[c].pc = "password"
  /\ Goto(c, "mint") \/ Goto(c, "failed")
  /\ UNCHANGED <<now, tokens, failures, cleaner, history>>

\* _register_failed, under _register_lock, with the time of the request.
RegisterFailed(c) ==
  LET u == conn[c].user
      n == failures[u].count + 1
      full == n >= Limit IN
  /\ conn[c].pc = "failed"
  /\ failures' = [failures EXCEPT ![u] =
       [none |-> FALSE, count |-> IF full THEN 0 ELSE n, start |-> conn[c].at,
        banned |-> IF full THEN conn[c].at + Ban ELSE failures[u].banned]]
  /\ imposed' = IF full THEN [imposed EXCEPT ![u] = now] ELSE imposed
  /\ Done(c)
  /\ UNCHANGED <<now, tokens, cleaner, issued, minted, revoked>>

\* The token is stored and the failures are forgotten, under _lock.
Mint(c) ==
  LET t == [id |-> issued + 1, user |-> conn[c].user, expiry |-> conn[c].at + TTL] IN
  /\ conn[c].pc = "mint" /\ issued < MaxTokens
  /\ tokens' = tokens \cup {t} /\ minted' = minted \cup {t} /\ issued' = issued + 1
  /\ failures' = [failures EXCEPT ![conn[c].user] = NoFailures]
  /\ imposed' = [imposed EXCEPT ![conn[c].user] = 0]
  /\ Done(c)
  /\ UNCHANGED <<now, cleaner, revoked>>

-----------------------------------------------------------------------------
(* verify and revoke {user, token}, by the user or by root.                *)

\* The clock is read; token 0 is one that golim-authd has never minted.
BeginVerify(c, p, u, t) ==
  /\ t <= issued
  /\ Begin(c, [pc |-> "verify", peer |-> p, user |-> u, at |-> now,
               token |-> t, valid |-> FALSE, gone |-> t \in revoked])
  /\ UNCHANGED <<now, tokens, failures, cleaner, history>>

\* Mutant: a token verifies at its expiry, when the cleanup may have it.
VerifyAtExpiry(c) ==
  LET r == conn[c] IN
  /\ r.pc = "verify"
  /\ conn' = [conn EXCEPT ![c] = [r EXCEPT !.pc = "answered",
       !.valid = MayUse(r.peer, r.user) /\
         \E t \in tokens : t.id = r.token /\ t.user = r.user /\ t.expiry >= r.at]]
  /\ UNCHANGED <<now, tokens, failures, cleaner, history>>

\* The token is looked up under _lock.
Verify(c) ==
  LET r == conn[c] IN
  /\ r.pc = "verify"
  /\ conn' = [conn EXCEPT ![c] = [r EXCEPT !.pc = "answered",
       !.valid = MayUse(r.peer, r.user) /\
         \E t \in tokens : t.id = r.token /\ t.user = r.user /\ t.expiry > r.at]]
  /\ UNCHANGED <<now, tokens, failures, cleaner, history>>

\* The peer reads the answer.
Answer(c) ==
  /\ conn[c].pc = "answered"
  /\ Done(c)
  /\ UNCHANGED <<now, tokens, failures, cleaner, history>>

BeginRevoke(c, p, u, t) ==
  /\ t <= issued
  /\ Begin(c, [Idle EXCEPT !.pc = "revoke", !.peer = p, !.user = u, !.token = t])
  /\ UNCHANGED <<now, tokens, failures, cleaner, history>>

Revoke(c) ==
  LET r == conn[c]
      dead == {t \in tokens : t.id = r.token /\ t.user = r.user /\ MayUse(r.peer, r.user)}
  IN
  /\ r.pc = "revoke"
  /\ tokens' = tokens \ dead
  /\ revoked' = revoked \cup {t.id : t \in dead}
  /\ Done(c)
  /\ UNCHANGED <<now, failures, cleaner, issued, minted, imposed>>

-----------------------------------------------------------------------------
(* cleanup_loop, the clock and the daemon itself.                          *)

\* The thread wakes up and reads the clock ...
CleanupStart ==
  /\ ~cleaner.busy
  /\ \E t \in tokens : t.expiry <= now   \* otherwise it changes nothing
  /\ cleaner' = [busy |-> TRUE, at |-> now]
  /\ UNCHANGED <<now, tokens, failures, conn, history>>

\* Mutant: a token is kept for one more period.
CleanupLate ==
  /\ cleaner.busy
  /\ tokens' = {t \in tokens : t.expiry + TTL > cleaner.at}
  /\ cleaner' = [cleaner EXCEPT !.busy = FALSE]
  /\ UNCHANGED <<now, failures, conn, history>>

\* ... and drops under _lock what had expired by then.
Cleanup ==
  /\ cleaner.busy
  /\ tokens' = {t \in tokens : t.expiry > cleaner.at}
  /\ cleaner' = [cleaner EXCEPT !.busy = FALSE]
  /\ UNCHANGED <<now, failures, conn, history>>

Tick ==
  /\ now < MaxTime
  /\ now' = now + 1
  /\ UNCHANGED <<tokens, failures, conn, cleaner, history>>

\* The daemon dies and is started again: all it knew was in memory.
Restart ==
  /\ tokens' = {} /\ failures' = [u \in Users |-> NoFailures]
  /\ conn' = [c \in Conns |-> Idle]
  /\ cleaner' = [busy |-> FALSE, at |-> 0]
  /\ revoked' = revoked \cup {t.id : t \in tokens}
  /\ imposed' = [u \in Users |-> 0]
  /\ UNCHANGED <<now, issued, minted>>

-----------------------------------------------------------------------------

Handle(c) ==
  \/ RegisterAllowed(c) \/ PasswordVerified(c) \/ RegisterFailed(c) \/ Mint(c)
  \/ Verify(c) \/ Answer(c) \/ Revoke(c)

Request(c) ==
  \/ \E u \in Members : BeginRegister(c, u)
  \/ \E p, u \in Users, t \in 0..MaxTokens : BeginVerify(c, p, u, t) \/ BeginRevoke(c, p, u, t)

Next ==
  \/ \E c \in Conns : Request(c) \/ Handle(c)
  \/ CleanupStart \/ Cleanup \/ Tick \/ Restart

Spec == Init /\ [][Next]_vars

\* The cleanup thread is scheduled; clients owe nothing.
FairSpec == Spec /\ WF_vars(CleanupStart) /\ WF_vars(Cleanup)

-----------------------------------------------------------------------------

\* Safety.  A verification that says valid was asked by the user or by root
\* for a token minted for that user, not expired when the request came in and
\* not revoked before it came in, whatever other threads did meanwhile.
ValidMeansLive ==
  \A c \in Conns : conn[c].pc = "answered" /\ conn[c].valid =>
    /\ ~conn[c].gone /\ MayUse(conn[c].peer, conn[c].user)
    /\ \E t \in minted : /\ t.id = conn[c].token /\ t.user = conn[c].user
                         /\ conn[c].at < t.expiry

\* Safety.  A token is not lost before its time: an allowed peer that is told
\* no asked for a token that is revoked, expired or not of that user.
LiveMeansValid ==
  \A c \in Conns : \A t \in minted :
    /\ conn[c].pc = "answered" /\ ~conn[c].valid
    /\ MayUse(conn[c].peer, conn[c].user)
    /\ t.id = conn[c].token /\ t.user = conn[c].user
    => t.id \in revoked \/ t.expiry <= now

\* Safety.  Verdicts on tokens err in neither direction: what is called valid
\* was so when it was asked, and a token that holds is not refused.
VerdictsAreTrue == ValidMeansLive /\ LiveMeansValid

\* Safety.  During a ban sudo is only asked for registrations that had come in
\* when the ban was imposed; what comes in later is turned away.
BanHolds ==
  \A c \in Conns : conn[c].pc = "password" /\ Banned(conn[c].user, conn[c].at) =>
    conn[c].at <= imposed[conn[c].user]

\* Liveness.  The digest of an expired token does not stay in memory.
ExpiredForgotten ==
  \A i \in Ids :
    (\E t \in tokens : t.id = i /\ t.expiry <= now) ~> (\A t \in tokens : t.id # i)
=============================================================================

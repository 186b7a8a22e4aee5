----------------------------- MODULE AuthD_proofs -----------------------------
(* Proofs about golim-authd, for any users, connections, limits and times. *)
EXTENDS AuthD, TLAPS

LEMMA ConnTyped ==
  ASSUME conn \in [Conns -> Conn], NEW c \in Conns, NEW r \in Conn,
         conn' = [conn EXCEPT ![c] = r]
  PROVE  conn' \in [Conns -> Conn]
OBVIOUS

LEMMA IdleTyped == Idle \in Conn
BY AuthDAssumption DEF Idle, Conn

LEMMA NoFailuresTyped == NoFailures \in Failures
BY AuthDAssumption DEF NoFailures, Failures

LEMMA GotoTyped ==
  ASSUME conn \in [Conns -> Conn], NEW c \in Conns,
         NEW l \in {"password", "mint", "failed"}, Goto(c, l)
  PROVE  conn' \in [Conns -> Conn]
BY DEF Goto, Conn

LEMMA DoneTyped ==
  ASSUME conn \in [Conns -> Conn], NEW c \in Conns, Done(c)
  PROVE  conn' \in [Conns -> Conn]
BY IdleTyped DEF Done

LEMMA FailureNumbers ==
  ASSUME TypeOK, NEW c \in Conns
  PROVE  \E u \in Users, n \in Nat, time \in Nat, b \in Nat :
           /\ u = conn[c].user /\ time = conn[c].at
           /\ n = failures[u].count + 1 /\ b = failures[u].banned
<1>1. conn[c].user \in Users /\ conn[c].at \in Nat
  BY DEF TypeOK, Conn
<1>2. failures[conn[c].user] \in Failures
  BY <1>1 DEF TypeOK
<1>3. failures[conn[c].user].count + 1 \in Nat /\ failures[conn[c].user].banned \in Nat
  BY <1>2, AuthDAssumption DEF Failures
<1>. QED  BY <1>1, <1>3

\* The types are kept; the inductive invariant is TypeOK itself.
LEMMA TypeStep ==
  ASSUME TypeOK, [Next]_vars
  PROVE  TypeOK'
<1> USE DEF history
<1>1. ASSUME NEW c \in Conns, NEW u \in Users, BeginRegister(c, u) PROVE TypeOK'
  <2>1. [Idle EXCEPT !.pc = "check", !.peer = u, !.user = u, !.at = now] \in Conn
    <3>1. now \in Nat
      BY AuthDAssumption DEF TypeOK, Time
    <3>. QED  BY <3>1, IdleTyped DEF Conn
  <2>. QED  BY <1>1, <2>1, ConnTyped DEF TypeOK, BeginRegister, Begin
<1>2. ASSUME NEW c \in Conns, NEW p \in Users, NEW u \in Users, NEW t \in 0..MaxTokens,
             BeginVerify(c, p, u, t)
      PROVE  TypeOK'
  <2>1. [pc |-> "verify", peer |-> p, user |-> u, at |-> now, token |-> t,
         valid |-> FALSE, gone |-> t \in revoked] \in Conn
    BY AuthDAssumption DEF TypeOK, Conn, Time
  <2>. QED  BY <1>2, <2>1, ConnTyped DEF TypeOK, BeginVerify, Begin
<1>3. ASSUME NEW c \in Conns, NEW p \in Users, NEW u \in Users, NEW t \in 0..MaxTokens,
             BeginRevoke(c, p, u, t)
      PROVE  TypeOK'
  <2>1. [Idle EXCEPT !.pc = "revoke", !.peer = p, !.user = u, !.token = t] \in Conn
    <3>1. t \in Nat
      BY AuthDAssumption
    <3>. QED  BY <3>1, IdleTyped DEF Conn
  <2>. QED  BY <1>3, <2>1, ConnTyped DEF TypeOK, BeginRevoke, Begin
<1>4. ASSUME NEW c \in Conns, RegisterAllowed(c) PROVE TypeOK'
  <2>0. PICK u : u = conn[c].user
    OBVIOUS
  <2>1. conn' \in [Conns -> Conn]
    BY <1>4, GotoTyped, DoneTyped DEF TypeOK, RegisterAllowed
  <2>2. failures' \in [Users -> Failures]
    <3>1. PICK time : time = conn[c].at
      OBVIOUS
    <3>2. time \in Nat /\ u \in Users
      BY <2>0, <3>1 DEF TypeOK, Conn
    <3>3. \/ failures' = failures
          \/ failures' = [failures EXCEPT ![u] = [@ EXCEPT !.count = 0, !.start = time]]
      BY <1>4, <2>0, <3>1 DEF RegisterAllowed
    <3>4. ASSUME NEW f \in Failures PROVE [f EXCEPT !.count = 0, !.start = time] \in Failures
      <4> DEFINE S == 0..(Limit - 1)
      <4>1. 0 \in S
        BY AuthDAssumption
      <4>2. Failures = [none: BOOLEAN, count: S, banned: Nat, start: Nat]
        BY DEF Failures
      <4> HIDE DEF S
      <4>. QED  BY <3>2, <4>1, <4>2
    <3>5. failures \in [Users -> Failures]
      BY DEF TypeOK
    <3>. QED  BY <3>2, <3>3, <3>4, <3>5
  <2>. QED  BY <1>4, <2>1, <2>2 DEF TypeOK, RegisterAllowed
<1>5. ASSUME NEW c \in Conns, PasswordVerified(c) PROVE TypeOK'
  BY <1>5, GotoTyped DEF TypeOK, PasswordVerified
<1>6. ASSUME NEW c \in Conns, RegisterFailed(c) PROVE TypeOK'
  <2>1. PICK u \in Users, n \in Nat, time \in Nat, b \in Nat :
          /\ u = conn[c].user /\ time = conn[c].at
          /\ n = failures[u].count + 1 /\ b = failures[u].banned
    BY FailureNumbers
  <2>2. PICK f : f = [none |-> FALSE, count |-> IF n >= Limit THEN 0 ELSE n,
                      start |-> time, banned |-> IF n >= Limit THEN time + Ban ELSE b]
    OBVIOUS
  <2>3. f \in Failures
    BY <2>2, AuthDAssumption DEF Failures
  <2>4. /\ failures' = [failures EXCEPT ![u] = f]
        /\ imposed' = [imposed EXCEPT ![u] = now] \/ imposed' = imposed
        /\ Done(c)
        /\ UNCHANGED <<now, tokens, cleaner, issued, minted, revoked>>
    BY <1>6, <2>1, <2>2 DEF RegisterFailed
  <2>5. failures' \in [Users -> Failures] /\ imposed' \in [Users -> Nat]
    BY <2>3, <2>4, AuthDAssumption DEF TypeOK, Time
  <2>. QED  BY <2>4, <2>5, DoneTyped DEF TypeOK
<1>7. ASSUME NEW c \in Conns, Mint(c) PROVE TypeOK'
  <2>1. PICK t : t = [id |-> issued + 1, user |-> conn[c].user,
                      expiry |-> conn[c].at + TTL]
    OBVIOUS
  <2>2. t \in Token
    BY <1>7, <2>1, AuthDAssumption DEF TypeOK, Token, Ids, Conn, Mint
  <2>3. /\ tokens' = tokens \cup {t} /\ minted' = minted \cup {t}
        /\ issued' = issued + 1 /\ issued < MaxTokens
        /\ failures' = [failures EXCEPT ![conn[c].user] = NoFailures]
        /\ imposed' = [imposed EXCEPT ![conn[c].user] = 0]
        /\ Done(c)
        /\ UNCHANGED <<now, cleaner, revoked>>
    BY <1>7, <2>1 DEF Mint
  <2>4. failures' \in [Users -> Failures] /\ imposed' \in [Users -> Nat]
    BY <2>3, NoFailuresTyped DEF TypeOK
  <2>. QED  BY <2>2, <2>3, <2>4, DoneTyped, AuthDAssumption DEF TypeOK
<1>8. ASSUME NEW c \in Conns, Verify(c) PROVE TypeOK'
  <2>1. PICK v \in BOOLEAN :
          conn' = [conn EXCEPT ![c] = [conn[c] EXCEPT !.pc = "answered", !.valid = v]]
    BY <1>8 DEF Verify
  <2>2. conn' \in [Conns -> Conn]
    BY <2>1 DEF TypeOK, Conn
  <2>. QED  BY <1>8, <2>2 DEF TypeOK, Verify
<1>9. ASSUME NEW c \in Conns, Answer(c) PROVE TypeOK'
  BY <1>9, DoneTyped DEF TypeOK, Answer
<1>10. ASSUME NEW c \in Conns, Revoke(c) PROVE TypeOK'
  <2>1. tokens' \subseteq minted /\ revoked' \subseteq Ids
    BY <1>10 DEF TypeOK, Revoke, Token
  <2>. QED  BY <1>10, <2>1, DoneTyped DEF TypeOK, Revoke
<1>11. CASE CleanupStart \/ Cleanup \/ Tick
  <2>1. now \in Nat /\ (Tick => now + 1 \in Time)
    BY AuthDAssumption DEF TypeOK, Time, Tick
  <2>2. CASE CleanupStart
    BY <2>1, <2>2 DEF TypeOK, CleanupStart
  <2>3. CASE Cleanup
    BY <2>3 DEF TypeOK, Cleanup
  <2>4. CASE Tick
    BY <2>1, <2>4 DEF TypeOK, Tick
  <2>. QED  BY <1>11, <2>2, <2>3, <2>4
<1>12. CASE Restart
  BY <1>12, IdleTyped, NoFailuresTyped DEF TypeOK, Restart, Token
<1>13. CASE UNCHANGED vars
  BY <1>13 DEF TypeOK, vars
<1>. QED
  BY <1>1, <1>2, <1>3, <1>4, <1>5, <1>6, <1>7, <1>8, <1>9, <1>10, <1>11, <1>12, <1>13,
     AuthDAssumption
  DEF Next, Request, Handle

\* Tokens, requests and counters of golim-authd stay well formed; the failure
\* count of a uid stays below the limit, whatever requests overlap.
THEOREM TypeCorrect == Spec => []TypeOK
<1>1. Init => TypeOK
  BY AuthDAssumption, IdleTyped, NoFailuresTyped DEF Init, TypeOK, Time
<1>. QED  BY <1>1, TypeStep, PTL DEF Spec

-----------------------------------------------------------------------------
(* The inductive invariant behind the safety properties.                   *)

\* One connection: it works with a time that has come and asks for a token
\* that has been given out; its verdict and its turn at sudo are in order.
ConnInv(c) ==
  /\ conn[c].at <= now /\ conn[c].token <= issued
  /\ conn[c].gone => conn[c].token \in revoked
  /\ conn[c].pc = "answered" /\ conn[c].valid =>
       /\ ~conn[c].gone /\ MayUse(conn[c].peer, conn[c].user)
       /\ \E t \in minted : /\ t.id = conn[c].token /\ t.user = conn[c].user
                            /\ conn[c].at < t.expiry
  /\ \A t \in minted :
       /\ conn[c].pc = "answered" /\ ~conn[c].valid
       /\ MayUse(conn[c].peer, conn[c].user)
       /\ t.id = conn[c].token /\ t.user = conn[c].user
       => t.id \in revoked \/ t.expiry <= now
  /\ conn[c].pc = "password" /\ Banned(conn[c].user, conn[c].at) =>
       conn[c].at <= imposed[conn[c].user]

\* The table: ids are given out once, and a token is in it until it is revoked
\* or expires, never longer than until it is revoked.
TableInv ==
  /\ cleaner.at <= now
  /\ \A t \in minted : t.id <= issued
  /\ \A t1, t2 \in minted : t1.id = t2.id => t1 = t2
  /\ \A i \in revoked : i <= issued
  /\ \A t \in minted : t \in tokens \/ t.id \in revoked \/ t.expiry <= now
  /\ \A t \in tokens : t.id \notin revoked

IInv == TableInv /\ \A c \in Conns : ConnInv(c)

LEMMA InvProperties == IInv => VerdictsAreTrue /\ BanHolds
BY DEF IInv, ConnInv, VerdictsAreTrue, ValidMeansLive, LiveMeansValid, BanHolds

\* A connection that does not move is only affected by time passing, by new
\* tokens, by revocations and by bans imposed now or forgotten.
LEMMA ConnFrame ==
  ASSUME TypeOK, TypeOK', NEW d \in Conns, ConnInv(d), conn'[d] = conn[d],
         now <= now', issued <= issued', revoked \subseteq revoked',
         minted \subseteq minted', \A t \in minted' : t \in minted \/ t.id > issued,
         \A u \in Users : \/ /\ failures'[u].banned = failures[u].banned
                             /\ imposed'[u] = imposed[u]
                          \/ imposed'[u] = now
                          \/ failures'[u].banned = 0
  PROVE  ConnInv(d)'
<1>1. /\ now \in Nat /\ now' \in Nat /\ issued \in Nat /\ issued' \in Nat
      /\ conn[d].at \in Nat /\ conn[d].token \in Nat /\ conn[d].user \in Users
  BY AuthDAssumption DEF TypeOK, Time, Conn
<1>2. \A t \in minted' : t.id \in Nat /\ t.expiry \in Nat
  BY AuthDAssumption DEF TypeOK, Token, Ids
<1>3. conn'[d].at <= now' /\ conn'[d].token <= issued'
      /\ (conn'[d].gone => conn'[d].token \in revoked')
  BY <1>1 DEF ConnInv
<1>4. conn'[d].pc = "answered" /\ conn'[d].valid =>
       /\ ~conn'[d].gone /\ MayUse(conn'[d].peer, conn'[d].user)
       /\ \E t \in minted' : /\ t.id = conn'[d].token /\ t.user = conn'[d].user
                             /\ conn'[d].at < t.expiry
  BY DEF ConnInv
<1>5. ASSUME NEW t \in minted',
             conn[d].pc = "answered", ~conn[d].valid,
             MayUse(conn[d].peer, conn[d].user),
             t.id = conn[d].token, t.user = conn[d].user
      PROVE  t.id \in revoked' \/ t.expiry <= now'
  <2>1. t \in minted
    BY <1>1, <1>2, <1>5 DEF ConnInv
  <2>. QED  BY <1>1, <1>2, <1>5, <2>1 DEF ConnInv
<1>6. (conn[d].pc = "password" /\ Banned(conn[d].user, conn[d].at)
         => conn[d].at <= imposed[conn[d].user])'
  BY <1>1 DEF ConnInv, Banned
<1>. QED  BY <1>3, <1>4, <1>5, <1>6 DEF ConnInv

LEMMA ConnIdle ==
  ASSUME TypeOK', NEW d \in Conns, conn'[d] = Idle
  PROVE  ConnInv(d)'
BY AuthDAssumption DEF ConnInv, Idle, TypeOK, Time

\* The steps that leave the tokens and the bans alone and move one thread.
LEMMA QuietStep ==
  ASSUME TypeOK, TypeOK', IInv, NEW c \in Conns, ConnInv(c)',
         UNCHANGED <<now, tokens, cleaner, issued, minted, revoked, imposed>>,
         \A d \in Conns : d # c => conn'[d] = conn[d],
         \A u \in Users : failures'[u].banned = failures[u].banned
  PROVE  IInv'
<1>1. TableInv'
  BY DEF IInv, TableInv
<1>2. now <= now /\ issued <= issued
  BY AuthDAssumption DEF TypeOK, Time
<1>3. ASSUME NEW d \in Conns PROVE ConnInv(d)'
  <2>1. CASE d = c
    BY <2>1
  <2>2. CASE d # c
    BY <1>2, <2>2, ConnFrame DEF IInv
  <2>. QED  BY <2>1, <2>2
<1>. QED  BY <1>1, <1>3 DEF IInv

LEMMA IInvStep ==
  ASSUME TypeOK, TypeOK', IInv, [Next]_vars
  PROVE  IInv'
<1> USE DEF history
<1>0. /\ now \in Nat /\ issued \in Nat /\ now <= now /\ issued <= issued
      /\ TableInv /\ \A d \in Conns : ConnInv(d)
  BY AuthDAssumption DEF TypeOK, Time, IInv
<1>1. ASSUME NEW c \in Conns, NEW u \in Users, BeginRegister(c, u) PROVE IInv'
  <2>1. /\ conn'[c] = [Idle EXCEPT !.pc = "check", !.peer = u, !.user = u, !.at = now]
        /\ \A d \in Conns : d # c => conn'[d] = conn[d]
    BY <1>1 DEF BeginRegister, Begin, TypeOK
  <2>2. ConnInv(c)'
    BY <1>0, <1>1, <2>1 DEF ConnInv, Idle, BeginRegister
  <2>. QED  BY <1>1, <2>1, <2>2, QuietStep DEF BeginRegister
<1>2. ASSUME NEW c \in Conns, NEW p \in Users, NEW u \in Users, NEW t \in 0..MaxTokens,
             BeginVerify(c, p, u, t)
      PROVE  IInv'
  <2>0. PICK g : g = (t \in revoked)
    OBVIOUS
  <2>1. /\ conn'[c] = [pc |-> "verify", peer |-> p, user |-> u, at |-> now, token |-> t,
                       valid |-> FALSE, gone |-> g]
        /\ \A d \in Conns : d # c => conn'[d] = conn[d]
    BY <1>2, <2>0 DEF BeginVerify, Begin, TypeOK
  <2>2. ConnInv(c)'
    <3>1. /\ conn'[c].pc = "verify" /\ conn'[c].at = now /\ conn'[c].token = t
          /\ conn'[c].gone = g
      BY <2>1
    <3>2. t <= issued /\ UNCHANGED <<now, issued, minted, revoked>>
      BY <1>2 DEF BeginVerify
    <3>3. g => t \in revoked
      BY <2>0
    <3>. QED  BY <1>0, <3>1, <3>2, <3>3 DEF ConnInv
  <2>. QED  BY <1>2, <2>1, <2>2, QuietStep DEF BeginVerify
<1>3. ASSUME NEW c \in Conns, NEW p \in Users, NEW u \in Users, NEW t \in 0..MaxTokens,
             BeginRevoke(c, p, u, t)
      PROVE  IInv'
  <2>1. /\ conn'[c] = [Idle EXCEPT !.pc = "revoke", !.peer = p, !.user = u, !.token = t]
        /\ \A d \in Conns : d # c => conn'[d] = conn[d]
    BY <1>3 DEF BeginRevoke, Begin, TypeOK
  <2>2. ConnInv(c)'
    BY <1>0, <1>3, <2>1 DEF ConnInv, Idle, BeginRevoke
  <2>. QED  BY <1>3, <2>1, <2>2, QuietStep DEF BeginRevoke
<1>4. ASSUME NEW c \in Conns, Done(c) PROVE ConnInv(c)'
  <2>1. conn'[c] = Idle
    BY <1>4 DEF Done, TypeOK
  <2>. QED  BY <2>1, ConnIdle
<1>5. ASSUME NEW c \in Conns, Done(c) \/ Goto(c, "password") \/ Goto(c, "mint")
             \/ Goto(c, "failed")
      PROVE  \A d \in Conns : d # c => conn'[d] = conn[d]
  BY <1>5 DEF Done, Goto, TypeOK
<1>6. ASSUME NEW c \in Conns, NEW l \in {"password", "mint", "failed"}, Goto(c, l),
             UNCHANGED <<now, issued, revoked>>,
             l = "password" => ~Banned(conn[c].user, conn[c].at)',
             conn[c].pc # "answered"
      PROVE  ConnInv(c)'
  <2>1. /\ conn'[c].pc = l /\ conn'[c].at = conn[c].at /\ conn'[c].token = conn[c].token
        /\ conn'[c].gone = conn[c].gone
    BY <1>6 DEF Goto, TypeOK, Conn
  <2>. QED  BY <1>0, <1>6, <2>1 DEF ConnInv
<1>7. ASSUME NEW c \in Conns, RegisterAllowed(c) PROVE IInv'
  <2>0. PICK u \in Users, time \in Nat : u = conn[c].user /\ time = conn[c].at
    BY DEF TypeOK, Conn
  <2>1. \A x \in Users : failures'[x].banned = failures[x].banned
    <3>1. \/ failures' = failures
          \/ failures' = [failures EXCEPT ![u] = [@ EXCEPT !.count = 0, !.start = time]]
      BY <1>7, <2>0 DEF RegisterAllowed
    <3>. QED  BY <3>1 DEF TypeOK, Failures
  <2>2. CASE Done(c)
    BY <1>4, <1>5, <1>7, <2>1, <2>2, QuietStep DEF RegisterAllowed
  <2>3. CASE ~Banned(conn[c].user, conn[c].at) /\ Goto(c, "password")
    <3>1. conn'[c].user = u /\ conn'[c].at = time
      BY <2>0, <2>3 DEF Goto, TypeOK, Conn
    <3>2. ~Banned(conn[c].user, conn[c].at)'
      BY <2>0, <2>1, <2>3, <3>1 DEF Banned
    <3>3. conn[c].pc # "answered" /\ UNCHANGED <<now, tokens, cleaner, history>>
      BY <1>7 DEF RegisterAllowed
    <3>4. ConnInv(c)'
      BY <1>6, <2>3, <3>2, <3>3
    <3>. QED  BY <1>5, <2>1, <2>3, <3>3, <3>4, QuietStep
  <2>. QED  BY <1>7, <2>2, <2>3 DEF RegisterAllowed
<1>8. ASSUME NEW c \in Conns, PasswordVerified(c) PROVE IInv'
  <2>1. conn[c].pc # "answered" /\ UNCHANGED <<now, tokens, failures, cleaner, history>>
    BY <1>8 DEF PasswordVerified
  <2>2. PICK l \in {"mint", "failed"} : Goto(c, l)
    BY <1>8 DEF PasswordVerified
  <2>3. ConnInv(c)'
    BY <1>6, <2>1, <2>2
  <2>. QED  BY <1>5, <2>1, <2>2, <2>3, QuietStep
<1>9. ASSUME NEW c \in Conns, RegisterFailed(c) PROVE IInv'
  <2>1. PICK u \in Users, n \in Nat, time \in Nat, b \in Nat :
          /\ u = conn[c].user /\ time = conn[c].at
          /\ n = failures[u].count + 1 /\ b = failures[u].banned
    BY FailureNumbers
  <2>2. /\ failures' = [failures EXCEPT ![u] =
             [none |-> FALSE, count |-> IF n >= Limit THEN 0 ELSE n,
              start |-> time, banned |-> IF n >= Limit THEN time + Ban ELSE b]]
        /\ imposed' = IF n >= Limit THEN [imposed EXCEPT ![u] = now] ELSE imposed
        /\ Done(c)
        /\ UNCHANGED <<now, tokens, cleaner, issued, minted, revoked>>
    BY <1>9, <2>1 DEF RegisterFailed
  <2>3. \A x \in Users : \/ /\ failures'[x].banned = failures[x].banned
                            /\ imposed'[x] = imposed[x]
                         \/ imposed'[x] = now
    <3>1. CASE n >= Limit
      BY <2>2, <3>1 DEF TypeOK
    <3>2. CASE ~(n >= Limit)
      BY <2>1, <2>2, <3>2 DEF TypeOK
    <3>. QED  BY <3>1, <3>2
  <2>4. TableInv'
    BY <1>0, <2>2 DEF TableInv
  <2>5. ASSUME NEW d \in Conns, d # c PROVE ConnInv(d)'
    BY <1>0, <1>5, <2>2, <2>3, <2>5, ConnFrame
  <2>. QED  BY <1>4, <2>2, <2>4, <2>5 DEF IInv
<1>10. ASSUME NEW c \in Conns, Mint(c) PROVE IInv'
  <2>1. PICK t : t = [id |-> issued + 1, user |-> conn[c].user,
                      expiry |-> conn[c].at + TTL]
    OBVIOUS
  <2>2. /\ tokens' = tokens \cup {t} /\ minted' = minted \cup {t}
        /\ issued' = issued + 1
        /\ failures' = [failures EXCEPT ![conn[c].user] = NoFailures]
        /\ imposed' = [imposed EXCEPT ![conn[c].user] = 0]
        /\ Done(c)
        /\ UNCHANGED <<now, cleaner, revoked>>
    BY <1>10, <2>1 DEF Mint
  <2>3. t.id = issued + 1 /\ revoked \subseteq Nat /\ \A x \in minted : x.id \in Nat
    BY <2>1, AuthDAssumption DEF TypeOK, Token, Ids
  <2>4. TableInv'
    BY <1>0, <2>2, <2>3 DEF TableInv
  <2>5. \A x \in Users : \/ /\ failures'[x].banned = failures[x].banned
                            /\ imposed'[x] = imposed[x]
                         \/ failures'[x].banned = 0
    BY <2>2 DEF TypeOK, NoFailures
  <2>6. ASSUME NEW d \in Conns, d # c PROVE ConnInv(d)'
    BY <1>0, <1>5, <2>2, <2>3, <2>5, <2>6, ConnFrame
  <2>. QED  BY <1>4, <2>2, <2>4, <2>6 DEF IInv
<1>11. ASSUME NEW c \in Conns, Verify(c) PROVE IInv'
  <2>0. PICK r \in Conn : r = conn[c]
    BY DEF TypeOK
  <2>1. PICK v \in BOOLEAN :
          /\ v = (MayUse(r.peer, r.user) /\
                  \E t \in tokens : t.id = r.token /\ t.user = r.user /\ t.expiry > r.at)
          /\ conn' = [conn EXCEPT ![c] = [r EXCEPT !.pc = "answered", !.valid = v]]
    BY <1>11, <2>0 DEF Verify
  <2>2. /\ conn'[c].pc = "answered" /\ conn'[c].valid = v
        /\ conn'[c].at = r.at /\ conn'[c].token = r.token /\ conn'[c].gone = r.gone
        /\ conn'[c].user = r.user /\ conn'[c].peer = r.peer
        /\ \A d \in Conns : d # c => conn'[d] = conn[d]
    BY <2>0, <2>1 DEF TypeOK, Conn
  <2>3. UNCHANGED <<now, tokens, failures, cleaner, history>>
    BY <1>11 DEF Verify
  <2>4. ConnInv(c)
    BY <1>0
  <2>5. ASSUME v
        PROVE  /\ ~r.gone /\ MayUse(r.peer, r.user)
               /\ \E t \in minted : t.id = r.token /\ t.user = r.user /\ r.at < t.expiry
    <3>1. PICK t \in tokens : t.id = r.token /\ t.user = r.user /\ t.expiry > r.at
      BY <2>1, <2>5
    <3>2. t \in minted /\ t.id \notin revoked /\ t.expiry \in Nat /\ r.at \in Nat
      BY <1>0, <2>0 DEF TypeOK, TableInv, Token, Conn
    <3>. QED  BY <2>0, <2>1, <2>4, <2>5, <3>1, <3>2 DEF ConnInv
  <2>6. ASSUME ~v, MayUse(r.peer, r.user), NEW t \in minted,
               t.id = r.token, t.user = r.user
        PROVE  t.id \in revoked \/ t.expiry <= now
    <3>1. t.expiry \in Nat /\ r.at \in Nat /\ r.at <= now
      BY <2>0, <2>4 DEF TypeOK, Token, Conn, ConnInv
    <3>2. ~ \E x \in tokens : x.id = r.token /\ x.user = r.user /\ x.expiry > r.at
      BY <2>1, <2>6, Zenon
    <3>3. t \in tokens => t.expiry <= r.at
      BY <2>6, <3>1, <3>2
    <3>. QED  BY <1>0, <3>1, <3>3 DEF TableInv
  <2>7. ConnInv(c)'
    BY <2>0, <2>2, <2>3, <2>4, <2>5, <2>6 DEF ConnInv, MayUse
  <2>. QED  BY <2>2, <2>3, <2>7, QuietStep
<1>12. ASSUME NEW c \in Conns, Answer(c) PROVE IInv'
  BY <1>4, <1>5, <1>12, QuietStep DEF Answer
<1>13. ASSUME NEW c \in Conns, Revoke(c) PROVE IInv'
  <2>1. PICK dead \in SUBSET tokens :
          /\ \A t \in dead : t.id = conn[c].token
          /\ tokens' = tokens \ dead
          /\ revoked' = revoked \cup {t.id : t \in dead}
    BY <1>13 DEF Revoke
  <2>2. Done(c) /\ UNCHANGED <<now, failures, cleaner, issued, minted, imposed>>
    BY <1>13 DEF Revoke
  <2>3. dead \subseteq minted /\ tokens \subseteq minted
    BY <2>1 DEF TypeOK
  <2>4. \A t \in tokens' : t.id \notin revoked'
    BY <1>0, <2>1, <2>3 DEF TableInv
  <2>5. TableInv'
    BY <1>0, <2>1, <2>2, <2>3, <2>4 DEF TableInv
  <2>6. ASSUME NEW d \in Conns, d # c PROVE ConnInv(d)'
    BY <1>0, <1>5, <2>1, <2>2, <2>6, ConnFrame
  <2>. QED  BY <1>4, <2>2, <2>5, <2>6 DEF IInv
<1>14. ASSUME UNCHANGED <<failures, conn, history>>, TableInv', now' \in Nat, now <= now'
       PROVE  IInv'
  BY <1>0, <1>14, ConnFrame DEF IInv
<1>15. CASE CleanupStart
  <2>1. UNCHANGED <<now, tokens, failures, conn, history>> /\ cleaner'.at = now
    BY <1>15 DEF CleanupStart
  <2>. QED  BY <1>0, <1>14, <2>1 DEF TableInv
<1>16. CASE Cleanup
  <2>1. /\ UNCHANGED <<now, failures, conn, history>>
        /\ tokens' = {t \in tokens : t.expiry > cleaner.at}
        /\ cleaner'.at = cleaner.at
    BY <1>16 DEF Cleanup, TypeOK
  <2>2. /\ \A t \in minted : t.expiry \in Nat
        /\ cleaner.at \in Nat /\ cleaner.at <= now
    BY <1>0 DEF TypeOK, Token, TableInv
  <2>3. \A t \in minted : t \in tokens' \/ t.id \in revoked \/ t.expiry <= now
    BY <1>0, <2>1, <2>2 DEF TableInv
  <2>4. TableInv'
    BY <1>0, <2>1, <2>3 DEF TableInv
  <2>. QED  BY <1>0, <1>14, <2>1, <2>4
<1>17. CASE Tick
  <2>1. now' = now + 1 /\ UNCHANGED <<tokens, failures, conn, cleaner, history>>
    BY <1>17 DEF Tick
  <2>2. /\ cleaner.at \in Nat
        /\ \A t \in minted : t.expiry \in Nat
    BY DEF TypeOK, Token
  <2>3. TableInv'
    BY <1>0, <2>1, <2>2 DEF TableInv
  <2>. QED  BY <1>0, <1>14, <2>1, <2>3
<1>18. CASE Restart
  <2>1. /\ tokens' = {} /\ conn' = [c \in Conns |-> Idle]
        /\ cleaner' = [busy |-> FALSE, at |-> 0]
        /\ revoked' = revoked \cup {t.id : t \in tokens}
        /\ UNCHANGED <<now, issued, minted>>
    BY <1>18 DEF Restart
  <2>2. TableInv'
    BY <1>0, <2>1 DEF TableInv, TypeOK
  <2>. QED  BY <2>1, <2>2, ConnIdle DEF IInv
<1>19. CASE UNCHANGED vars
  <2>1. UNCHANGED <<now, tokens, failures, conn, cleaner, history>>
    BY <1>19 DEF vars
  <2>2. TableInv'
    BY <1>0, <2>1 DEF TableInv
  <2>. QED  BY <1>0, <1>14, <2>1, <2>2
<1>. QED
  BY <1>1, <1>2, <1>3, <1>7, <1>8, <1>9, <1>10, <1>11, <1>12, <1>13, <1>15, <1>16,
     <1>17, <1>18, <1>19, AuthDAssumption
  DEF Next, Request, Handle

LEMMA Invariance == Spec => []IInv
<1>1. Init => IInv
  <2> SUFFICES ASSUME Init PROVE IInv
    OBVIOUS
  <2>. QED
    BY AuthDAssumption DEF Init, IInv, TableInv, ConnInv, Idle
<1>. QED  BY <1>1, IInvStep, TypeCorrect, PTL DEF Spec

-----------------------------------------------------------------------------

\* A valid verdict is about a token of that user that had neither expired nor
\* been revoked when the request came in, and only a token that is revoked,
\* expired or foreign is refused.
THEOREM VerdictsTrue == Spec => []VerdictsAreTrue
BY Invariance, InvProperties, PTL

\* Registrations that come in during a ban never reach sudo.
THEOREM BansHold == Spec => []BanHolds
BY Invariance, InvProperties, PTL
=============================================================================

---------------------------- MODULE AgentRun_proofs ----------------------------
(***************************************************************************)
(* Proofs about runs of the agent, for any limits: what a provider is sent *)
(* is a conversation it accepts, with each result as that of its own call; *)
(* runs only extend it, the results of tools are kept, and an interrupt    *)
(* stops the agent after one more call.                                    *)
(***************************************************************************)
EXTENDS AgentRun, SequenceTheorems, WellFoundedInduction, TLAPS

\* A conversation a provider accepts.
Sound(s) == s \in Seq(Message) /\ Len(s) > 0 /\ WellPaired(s) /\ s[1] = Say("system")

\* What the agent says itself are messages.
LEMMA Messages ==
  /\ \A role \in {"system", "user", "assistant"} :
       /\ Say(role) \in Message /\ Say(role).calls = <<>> /\ Say(role).role # "tool"
  /\ \A calls \in Seq(Ids) :
       /\ Asks(calls) \in Message /\ Asks(calls).calls = calls /\ Asks(calls).role = "assistant"
  /\ \A k \in Ids : /\ Result(k) \in Message /\ Result(k).calls = <<>>
                    /\ Result(k).role = "tool" /\ Result(k).call = k
<1>1. <<>> \in Seq(Ids)
  BY EmptySeq
<1>. QED  BY <1>1, AgentRunAssumption DEF Message, Say, Asks, Result, Ids

\* A message that asks for nothing may follow any conversation.
LEMMA AppendSound ==
  ASSUME NEW s, Sound(s), NEW m \in Message, m.calls = <<>>, m.role # "tool"
  PROVE  Sound(Append(s, m)) /\ Len(Append(s, m)) = Len(s) + 1
         /\ \A i \in 1..Len(s) : Append(s, m)[i] = s[i]
<1> DEFINE t == Append(s, m)
<1>1. /\ s \in Seq(Message) /\ Len(s) \in Nat \ {0} /\ DOMAIN s = 1..Len(s) /\ s[1] = Say("system")
      /\ WellPaired(s)
  BY LenProperties DEF Sound
<1>2. /\ t \in Seq(Message) /\ Len(t) = Len(s) + 1 /\ DOMAIN t = 1..(Len(s) + 1)
      /\ t[Len(s) + 1] = m /\ \A i \in 1..Len(s) : t[i] = s[i]
  BY <1>1, AppendProperties, LenProperties
<1> HIDE DEF t
<1>3. WellPaired(t)
  <2> SUFFICES ASSUME NEW i \in 1..(Len(s) + 1)
               PROVE  /\ \A j \in DOMAIN t[i].calls :
                           i + j \in DOMAIN t /\ t[i + j] = Result(t[i].calls[j])
                      /\ t[i].role = "tool" =>
                           \E h \in 1..(i - 1) :
                             i - h \in DOMAIN t[h].calls /\ t[h].calls[i - h] = t[i].call
    BY <1>2 DEF WellPaired
  <2>1. CASE i = Len(s) + 1
    <3>1. DOMAIN <<>> = {}
      OBVIOUS
    <3>. QED  BY <1>2, <2>1, <3>1
  <2>2. CASE i \in 1..Len(s)
    <3>1. t[i] = s[i]
      BY <1>2, <2>2
    <3>2. \A j \in DOMAIN s[i].calls : i + j \in DOMAIN s /\ s[i + j] = Result(s[i].calls[j])
      BY <1>1, <2>2 DEF WellPaired
    <3>3. \A j \in DOMAIN s[i].calls : i + j \in DOMAIN t /\ t[i + j] = s[i + j]
      BY <1>1, <1>2, <3>2
    <3>4. ASSUME s[i].role = "tool"
          PROVE  \E h \in 1..(i - 1) : i - h \in DOMAIN t[h].calls /\ t[h].calls[i - h] = t[i].call
      <4>1. PICK h \in 1..(i - 1) : i - h \in DOMAIN s[h].calls /\ s[h].calls[i - h] = s[i].call
        BY <1>1, <2>2, <3>4 DEF WellPaired
      <4>2. t[h] = s[h]
        BY <1>1, <1>2, <2>2
      <4>. QED  BY <3>1, <4>1, <4>2
    <3>. QED  BY <3>1, <3>2, <3>3, <3>4
  <2>. QED  BY <1>1, <2>1, <2>2
<1>. QED  BY <1>1, <1>2, <1>3 DEF Sound, t

\* The system prompt alone is one.
LEMMA FirstSound == Sound(<<Say("system")>>)
<1> DEFINE s == <<Say("system")>>
<1>1. s \in Seq(Message) /\ Len(s) = 1 /\ DOMAIN s = {1} /\ s[1] = Say("system")
  BY Messages
<1>2. s[1].calls = <<>> /\ s[1].role # "tool" /\ DOMAIN <<>> = {}
  BY <1>1, Messages
<1> HIDE DEF s
<1>3. WellPaired(s)
  BY <1>1, <1>2 DEF WellPaired
<1>. QED  BY <1>1, <1>3 DEF Sound, s

\* So may an exchange.
LEMMA ExchangeSound ==
  ASSUME NEW s, Sound(s), NEW calls \in Seq(Ids)
  PROVE  /\ Sound(s \o Exchange(calls)) /\ Len(s \o Exchange(calls)) > Len(s)
         /\ \A i \in 1..Len(s) : (s \o Exchange(calls))[i] = s[i]
<1> DEFINE results == [i \in DOMAIN calls |-> Result(calls[i])]
           e == Exchange(calls)
           t == s \o e
           n == Len(s)
           c == Len(calls)
<1>1. /\ s \in Seq(Message) /\ n \in Nat \ {0} /\ DOMAIN s = 1..n /\ s[1] = Say("system")
      /\ WellPaired(s)
  BY LenProperties DEF Sound
<1>2. c \in Nat /\ DOMAIN calls = 1..c /\ \A i \in 1..c : calls[i] \in Ids
  BY LenProperties, ElementOfSeq
<1>3. results \in Seq(Message) /\ Len(results) = c /\ \A i \in 1..c : results[i] = Result(calls[i])
  <2>1. results \in [1..c -> Message]
    BY <1>2, Messages
  <2>. QED  BY <1>2, <2>1
<1>4. <<Asks(calls)>> \in Seq(Message) /\ Len(<<Asks(calls)>>) = 1 /\ <<Asks(calls)>>[1] = Asks(calls)
  BY Messages
<1>5. /\ e \in Seq(Message) /\ Len(e) = c + 1 /\ e[1] = Asks(calls)
      /\ \A i \in 1..c : e[i + 1] = Result(calls[i])
  <2>1. e = <<Asks(calls)>> \o results
    BY DEF Exchange
  <2> HIDE DEF e, results
  <2>2. /\ e \in Seq(Message) /\ Len(e) = 1 + c
        /\ \A i \in 1..(1 + c) : e[i] = IF i <= 1 THEN Asks(calls) ELSE results[i - 1]
    BY <1>2, <1>3, <1>4, <2>1, ConcatProperties
  <2>. QED  BY <1>2, <1>3, <2>2
<1> HIDE DEF results, e
<1>6. /\ t \in Seq(Message) /\ Len(t) = n + c + 1 /\ DOMAIN t = 1..(n + c + 1)
      /\ \A i \in 1..n : t[i] = s[i]
      /\ t[n + 1] = Asks(calls) /\ \A i \in 1..c : t[n + 1 + i] = Result(calls[i])
  <2>1. /\ t \in Seq(Message) /\ Len(t) = n + (c + 1)
        /\ \A i \in 1..(n + (c + 1)) : t[i] = IF i <= n THEN s[i] ELSE e[i - n]
    <3>1. /\ t \in Seq(Message) /\ Len(t) = n + Len(e)
          /\ \A i \in 1..(n + Len(e)) : t[i] = IF i <= n THEN s[i] ELSE e[i - n]
      BY <1>1, <1>5, ConcatProperties
    <3>. QED  BY <1>5, <3>1
  <2>2. \A i \in 1..c : t[n + 1 + i] = e[i + 1]
    BY <1>1, <1>2, <2>1
  <2>. QED  BY <1>1, <1>2, <1>5, <2>1, <2>2, LenProperties
<1> HIDE DEF t
<1>7. WellPaired(t)
  <2> SUFFICES ASSUME NEW i \in 1..(n + c + 1)
               PROVE  /\ \A j \in DOMAIN t[i].calls :
                           i + j \in DOMAIN t /\ t[i + j] = Result(t[i].calls[j])
                      /\ t[i].role = "tool" =>
                           \E h \in 1..(i - 1) :
                             i - h \in DOMAIN t[h].calls /\ t[h].calls[i - h] = t[i].call
    BY <1>6 DEF WellPaired
  <2>1. CASE i \in 1..n
    <3>1. t[i] = s[i]
      BY <1>6, <2>1
    <3>2. \A j \in DOMAIN s[i].calls : i + j \in DOMAIN s /\ s[i + j] = Result(s[i].calls[j])
      BY <1>1, <2>1 DEF WellPaired
    <3>3. \A j \in DOMAIN s[i].calls : i + j \in DOMAIN t /\ t[i + j] = s[i + j]
      BY <1>1, <1>2, <1>6, <3>2
    <3>4. ASSUME s[i].role = "tool"
          PROVE  \E h \in 1..(i - 1) : i - h \in DOMAIN t[h].calls /\ t[h].calls[i - h] = t[i].call
      <4>1. PICK h \in 1..(i - 1) : i - h \in DOMAIN s[h].calls /\ s[h].calls[i - h] = s[i].call
        BY <1>1, <2>1, <3>4 DEF WellPaired
      <4>2. t[h] = s[h]
        BY <1>1, <1>6, <2>1
      <4>. QED  BY <3>1, <4>1, <4>2
    <3>. QED  BY <3>1, <3>2, <3>3, <3>4
  <2>2. CASE i = n + 1
    <3>1. t[i].calls = calls /\ t[i].role = "assistant"
      BY <1>6, <2>2, Messages
    <3>2. \A j \in 1..c : i + j \in 1..(n + c + 1) /\ t[i + j] = Result(calls[j])
      BY <1>1, <1>2, <1>6, <2>2
    <3>3. "assistant" # "tool"
      OBVIOUS
    <3>. QED  BY <1>2, <1>6, <3>1, <3>2, <3>3
  <2>3. CASE i \in (n + 2)..(n + c + 1)
    <3>1. i - (n + 1) \in 1..c /\ i = n + 1 + (i - (n + 1)) /\ n + 1 \in 1..(i - 1)
      BY <1>1, <1>2, <2>3
    <3>2. t[i] = Result(calls[i - (n + 1)]) /\ calls[i - (n + 1)] \in Ids
      BY <1>2, <1>6, <3>1
    <3>3. t[i].calls = <<>> /\ t[i].call = calls[i - (n + 1)] /\ t[n + 1].calls = calls
      BY <1>6, <3>2, Messages
    <3>4. DOMAIN <<>> = {}
      OBVIOUS
    <3>. QED  BY <1>2, <3>1, <3>3, <3>4
  <2>. QED  BY <1>1, <1>2, <2>1, <2>2, <2>3
<1>. QED  BY <1>1, <1>2, <1>6, <1>7 DEF Sound, t, e

\* A sound conversation asks for nothing at its end, so all of it is kept.
LEMMA SafeSound ==
  ASSUME NEW s, Sound(s)
  PROVE  Safe(s) = s
<1>1. /\ s \in Seq(Message) /\ Len(s) \in Nat \ {0} /\ DOMAIN s = 1..Len(s) /\ WellPaired(s)
  BY LenProperties DEF Sound
<1>2. s[Len(s)] \in Message
  BY <1>1, ElementOfSeq
<1>3. s[Len(s)].calls \in Seq(Ids)
  BY <1>2 DEF Message
<1>4. \A j \in DOMAIN s[Len(s)].calls : j \in Nat \ {0}
  BY <1>3, LenProperties
<1>5. DOMAIN s[Len(s)].calls = {}
  BY <1>1, <1>4 DEF WellPaired
<1> DEFINE q == s[Len(s)].calls
<1>6. q = <<>>
  <2>1. q \in Seq(Ids) /\ DOMAIN q = {}
    BY <1>3, <1>5
  <2> HIDE DEF q
  <2>2. Len(q) \in Nat /\ 1..Len(q) = {}
    BY <2>1, LenProperties
  <2>3. Len(q) = 0
    BY <2>2
  <2>. QED  BY <2>1, <2>3, EmptySeq
<1>. QED  BY <1>6 DEF Safe

-----------------------------------------------------------------------------
(* The invariant.                                                          *)

\* The parts of the type invariant.
Flags   == interrupt \in BOOLEAN /\ hard \in BOOLEAN
Numbers == /\ issued \in 0..MaxCalls /\ base \in 0..issued
           /\ runs \in 0..MaxRuns /\ late \in Nat
Records == saved \in [messages: Seq(Message), history: Seq(Ids)]
AgentRecord == [pc: {"idle", "ensure", "prepare", "ask", "think", "call",
                     "tool", "decide", "summary"},
                messages: Seq(Message), history: Seq(Ids), calls: Seq(Ids),
                done: Nat, turn: 0..MaxIterations, terminated: BOOLEAN]
Threads == thread \in [Ids -> [pc: {"none", "spawned", "open", "asking", "done", "taken"},
                               shut: BOOLEAN]]

Others == other \in [on: BOOLEAN, messages: Seq(Message), history: Seq(Ids)] /\ beside \in BOOLEAN

\* What is saved is empty or sound, what runs is sound and, alone, goes beyond it.
Conversations ==
  /\ saved.messages # <<>> => Sound(saved.messages)
  /\ Running => Sound(agent.messages)
  /\ Running /\ ~beside => Extends(agent.messages, saved.messages)
  /\ agent.pc = "prepare" /\ ~beside => saved.messages = <<>>

\* The run beside took a sound conversation or none.
Beside ==
  /\ other.on => beside
  /\ other.messages # <<>> => Sound(other.messages)

\* A call is current while the agent is at the calls of a reply, and every
\* call it knows of was asked for.
Calling ==
  /\ agent.pc \in {"call", "tool", "decide"} => agent.done < Len(agent.calls)
  /\ \A i \in DOMAIN agent.calls : agent.calls[i] <= issued

\* Calls are taken when they were asked for, and no call was asked for since
\* the conversation was reset when there is no conversation.
Asked ==
  /\ \A k \in Ids : thread[k].pc = "taken" => k <= issued
  /\ ~Running /\ saved.messages = <<>> /\ ~beside => base = issued

\* The one late call is being made, or was the end of its run.
LateCall ==
  late = 0 \/ (late = 1 /\ interrupt /\ agent.pc \in {"tool", "decide", "idle", "ensure"})

IInv == TypeOK /\ Conversations /\ Beside /\ Calling /\ Asked /\ ResultsAreKept /\ LateCall

LEMMA TypeParts ==
  TypeOK <=> Flags /\ Numbers /\ Records /\ agent \in AgentRecord /\ Threads /\ Others
<1>. QED  BY DEF TypeOK, Flags, Numbers, Records, AgentRecord, Threads, Others

\* A step that leaves the run beside alone.
LEMMA BesideStays ==
  ASSUME IInv, other' = other, beside' = beside
  PROVE  Beside' /\ Others'
<1>. QED  BY TypeParts DEF IInv, Beside, Others

LEMMA RestTyped ==
  /\ Rest \in AgentRecord /\ Rest.pc = "idle" /\ Rest.messages = <<>> /\ Rest.history = <<>>
  /\ Rest.calls = <<>> /\ Rest.done = 0 /\ Rest.turn = 0
<1>1. <<>> \in Seq(Ids) /\ <<>> \in Seq(Message)
  BY EmptySeq
<1>2. 0 \in Nat /\ 0 \in 0..MaxIterations
  BY AgentRunAssumption
<1>. QED  BY <1>1, <1>2 DEF Rest, AgentRecord

\* What the parts of the invariant say of a state in use.
LEMMA AgentFacts ==
  ASSUME agent \in AgentRecord
  PROVE  /\ agent.messages \in Seq(Message) /\ agent.history \in Seq(Ids) /\ agent.calls \in Seq(Ids)
         /\ agent.done \in Nat /\ agent.turn \in 0..MaxIterations /\ agent.terminated \in BOOLEAN
<1>. QED  BY DEF AgentRecord

LEMMA SavedFacts ==
  ASSUME Records
  PROVE  saved.messages \in Seq(Message) /\ saved.history \in Seq(Ids)
<1>. QED  BY DEF Records

\* The call the agent is at is one of those asked for.
LEMMA CurrentAsked ==
  ASSUME IInv, agent.pc \in {"call", "tool", "decide"}
  PROVE  Current \in Ids /\ Current <= issued
<1>1. agent.calls \in Seq(Ids) /\ agent.done \in Nat /\ agent.done < Len(agent.calls)
  BY TypeParts, AgentFacts DEF IInv, Calling
<1>2. agent.done + 1 \in DOMAIN agent.calls
  BY <1>1, LenProperties
<1>. QED  BY <1>1, <1>2, ElementOfSeq, LenProperties DEF IInv, Calling, Current

\* A step of a run that does not end it: the conversation stays sound and goes
\* beyond what is saved, the history keeps what it holds and holds what is taken.
LEMMA RunKeeps ==
  ASSUME IInv, other' = other, beside' = beside, Running,
         interrupt' = interrupt, hard' = hard, saved' = saved, runs' = runs, base' = base,
         agent' \in AgentRecord, Running',
         Sound(agent'.messages), beside \/ Extends(agent'.messages, saved.messages),
         Calling',
         issued' \in issued..MaxCalls, late' \in Nat, LateCall',
         Threads',
         \A k \in Ids : thread'[k].pc = "taken" =>
            /\ k <= issued
            /\ thread[k].pc = "taken" \/ \E i \in DOMAIN agent'.history : agent'.history[i] = k,
         \A i \in DOMAIN agent.history :
            \E j \in DOMAIN agent'.history : agent'.history[j] = agent.history[i]
  PROVE  IInv'
<1>1. /\ Flags /\ Numbers /\ Records /\ Conversations /\ Asked /\ ResultsAreKept
      /\ agent \in AgentRecord /\ Threads
  BY TypeParts DEF IInv
<1>2. issued' \in 0..MaxCalls /\ base' \in 0..issued'
  BY <1>1, AgentRunAssumption DEF Numbers
<1>3. TypeOK'
  <2>1. Flags'
    BY <1>1 DEF Flags
  <2>2. Numbers'
    BY <1>1, <1>2 DEF Numbers
  <2>3. Records'
    BY <1>1 DEF Records
  <2>. QED  BY <2>1, <2>2, <2>3, BesideStays DEF TypeOK, Flags, Numbers, Records, AgentRecord, Threads, Others
<1>4. Conversations'
  <2>1. agent'.pc # "prepare"
    BY DEF Running
  <2>. QED  BY <1>1, <2>1 DEF Conversations
<1>5. Asked'
  <2>1. \A k \in Ids : thread'[k].pc = "taken" => k <= issued'
    BY <1>1, AgentRunAssumption DEF Numbers, Ids
  <2>. QED  BY <2>1 DEF Asked
<1>6. ResultsAreKept'
  <2> SUFFICES ASSUME ~beside, NEW k \in (base + 1)..issued', thread'[k].pc = "taken"
               PROVE  \E i \in DOMAIN agent'.history : agent'.history[i] = k
    BY DEF ResultsAreKept, Kept
  <2>1. k \in Ids
    BY <1>1, <1>2, AgentRunAssumption DEF Numbers, Ids
  <2>2. CASE thread[k].pc = "taken"
    <3>1. k \in (base + 1)..issued
      BY <1>1, <2>1, <2>2 DEF Asked, Numbers
    <3>2. PICK i \in DOMAIN agent.history : agent.history[i] = k
      BY <1>1, <2>2, <3>1 DEF ResultsAreKept, Kept
    <3>. QED  BY <3>2
  <2>. QED  BY <2>1, <2>2
<1>. QED  BY <1>3, <1>4, <1>5, <1>6, BesideStays DEF IInv

\* The end of a run: what it hands over is sound, goes beyond what is saved, and
\* its history holds all that was taken.
LEMMA EndKeeps ==
  ASSUME IInv, other' = other, beside' = beside, Running, NEW messages, NEW history, End(messages, history),
         interrupt' = interrupt, hard' = hard, runs' = runs, base' = base, late' = late,
         Sound(messages), history \in Seq(Ids), LateCall', 
         issued' \in issued..MaxCalls,
         Threads',
         \A k \in Ids : thread'[k].pc = "taken" =>
            /\ k <= issued
            /\ thread[k].pc = "taken" \/ \E i \in DOMAIN history : history[i] = k,
         \A i \in DOMAIN agent.history : \E j \in DOMAIN history : history[j] = agent.history[i]
  PROVE  IInv'
<1>1. /\ Flags /\ Numbers /\ Records /\ Conversations /\ Asked /\ ResultsAreKept
      /\ agent \in AgentRecord /\ Threads
  BY TypeParts DEF IInv
<1>2. issued' \in 0..MaxCalls /\ base' \in 0..issued'
  BY <1>1, AgentRunAssumption DEF Numbers
<1>3. /\ saved' = [messages |-> messages, history |-> history]
      /\ saved'.messages = messages /\ saved'.history = history
      /\ agent' = Rest /\ agent'.pc = "idle" /\ agent'.calls = <<>> /\ ~Running'
  BY RestTyped DEF End, Running
<1>4. messages \in Seq(Message) /\ messages # <<>>
  BY EmptySeq DEF Sound
<1>5. TypeOK'
  <2>1. Flags'
    BY <1>1 DEF Flags
  <2>2. Numbers'
    BY <1>1, <1>2 DEF Numbers
  <2>3. Records'
    BY <1>3, <1>4 DEF Records
  <2>4. agent' \in AgentRecord
    BY <1>3, RestTyped
  <2>. QED  BY <2>1, <2>2, <2>3, <2>4, BesideStays DEF TypeOK, Flags, Numbers, Records, AgentRecord, Threads, Others
<1>6. Conversations'
  BY <1>3, <1>4 DEF Conversations
<1>7. Asked'
  <2>1. \A k \in Ids : thread'[k].pc = "taken" => k <= issued'
    BY <1>1, AgentRunAssumption DEF Numbers, Ids
  <2>. QED  BY <1>3, <1>4, <2>1 DEF Asked
<1>8. Calling'
  <2>1. DOMAIN <<>> = {}
    OBVIOUS
  <2>. QED  BY <1>3, <2>1 DEF Calling
<1>9. ResultsAreKept'
  <2> SUFFICES ASSUME ~beside, NEW k \in (base + 1)..issued', thread'[k].pc = "taken"
               PROVE  \E i \in DOMAIN history : history[i] = k
    BY <1>3 DEF ResultsAreKept, Kept
  <2>1. k \in Ids
    BY <1>1, <1>2, AgentRunAssumption DEF Numbers, Ids
  <2>2. CASE thread[k].pc = "taken"
    <3>1. k \in (base + 1)..issued
      BY <1>1, <2>1, <2>2 DEF Asked, Numbers
    <3>2. PICK i \in DOMAIN agent.history : agent.history[i] = k
      BY <1>1, <2>2, <3>1 DEF ResultsAreKept, Kept
    <3>. QED  BY <3>2
  <2>. QED  BY <2>1, <2>2
<1>. QED  BY <1>5, <1>6, <1>7, <1>8, <1>9, BesideStays DEF IInv

\* A step between runs that only says where the worker thread is.
LEMMA WaitKeeps ==
  ASSUME IInv, other' = other, beside' = beside, ~Running, NEW label \in {"idle", "ensure", "prepare"}, 
         agent' \in AgentRecord, agent'.pc = label, Calling',
         label = "prepare" => saved.messages = <<>>,
         Flags', saved' = saved, thread' = thread, issued' = issued, base' = base,
         runs' \in 0..MaxRuns, late' \in Nat, LateCall'
  PROVE  IInv'
<1>1. /\ Numbers /\ Records /\ Conversations /\ Asked /\ ResultsAreKept /\ Threads
  BY TypeParts DEF IInv
<1>2. ~Running'
  BY DEF Running
<1>3. TypeOK'
  <2>1. Numbers' /\ Records' /\ Threads'
    BY <1>1 DEF Numbers, Records, Threads
  <2>. QED  BY <2>1, BesideStays DEF TypeOK, Flags, Numbers, Records, AgentRecord, Threads, Others
<1>4. Conversations' /\ Asked'
  BY <1>1, <1>2 DEF Conversations, Asked
<1>5. ResultsAreKept'
  BY <1>1, <1>2 DEF ResultsAreKept, Kept
<1>. QED  BY <1>3, <1>4, <1>5, BesideStays DEF IInv

-----------------------------------------------------------------------------
(* The steps.                                                              *)

LEMMA InitInv == Init => IInv
<1> SUFFICES ASSUME Init PROVE IInv
  OBVIOUS
<1>1. /\ interrupt = FALSE /\ hard = FALSE /\ saved = [messages |-> <<>>, history |-> <<>>]
      /\ agent = Rest /\ thread = [k \in Ids |-> [pc |-> "none", shut |-> FALSE]]
      /\ issued = 0 /\ runs = 0 /\ base = 0 /\ late = 0 /\ other = Off /\ beside = FALSE
  BY DEF Init
<1>2. agent \in AgentRecord /\ agent.pc = "idle" /\ agent.calls = <<>> /\ ~Running
  BY <1>1, RestTyped DEF Running
<1>3. \A k \in Ids : thread[k].pc = "none"
  BY <1>1
<1>4. Flags /\ Numbers /\ Threads
  <2>1. Flags /\ Threads
    BY <1>1 DEF Flags, Threads
  <2>2. 0 \in 0..MaxCalls /\ 0 \in 0..0 /\ 0 \in 0..MaxRuns /\ 0 \in Nat
    BY AgentRunAssumption
  <2>. QED  BY <1>1, <2>1, <2>2 DEF Numbers
<1>5. Records
  BY <1>1, EmptySeq DEF Records
<1>6. Conversations /\ Asked /\ ResultsAreKept
  BY <1>1, <1>2, <1>3 DEF Conversations, Asked, ResultsAreKept, Ids
<1>7. Calling
  <2>1. DOMAIN <<>> = {}
    OBVIOUS
  <2>. QED  BY <1>2, <2>1 DEF Calling
<1>8. Others /\ Beside
  BY <1>1, EmptySeq DEF Off, Others, Beside
<1>. QED  BY <1>1, <1>2, <1>4, <1>5, <1>6, <1>7, <1>8, TypeParts DEF IInv, LateCall

\* The flags are set at any moment.
LEMMA FlagSteps == IInv /\ (Interrupt \/ HardCancel) => IInv'
<1> SUFFICES ASSUME IInv, Interrupt \/ HardCancel PROVE IInv'
  OBVIOUS
<1>1. /\ saved' = saved /\ agent' = agent /\ thread' = thread /\ issued' = issued
      /\ runs' = runs /\ base' = base /\ late' = late /\ other' = other /\ beside' = beside
  BY DEF Interrupt, HardCancel, second
<1>2. Flags' /\ LateCall'
  BY <1>1, TypeParts DEF IInv, Interrupt, HardCancel, LateCall, Flags
<1>3. TypeOK'
  BY <1>1, <1>2, TypeParts DEF IInv, TypeOK, Flags
<1>4. Conversations' /\ Calling' /\ Asked' /\ ResultsAreKept'
  BY <1>1 DEF IInv, Conversations, Calling, Asked, ResultsAreKept, Kept, Running
<1>. QED  BY <1>1, <1>2, <1>3, <1>4, BesideStays DEF IInv

\* The threads of the calls move, and only the agent takes an outcome.
LEMMA ThreadSteps ==
  ASSUME IInv, NEW k \in Ids, Connect(k) \/ AskUser(k) \/ UserAnswers(k) \/ ToolEnds(k)
  PROVE  IInv'
<1>1. PICK label \in {"open", "done", "asking"} : thread' = [thread EXCEPT ![k].pc = label]
  BY DEF Connect, AskUser, UserAnswers, ToolEnds, Move
<1>2. /\ interrupt' = interrupt /\ hard' = hard /\ saved' = saved /\ agent' = agent
      /\ issued' = issued /\ runs' = runs /\ base' = base /\ late' = late
      /\ other' = other /\ beside' = beside
  BY DEF Connect, AskUser, UserAnswers, ToolEnds, Move, flags, second
<1>3. Threads
  BY TypeParts DEF IInv
<1>4. Threads' /\ \A j \in Ids : thread'[j].pc = "taken" => thread[j].pc = "taken"
  BY <1>1, <1>3 DEF Threads
<1>5. TypeOK'
  BY <1>2, <1>4, TypeParts DEF IInv, TypeOK, Threads
<1>6. Conversations' /\ Calling' /\ LateCall'
  BY <1>2 DEF IInv, Conversations, Calling, Running, LateCall
<1>7. Asked'
  BY <1>2, <1>4 DEF IInv, Asked, Running
<1>8. ResultsAreKept'
  <2>1. \A j \in (base + 1)..issued : j \in Ids
    BY TypeParts, AgentRunAssumption DEF IInv, Numbers, Ids
  <2>. QED  BY <1>2, <1>4, <2>1 DEF IInv, ResultsAreKept, Kept, Running
<1>. QED  BY <1>2, <1>5, <1>6, <1>7, <1>8, BesideStays DEF IInv

\* A new chat, also beside a run.
LEMMA NewChatStep == IInv /\ NewChat => IInv'
<1> SUFFICES ASSUME IInv, NewChat PROVE IInv'
  OBVIOUS
<1>1. /\ interrupt' = FALSE /\ hard' = FALSE /\ late' = 0 /\ base' = issued /\ runs' = runs + 1
      /\ agent' = agent /\ thread' = thread /\ issued' = issued /\ runs < MaxRuns /\ other' = other
      /\ saved' = [messages |-> <<>>, history |-> <<>>]
      /\ beside' = (agent.pc # "idle" \/ other.on)
  BY DEF NewChat, ClearFlags
<1>2. Flags /\ Numbers /\ agent \in AgentRecord /\ Threads /\ Others
  BY TypeParts DEF IInv
<1>3. saved'.messages = <<>> /\ Running' = Running /\ (Running \/ agent.pc = "prepare" => beside')
  <2>1. Running' = Running
    BY <1>1 DEF Running
  <2>. QED  BY <1>1, <2>1 DEF Running
<1>4. TypeOK'
  <2>1. Numbers'
    BY <1>1, <1>2, AgentRunAssumption DEF Numbers
  <2>2. Records'
    BY <1>1, EmptySeq DEF Records
  <2>3. Flags' /\ agent' \in AgentRecord /\ Threads'
    BY <1>1, <1>2 DEF Flags, Threads
  <2>4. Others'
    BY <1>1, <1>2 DEF Others
  <2>. QED  BY <2>1, <2>2, <2>3, <2>4 DEF TypeOK, Flags, Numbers, Records, AgentRecord, Threads, Others
<1>5. Conversations' /\ LateCall'
  <2>1. agent'.messages = agent.messages /\ agent'.pc = agent.pc
    BY <1>1
  <2>2. Running => Sound(agent.messages)
    BY DEF IInv, Conversations
  <2>3. Conversations'
    BY <1>3, <2>1, <2>2 DEF Conversations
  <2>. QED  BY <1>1, <2>3 DEF LateCall
<1>6. Calling' /\ Asked' /\ Beside'
  <2>1. Calling' /\ Asked'
    BY <1>1 DEF IInv, Calling, Asked
  <2>. QED  BY <1>1, <2>1 DEF IInv, Beside
<1>7. ResultsAreKept'
  BY <1>1, <1>2 DEF ResultsAreKept, Numbers
<1>. QED  BY <1>4, <1>5, <1>6, <1>7 DEF IInv

\* A run beside takes what is saved, and what it will say is sound.
LEMMA OtherStartsStep == IInv /\ OtherStarts => IInv'
<1> SUFFICES ASSUME IInv, OtherStarts PROVE IInv'
  OBVIOUS
<1>1. /\ interrupt' = FALSE /\ hard' = FALSE /\ late' = 0 /\ base' = base /\ runs' = runs + 1
      /\ agent' = agent /\ thread' = thread /\ issued' = issued /\ runs < MaxRuns /\ saved' = saved
      /\ other' = [on |-> TRUE, messages |-> saved.messages, history |-> saved.history]
      /\ beside' = TRUE
  BY DEF OtherStarts, ClearFlags
<1>2. /\ Flags /\ Numbers /\ agent \in AgentRecord /\ Threads /\ Records
      /\ saved.messages \in Seq(Message) /\ saved.history \in Seq(Ids)
  BY TypeParts, SavedFacts DEF IInv
<1>3. Others' /\ Beside'
  <2>1. other'.messages = saved.messages
    BY <1>1
  <2>2. Others'
    BY <1>1, <1>2 DEF Others
  <2>. QED  BY <1>1, <2>1, <2>2 DEF Beside, IInv, Conversations
<1>4. TypeOK'
  <2>1. Numbers'
    BY <1>1, <1>2, AgentRunAssumption DEF Numbers
  <2>2. Flags' /\ agent' \in AgentRecord /\ Threads' /\ Records'
    BY <1>1, <1>2 DEF Flags, Threads, Records
  <2>. QED  BY <1>3, <2>1, <2>2 DEF TypeOK, Flags, Numbers, Records, AgentRecord, Threads, Others
<1>5. Conversations' /\ Calling' /\ Asked' /\ LateCall' /\ ResultsAreKept'
  <2>1. Conversations'
    BY <1>1 DEF IInv, Conversations, Running
  <2>2. Calling' /\ Asked'
    BY <1>1 DEF IInv, Calling, Asked
  <2>3. LateCall' /\ ResultsAreKept'
    BY <1>1 DEF LateCall, ResultsAreKept
  <2>. QED  BY <2>1, <2>2, <2>3
<1>. QED  BY <1>3, <1>4, <1>5 DEF IInv

LEMMA OtherSaysSound ==
  ASSUME IInv, NEW answer \in {<<>>, <<Say("assistant")>>}
  PROVE  Sound(OtherSays(answer))
<1> DEFINE m == IF other.messages = <<>> THEN <<Say("system")>>
                ELSE [other.messages EXCEPT ![1] = Say("system")]
           u == Append(m, Say("user"))
<1>1. Sound(m)
  <2>1. CASE other.messages = <<>>
    BY <2>1, FirstSound
  <2>2. CASE other.messages # <<>>
    <3>1. Sound(other.messages)
      BY <2>2 DEF IInv, Beside
    <3>2. [other.messages EXCEPT ![1] = Say("system")] = other.messages
      BY <3>1, LenProperties DEF Sound
    <3>. QED  BY <2>2, <3>1, <3>2
  <2>. QED  BY <2>1, <2>2
<1>2. OtherSays(answer) = m \o <<Say("user")>> \o answer
  BY DEF OtherSays
<1>. HIDE DEF m
<1>3. Sound(u) /\ m \in Seq(Message) /\ u \in Seq(Message)
  <2>1. Sound(u)
    BY <1>1, AppendSound, Messages
  <2>. QED  BY <1>1, <2>1 DEF Sound
<1>4. m \o <<Say("user")>> = u
  BY <1>3, Messages
<1>. HIDE DEF u
<1>5. CASE answer = <<>>
  <2>1. u \o <<>> = u
    BY <1>3
  <2>. QED  BY <1>2, <1>3, <1>4, <1>5, <2>1
<1>6. CASE answer = <<Say("assistant")>>
  <2>1. u \o <<Say("assistant")>> = Append(u, Say("assistant"))
    BY <1>3, Messages
  <2>2. Sound(Append(u, Say("assistant")))
    BY <1>3, AppendSound, Messages
  <2>. QED  BY <1>2, <1>4, <1>6, <2>1, <2>2
<1>. QED  BY <1>5, <1>6

LEMMA OtherEndsStep == IInv /\ OtherEnds => IInv'
<1> SUFFICES ASSUME IInv, OtherEnds PROVE IInv'
  OBVIOUS
<1>1. /\ interrupt' = interrupt /\ hard' = hard /\ late' = late /\ base' = base /\ runs' = runs
      /\ agent' = agent /\ thread' = thread /\ issued' = issued /\ beside' = beside /\ other' = Off
      /\ other.on
  BY DEF OtherEnds, flags
<1>2. Flags /\ Numbers /\ agent \in AgentRecord /\ Threads /\ Records /\ Others
  BY TypeParts DEF IInv
<1>3. beside
  BY <1>1 DEF IInv, Beside
<1>4. Records' /\ (saved'.messages # <<>> => Sound(saved'.messages))
  <2>1. CASE saved' = saved
    BY <1>2, <2>1 DEF Records, IInv, Conversations
  <2>2. ASSUME NEW answer \in {<<>>, <<Say("assistant")>>},
               saved' = [messages |-> OtherSays(answer), history |-> other.history]
        PROVE  Records' /\ Sound(saved'.messages)
    <3>1. Sound(OtherSays(answer)) /\ other.history \in Seq(Ids)
      BY <1>2, OtherSaysSound DEF Others
    <3>2. OtherSays(answer) \in Seq(Message)
      BY <3>1 DEF Sound
    <3>. QED  BY <2>2, <3>1, <3>2 DEF Records
  <2>. QED  BY <2>1, <2>2 DEF OtherEnds
<1>5. Others' /\ Beside'
  BY <1>1, <1>2, EmptySeq DEF Off, Others, Beside
<1>6. TypeOK'
  <2>1. Flags' /\ Numbers' /\ agent' \in AgentRecord /\ Threads'
    BY <1>1, <1>2 DEF Flags, Numbers, Threads
  <2>. QED  BY <1>4, <1>5, <2>1 DEF TypeOK, Flags, Numbers, Records, AgentRecord, Threads, Others
<1>7. Conversations' /\ Calling' /\ Asked' /\ LateCall' /\ ResultsAreKept'
  <2>1. Conversations'
    BY <1>1, <1>3, <1>4 DEF IInv, Conversations, Running
  <2>2. Calling' /\ Asked'
    BY <1>1, <1>3 DEF IInv, Calling, Asked
  <2>3. LateCall' /\ ResultsAreKept'
    BY <1>1, <1>3 DEF IInv, LateCall, ResultsAreKept
  <2>. QED  BY <2>1, <2>2, <2>3
<1>. QED  BY <1>5, <1>6, <1>7 DEF IInv

\* Between runs the agent is at rest but for its place.
LEMMA GotoTyped ==
  ASSUME agent \in AgentRecord, 
         NEW label \in {"idle", "ensure", "prepare", "ask", "think", "call", "tool", "decide", "summary"},
         Goto(label)
  PROVE  /\ agent' \in AgentRecord /\ agent'.pc = label /\ agent'.messages = agent.messages
         /\ agent'.history = agent.history /\ agent'.calls = agent.calls /\ agent'.done = agent.done
<1>1. agent' = [agent EXCEPT !.pc = label]
  BY DEF Goto
<1>. QED  BY <1>1 DEF AgentRecord

LEMMA WaitSteps == IInv /\ (Run \/ Followup \/ FollowupRuns \/ StartFails) => IInv'
<1> SUFFICES ASSUME IInv, Run \/ Followup \/ FollowupRuns \/ StartFails PROVE IInv'
  OBVIOUS
<1>1. /\ saved' = saved /\ thread' = thread /\ issued' = issued /\ base' = base
      /\ agent.pc \in {"idle", "ensure", "prepare"}
      /\ \/ interrupt' = FALSE /\ hard' = FALSE /\ late' = 0
         \/ interrupt' = interrupt /\ hard' = hard /\ late' = late
      /\ runs' = runs \/ (runs' = runs + 1 /\ runs < MaxRuns)
      /\ other' = other /\ beside' = beside
  BY DEF Run, Followup, FollowupRuns, StartFails, ClearFlags, flags, second
<1>2. Flags /\ Numbers /\ agent \in AgentRecord /\ LateCall /\ Calling
  BY TypeParts DEF IInv
<1>3. Flags' /\ runs' \in 0..MaxRuns /\ late' \in Nat
  <2>1. Flags'
    BY <1>1, <1>2 DEF Flags
  <2>2. runs' \in 0..MaxRuns
    BY <1>1, <1>2, AgentRunAssumption DEF Numbers
  <2>3. late' \in Nat
    BY <1>1, <1>2 DEF Numbers
  <2>. QED  BY <2>1, <2>2, <2>3
<1>4. ~Running
  BY <1>1 DEF Running
<1>5. PICK label \in {"idle", "ensure", "prepare"} :
        /\ agent' \in AgentRecord /\ agent'.pc = label
        /\ agent'.calls = agent.calls \/ agent'.calls = <<>>
        /\ label = "prepare" => saved.messages = <<>> /\ late' = 0
  <2>1. CASE Run \/ FollowupRuns
    <3>1. Goto("prepare") /\ saved.messages = <<>> /\ late' = 0
      BY <2>1 DEF Run, FollowupRuns, ClearFlags
    <3>. QED  BY <1>2, <3>1, GotoTyped
  <2>2. CASE Followup
    <3>1. Goto("ensure")
      BY <2>2 DEF Followup
    <3>. QED  BY <1>2, <3>1, GotoTyped
  <2>3. CASE StartFails
    BY <2>3, RestTyped DEF StartFails
  <2>. QED  BY <2>1, <2>2, <2>3
<1>6. Calling'
  <2>1. DOMAIN <<>> = {}
    OBVIOUS
  <2>. QED  BY <1>1, <1>2, <1>5, <2>1 DEF Calling
<1>7. LateCall'
  BY <1>1, <1>2, <1>5 DEF LateCall
<1>. QED  BY <1>1, <1>3, <1>4, <1>5, <1>6, <1>7, WaitKeeps

\* The next turn asks the model or sums up, and leaves the rest alone.
LEMMA NextTurnTyped ==
  ASSUME NEW a \in AgentRecord
  PROVE  /\ NextTurn(a) \in AgentRecord /\ NextTurn(a).pc \in {"ask", "summary"}
         /\ NextTurn(a).messages = a.messages /\ NextTurn(a).history = a.history
         /\ NextTurn(a).calls = a.calls /\ NextTurn(a).done = a.done
<1>1. CASE a.turn < MaxIterations
  <2>1. NextTurn(a) = [a EXCEPT !.pc = "ask", !.turn = @ + 1]
    BY <1>1 DEF NextTurn
  <2>2. a.turn + 1 \in 0..MaxIterations
    BY <1>1, AgentRunAssumption DEF AgentRecord
  <2>. QED  BY <2>1, <2>2 DEF AgentRecord
<1>2. CASE ~(a.turn < MaxIterations)
  <2>1. NextTurn(a) = [a EXCEPT !.pc = "summary"]
    BY <1>2 DEF NextTurn
  <2>. QED  BY <2>1 DEF AgentRecord
<1>. QED  BY <1>1, <1>2

\* An agent that starts has the conversation it is given and what the user says.
LEMMA StartTyped ==
  ASSUME NEW m \in Seq(Message), NEW h \in Seq(Ids), StartAgent(m, h)
  PROVE  /\ agent' \in AgentRecord /\ agent'.pc \in {"ask", "summary"}
         /\ agent'.messages = Append(m, Say("user")) /\ agent'.history = h /\ agent'.calls = <<>>
<1> DEFINE a == [Rest EXCEPT !.messages = Append(m, Say("user")), !.history = h]
<1>1. Append(m, Say("user")) \in Seq(Message)
  BY Messages, AppendProperties
<1>2. a \in AgentRecord /\ a.messages = Append(m, Say("user")) /\ a.history = h /\ a.calls = <<>>
  BY <1>1, RestTyped DEF AgentRecord
<1>3. agent' = NextTurn(a)
  BY DEF StartAgent
<1> HIDE DEF a
<1>. QED  BY <1>2, <1>3, NextTurnTyped

LEMMA StartSteps == IInv /\ (StartFollowup \/ StartRun) => IInv'
<1> SUFFICES ASSUME IInv, StartFollowup \/ StartRun PROVE IInv'
  OBVIOUS
<1>1. /\ saved' = saved /\ thread' = thread /\ issued' = issued /\ base' = base /\ runs' = runs
      /\ \/ interrupt' = FALSE /\ hard' = FALSE /\ late' = 0
         \/ interrupt' = interrupt /\ hard' = hard /\ late' = late /\ agent.pc = "prepare"
      /\ other' = other /\ beside' = beside
  BY DEF StartFollowup, StartRun, ClearFlags, flags, second
<1>2. /\ Flags /\ Numbers /\ Records /\ Threads /\ LateCall /\ Conversations /\ Asked
      /\ ResultsAreKept
  BY TypeParts DEF IInv
<1>3. ~Running
  BY DEF StartFollowup, StartRun, Running
<1>4. PICK m, h : /\ Sound(m) /\ h \in Seq(Ids) /\ StartAgent(m, h)
                  /\ beside \/ /\ Len(m) >= Len(saved.messages)
                               /\ \A i \in 1..Len(saved.messages) : m[i] = saved.messages[i]
                               /\ h = saved.history \/ saved.messages = <<>>
  <2>1. CASE StartFollowup
    <3>1. Sound(saved.messages) /\ saved.messages \in Seq(Message)
      BY <1>2, <2>1 DEF StartFollowup, Conversations, Sound
    <3>2. [saved.messages EXCEPT ![1] = Say("system")] = saved.messages
      BY <3>1, LenProperties DEF Sound
    <3>3. StartAgent(saved.messages, saved.history)
      BY <2>1, <3>2 DEF StartFollowup
    <3>. QED  BY <1>2, <3>1, <3>3, SavedFacts, LenProperties
  <2>2. CASE StartRun
    <3> DEFINE first == <<Say("system")>>
    <3>1. StartAgent(first, <<>>) /\ <<>> \in Seq(Ids) /\ Len(first) = 1
      BY <2>2, EmptySeq DEF StartRun
    <3>2. Sound(first)
      BY FirstSound
    <3> HIDE DEF first
    <3>3. CASE beside
      BY <3>1, <3>2, <3>3
    <3>4. CASE ~beside
      <4>1. saved.messages = <<>> /\ Len(saved.messages) = 0
        BY <1>2, <2>2, <3>4, EmptySeq DEF StartRun, Conversations
      <4>2. Len(first) >= Len(saved.messages) /\ 1..Len(saved.messages) = {}
        BY <3>1, <4>1
      <4>. QED  BY <3>1, <3>2, <4>1, <4>2
    <3>. QED  BY <3>3, <3>4
  <2>. QED  BY <2>1, <2>2
<1>5. m \in Seq(Message) /\ Len(m) \in Nat /\ Len(saved.messages) \in Nat
  BY <1>2, <1>4, SavedFacts, LenProperties DEF Sound
<1>6. /\ agent' \in AgentRecord /\ agent'.pc \in {"ask", "summary"} /\ Running'
      /\ agent'.messages = Append(m, Say("user")) /\ agent'.history = h /\ agent'.calls = <<>>
  BY <1>4, <1>5, StartTyped DEF Running
<1>7. Sound(agent'.messages) /\ (beside \/ Extends(agent'.messages, saved.messages))
  <2>1. /\ Sound(Append(m, Say("user"))) /\ Len(Append(m, Say("user"))) = Len(m) + 1
        /\ \A i \in 1..Len(m) : Append(m, Say("user"))[i] = m[i]
    BY <1>4, AppendSound, Messages
  <2>2. beside \/ Len(agent'.messages) > Len(saved.messages)
    BY <1>4, <1>5, <1>6, <2>1
  <2>3. beside \/ \A i \in 2..Len(saved.messages) : agent'.messages[i] = saved.messages[i]
    BY <1>4, <1>5, <1>6, <2>1
  <2>. QED  BY <1>6, <2>1, <2>2, <2>3 DEF Extends
<1>8. Flags' /\ Numbers' /\ LateCall'
  <2>1. Flags'
    BY <1>1, <1>2 DEF Flags
  <2>2. Numbers'
    BY <1>1, <1>2 DEF Numbers
  <2>3. LateCall'
    BY <1>1, <1>2 DEF LateCall
  <2>. QED  BY <2>1, <2>2, <2>3
<1>9. TypeOK'
  BY <1>1, <1>2, <1>6, <1>8, BesideStays DEF TypeOK, Flags, Numbers, Records, AgentRecord, Threads, Others
<1>10. Conversations' /\ Asked'
  BY <1>1, <1>2, <1>6, <1>7 DEF Conversations, Asked, Running
<1>11. Calling'
  <2>1. DOMAIN <<>> = {}
    OBVIOUS
  <2>. QED  BY <1>6, <2>1 DEF Calling
<1>12. ResultsAreKept'
  <2>1. CASE h = saved.history
    BY <1>1, <1>2, <1>3, <1>6, <2>1 DEF ResultsAreKept, Kept
  <2>2. CASE beside
    BY <1>1, <2>2 DEF ResultsAreKept
  <2>3. CASE saved.messages = <<>> /\ ~beside
    <3>1. (base' + 1)..issued' = {}
      BY <1>1, <1>2, <1>3, <2>3 DEF Asked, Numbers
    <3>. QED  BY <3>1 DEF ResultsAreKept
  <2>. QED  BY <1>4, <2>1, <2>2, <2>3
<1>. QED  BY <1>1, <1>8, <1>9, <1>10, <1>11, <1>12, BesideStays DEF IInv

\* Steps of a run that only move it: the conversation and the history stay.
LEMMA MoveSteps ==
  ASSUME IInv, other' = other, beside' = beside, Running,
         interrupt' = interrupt, hard' = hard, saved' = saved, runs' = runs, base' = base,
         issued' \in issued..MaxCalls, late' \in Nat, LateCall',
         agent' \in AgentRecord, Running', Calling',
         agent'.messages = agent.messages, agent'.history = agent.history,
         Threads', \A k \in Ids : thread'[k].pc = "taken" => thread[k].pc = "taken"
  PROVE  IInv'
<1>1. /\ Sound(agent'.messages) /\ (beside \/ Extends(agent'.messages, saved.messages))
      /\ \A k \in Ids : thread[k].pc = "taken" => k <= issued
  BY DEF IInv, Conversations, Asked
<1>2. \A k \in Ids : thread'[k].pc = "taken" =>
            /\ k <= issued
            /\ thread[k].pc = "taken" \/ \E i \in DOMAIN agent'.history : agent'.history[i] = k
  BY <1>1
<1>3. \A i \in DOMAIN agent.history : \E j \in DOMAIN agent'.history : agent'.history[j] = agent.history[i]
  OBVIOUS
<1>. QED  BY <1>1, <1>2, <1>3, RunKeeps

\* A run that ends with the conversation it carries and a history that holds its own.
LEMMA GiveUpKeeps ==
  ASSUME IInv, other' = other, beside' = beside, Running, NEW history \in Seq(Ids),
         End(agent.messages, history) \/ Interrupted(history),
         interrupt' = interrupt, hard' = hard, runs' = runs, base' = base, late' = late,
         issued' \in issued..MaxCalls, Threads',
         \A k \in Ids : thread'[k].pc = "taken" =>
            /\ k <= issued
            /\ thread[k].pc = "taken" \/ \E i \in DOMAIN history : history[i] = k,
         \A i \in DOMAIN agent.history : \E j \in DOMAIN history : history[j] = agent.history[i]
  PROVE  IInv'
<1>1. Sound(agent.messages)
  BY DEF IInv, Conversations
<1>2. End(agent.messages, history)
  BY <1>1, SafeSound DEF Interrupted
<1>3. LateCall'
  <2>1. agent'.pc = "idle"
    BY <1>2, RestTyped DEF End
  <2>. QED  BY <2>1 DEF IInv, LateCall
<1>. QED  BY <1>1, <1>2, <1>3, EndKeeps

\* The exception handler keeps the conversation and the history as they are.
LEMMA RaiseKeeps ==
  ASSUME IInv, other' = other, beside' = beside, Running, Raise,
         interrupt' = interrupt, hard' = hard, runs' = runs, base' = base, late' = late,
         issued' = issued, Threads', \A k \in Ids : thread'[k].pc = "taken" => thread[k].pc = "taken"
  PROVE  IInv'
<1>1. End(agent.messages, agent.history) \/ Interrupted(agent.history)
  BY DEF Raise
<1>2. agent.history \in Seq(Ids) /\ issued' \in issued..MaxCalls
  BY TypeParts, AgentFacts, AgentRunAssumption DEF IInv, Numbers
<1>3. \A k \in Ids : thread'[k].pc = "taken" => k <= issued /\ thread[k].pc = "taken"
  BY DEF IInv, Asked
<1>. QED  BY <1>1, <1>2, <1>3, GiveUpKeeps

\* Shutting the socket of the current call leaves its thread where it is.
LEMMA CloseKeeps ==
  ASSUME IInv, CloseSocket, agent.pc \in {"call", "tool", "decide"}
  PROVE  Threads' /\ \A k \in Ids : thread'[k].pc = thread[k].pc
<1>1. Current \in Ids /\ Threads
  BY CurrentAsked, TypeParts DEF IInv
<1>2. PICK b \in BOOLEAN : thread' = [thread EXCEPT ![Current].shut = b]
  <2> DEFINE b == thread[Current].shut \/ thread[Current].pc \in {"open", "asking"}
  <2>1. b \in BOOLEAN
    BY <1>1 DEF Threads
  <2>2. thread' = [thread EXCEPT ![Current].shut = b]
    BY <1>1 DEF CloseSocket, Threads
  <2>. QED  BY <2>1, <2>2
<1>. QED  BY <1>1, <1>2 DEF Threads

\* The steps that raise.
LEMMA RaiseSteps ==
  ASSUME IInv, \/ Ask /\ hard
               \/ AbortThink \/ ProviderFails \/ Malformed \/ AbortTool \/ OutcomeRaises \/ AbortDecide
  PROVE  IInv'
<1>1. /\ Running /\ Raise
      /\ interrupt' = interrupt /\ hard' = hard /\ runs' = runs /\ base' = base /\ late' = late
      /\ issued' = issued /\ other' = other /\ beside' = beside
  BY DEF Ask, AbortThink, ProviderFails, Malformed, AbortTool, OutcomeRaises, AbortDecide, flags, second,
         Running
<1>2. Threads
  BY TypeParts DEF IInv
<1>3. Threads' /\ \A k \in Ids : thread'[k].pc = "taken" => thread[k].pc = "taken"
  <2>1. CASE AbortTool \/ AbortDecide
    <3>1. CloseSocket /\ agent.pc \in {"call", "tool", "decide"}
      BY <2>1 DEF AbortTool, AbortDecide
    <3>. QED  BY <3>1, CloseKeeps
  <2>2. CASE ~(AbortTool \/ AbortDecide)
    <3>1. thread' = thread
      BY <2>2 DEF Ask, AbortThink, ProviderFails, Malformed, OutcomeRaises
    <3>. QED  BY <1>2, <3>1 DEF Threads
  <2>. QED  BY <2>1, <2>2
<1>. QED  BY <1>1, <1>3, RaiseKeeps

\* The steps that only change the place of the agent in the loop.
LEMMA GotoSteps ==
  ASSUME IInv, \/ Ask /\ ~hard
               \/ Notice \/ DecideKeep
  PROVE  IInv'
<1>1. /\ interrupt' = interrupt /\ hard' = hard /\ saved' = saved /\ runs' = runs /\ base' = base
      /\ late' = late /\ issued' = issued /\ thread' = thread /\ Running
      /\ other' = other /\ beside' = beside
  BY DEF Ask, Notice, DecideKeep, flags, second, Running
<1>2. Numbers /\ Threads /\ LateCall /\ agent \in AgentRecord /\ Calling
  BY TypeParts DEF IInv
<1>3. issued' \in issued..MaxCalls /\ late' \in Nat
  BY <1>1, <1>2, AgentRunAssumption DEF Numbers
<1>4. PICK label \in {"think", "tool", "decide"} :
        /\ Goto(label)
        /\ \/ label = "think" /\ agent.pc = "ask"
           \/ label # "think" /\ agent.pc \in {"tool", "decide"}
  BY DEF Ask, Notice, DecideKeep
<1>5. /\ agent' \in AgentRecord /\ agent'.pc = label /\ agent'.messages = agent.messages
      /\ agent'.history = agent.history /\ agent'.calls = agent.calls /\ agent'.done = agent.done
  BY <1>2, <1>4, GotoTyped
<1>6. Running' /\ Calling'
  BY <1>1, <1>2, <1>4, <1>5 DEF Running, Calling
<1>7. LateCall'
  BY <1>1, <1>2, <1>4, <1>5 DEF LateCall
<1>8. Threads' /\ \A k \in Ids : thread'[k].pc = "taken" => thread[k].pc = "taken"
  BY <1>1, <1>2 DEF Threads
<1>. QED  BY <1>1, <1>3, <1>5, <1>6, <1>7, <1>8, MoveSteps

\* A decision to terminate shuts the socket and goes back to the tool.
LEMMA DecideTerminateStep == IInv /\ DecideTerminate => IInv'
<1> SUFFICES ASSUME IInv, DecideTerminate PROVE IInv'
  OBVIOUS
<1>1. /\ interrupt' = interrupt /\ hard' = hard /\ saved' = saved /\ runs' = runs /\ base' = base
      /\ late' = late /\ issued' = issued /\ CloseSocket /\ agent.pc = "decide"
      /\ agent' = [agent EXCEPT !.pc = "tool", !.terminated = TRUE]
      /\ other' = other /\ beside' = beside
  BY DEF DecideTerminate, flags, second
<1>2. Numbers /\ Threads /\ LateCall /\ agent \in AgentRecord /\ Calling
  BY TypeParts DEF IInv
<1>3. issued' \in issued..MaxCalls /\ late' \in Nat /\ Running
  BY <1>1, <1>2, AgentRunAssumption DEF Numbers, Running
<1>4. /\ agent' \in AgentRecord /\ agent'.pc = "tool" /\ agent'.messages = agent.messages
      /\ agent'.history = agent.history /\ agent'.calls = agent.calls /\ agent'.done = agent.done
  BY <1>1, <1>2 DEF AgentRecord
<1>5. Running' /\ Calling'
  BY <1>1, <1>2, <1>4 DEF Running, Calling
<1>6. LateCall'
  BY <1>1, <1>2, <1>4 DEF LateCall
<1>7. Threads' /\ \A k \in Ids : thread'[k].pc = "taken" => thread[k].pc = "taken"
  BY <1>1, CloseKeeps
<1>. QED  BY <1>1, <1>3, <1>4, <1>5, <1>6, <1>7, MoveSteps

\* A call is dispatched: late when the agent is interrupted, and then the first.
LEMMA DispatchStep == IInv /\ Dispatch => IInv'
<1> SUFFICES ASSUME IInv, Dispatch PROVE IInv'
  OBVIOUS
<1>1. /\ interrupt' = interrupt /\ hard' = hard /\ saved' = saved /\ runs' = runs /\ base' = base
      /\ issued' = issued /\ agent.pc = "call"
      /\ agent' = [agent EXCEPT !.pc = "tool", !.terminated = FALSE]
      /\ thread' = [thread EXCEPT ![Current].pc = "spawned"]
      /\ late' = IF interrupt THEN late + 1 ELSE late
      /\ other' = other /\ beside' = beside
  BY DEF Dispatch, flags, second
<1>2. Numbers /\ Threads /\ LateCall /\ agent \in AgentRecord /\ Calling
  BY TypeParts DEF IInv
<1>3. late = 0
  BY <1>1, <1>2 DEF LateCall
<1>4. issued' \in issued..MaxCalls /\ late' \in Nat /\ Running
  BY <1>1, <1>2, <1>3, AgentRunAssumption DEF Numbers, Running
<1>5. /\ agent' \in AgentRecord /\ agent'.pc = "tool" /\ agent'.messages = agent.messages
      /\ agent'.history = agent.history /\ agent'.calls = agent.calls /\ agent'.done = agent.done
  BY <1>1, <1>2 DEF AgentRecord
<1>6. Running' /\ Calling'
  BY <1>1, <1>2, <1>5 DEF Running, Calling
<1>7. LateCall'
  BY <1>1, <1>3, <1>5 DEF LateCall
<1>8. Threads' /\ \A k \in Ids : thread'[k].pc = "taken" => thread[k].pc = "taken"
  <2>1. Current \in Ids
    BY <1>1, CurrentAsked
  <2>. QED  BY <1>1, <1>2, <2>1 DEF Threads
<1>. QED  BY <1>1, <1>4, <1>5, <1>6, <1>7, <1>8, MoveSteps

\* The calls of a reply are new.
LEMMA ReplyCallsStep ==
  ASSUME IInv, NEW n \in 1..MaxReply, ReplyCalls(n)
  PROVE  IInv'
<1>1. /\ interrupt' = interrupt /\ hard' = hard /\ runs' = runs /\ base' = base /\ late' = late
      /\ thread' = thread /\ agent.pc = "think" /\ issued' = issued + n /\ issued + n <= MaxCalls
      /\ other' = other /\ beside' = beside
  BY DEF ReplyCalls, flags, second
<1>2. Numbers /\ Threads /\ LateCall /\ agent \in AgentRecord /\ n \in Nat
  BY TypeParts, AgentRunAssumption DEF IInv
<1>3. issued \in Nat /\ issued' \in issued..MaxCalls /\ late' \in Nat /\ Running
  BY <1>1, <1>2, AgentRunAssumption DEF Numbers, Running
<1>4. Threads' /\ \A k \in Ids : thread'[k].pc = "taken" => k <= issued /\ thread[k].pc = "taken"
  BY <1>1, <1>2 DEF Threads, IInv, Asked
<1>5. CASE interrupt
  <2>1. Interrupted(agent.history) /\ agent.history \in Seq(Ids)
    BY <1>2, <1>5, AgentFacts DEF ReplyCalls
  <2>. QED  BY <1>1, <1>3, <1>4, <2>1, GiveUpKeeps
<1>6. CASE ~interrupt
  <2>1. agent' = [agent EXCEPT !.pc = "call", !.calls = NewCalls(n), !.done = 0] /\ saved' = saved
    BY <1>6 DEF ReplyCalls
  <2>2. /\ NewCalls(n) \in Seq(Ids) /\ Len(NewCalls(n)) = n /\ DOMAIN NewCalls(n) = 1..n
        /\ \A i \in 1..n : NewCalls(n)[i] <= issued'
    <3>1. \A i \in 1..n : issued + i \in Ids /\ issued + i <= issued'
      BY <1>1, <1>2, <1>3, AgentRunAssumption DEF Ids
    <3>2. NewCalls(n) \in [1..n -> Ids] /\ \A i \in 1..n : NewCalls(n)[i] = issued + i
      BY <3>1 DEF NewCalls
    <3>. QED  BY <1>2, <3>1, <3>2
  <2>3. /\ agent' \in AgentRecord /\ agent'.pc = "call" /\ agent'.messages = agent.messages
        /\ agent'.history = agent.history /\ agent'.calls = NewCalls(n) /\ agent'.done = 0
    BY <1>2, <2>1, <2>2 DEF AgentRecord
  <2>4. Running' /\ Calling'
    BY <1>2, <2>2, <2>3 DEF Running, Calling
  <2>5. LateCall'
    BY <1>1, <1>2 DEF LateCall
  <2>. QED  BY <1>1, <1>3, <1>4, <2>1, <2>3, <2>4, <2>5, MoveSteps
<1>. QED  BY <1>5, <1>6

\* What goes beyond a conversation goes beyond what that one goes beyond.
LEMMA ExtendsFurther ==
  ASSUME NEW a \in Seq(Message), NEW b \in Seq(Message), NEW c \in Seq(Message),
         Extends(b, a), Len(c) > Len(b), \A i \in 1..Len(b) : c[i] = b[i]
  PROVE  Extends(c, a)
<1>1. Len(a) \in Nat /\ Len(b) \in Nat /\ Len(c) \in Nat /\ Len(b) > Len(a)
  BY LenProperties DEF Extends
<1>2. \A i \in 2..Len(a) : c[i] = a[i]
  <2> SUFFICES ASSUME NEW i \in 2..Len(a) PROVE c[i] = a[i]
    OBVIOUS
  <2>1. i \in 1..Len(b) /\ b[i] = a[i]
    BY <1>1 DEF Extends
  <2>. QED  BY <2>1
<1>. QED  BY <1>1, <1>2 DEF Extends

\* The answer of the model is the end of the conversation so far.
LEMMA AnswerSteps == IInv /\ (ReplyAnswer \/ Summarize) => IInv'
<1> SUFFICES ASSUME IInv, ReplyAnswer \/ Summarize PROVE IInv'
  OBVIOUS
<1>1. /\ interrupt' = interrupt /\ hard' = hard /\ runs' = runs /\ base' = base /\ late' = late
      /\ thread' = thread /\ issued' = issued /\ Running /\ agent.pc \in {"think", "summary"}
      /\ other' = other /\ beside' = beside
  BY DEF ReplyAnswer, Summarize, flags, second, Running
<1>2. Numbers /\ Threads /\ LateCall /\ agent \in AgentRecord /\ Records
  BY TypeParts DEF IInv
<1>3. issued' \in issued..MaxCalls /\ agent.history \in Seq(Ids)
  BY <1>1, <1>2, AgentFacts, AgentRunAssumption DEF Numbers
<1>4. Threads' /\ \A k \in Ids : thread'[k].pc = "taken" => k <= issued /\ thread[k].pc = "taken"
  BY <1>1, <1>2 DEF Threads, IInv, Asked
<1>5. LateCall'
  BY <1>1, <1>2 DEF LateCall
<1>6. Sound(agent.messages)
  BY <1>1 DEF IInv, Conversations
<1>7. CASE ReplyAnswer /\ interrupt
  BY <1>1, <1>3, <1>4, <1>7, GiveUpKeeps DEF ReplyAnswer
<1> DEFINE m == Append(agent.messages, Say("assistant"))
           u == Append(agent.messages, Say("user"))
           w == Append(u, Say("assistant"))
<1>8. CASE ReplyAnswer /\ ~interrupt
  <2>1. End(m, agent.history)
    BY <1>8 DEF ReplyAnswer
  <2>2. Sound(m)
    BY <1>6, AppendSound, Messages
  <2>. QED  BY <1>1, <1>3, <1>4, <1>5, <2>1, <2>2, EndKeeps
<1>9. CASE Summarize
  <2>1. Sound(u)
    BY <1>6, AppendSound, Messages
  <2> HIDE DEF u
  <2>2. Sound(w)
    BY <2>1, AppendSound, Messages
  <2>3. agent.messages \o <<Say("user"), Say("assistant")>> = w
    BY <1>2, Messages, AgentFacts DEF u
  <2>4. End(w, agent.history)
    BY <1>9, <2>3 DEF Summarize
  <2>. QED  BY <1>1, <1>3, <1>4, <1>5, <2>2, <2>4, EndKeeps
<1>. QED  BY <1>7, <1>8, <1>9

\* The result of the current call is recorded: the history holds it, and the
\* conversation the whole exchange once it is complete.
LEMMA RecordKeeps ==
  ASSUME IInv, other' = other, beside' = beside, agent.pc \in {"call", "tool"}, Record,
         interrupt' = interrupt, hard' = hard, runs' = runs, base' = base, late' = late,
         issued' = issued, Threads',
         \A k \in Ids : thread'[k].pc = "taken" => thread[k].pc = "taken" \/ k = Current
  PROVE  IInv'
<1> DEFINE history == Append(agent.history, Current)
<1>1. Numbers /\ LateCall /\ Calling /\ agent \in AgentRecord /\ Records /\ Running
  BY TypeParts DEF IInv, Running
<1>2. Current \in Ids /\ Current <= issued
  BY CurrentAsked
<1>3. /\ agent.messages \in Seq(Message) /\ agent.history \in Seq(Ids) /\ agent.calls \in Seq(Ids)
      /\ agent.done \in Nat
  BY <1>1, AgentFacts
<1>4. /\ history \in Seq(Ids)
      /\ \A i \in DOMAIN agent.history : \E j \in DOMAIN history : history[j] = agent.history[i]
      /\ \E i \in DOMAIN history : history[i] = Current
  <2>1. /\ history \in Seq(Ids) /\ DOMAIN history = 1..(Len(agent.history) + 1)
        /\ history[Len(agent.history) + 1] = Current
        /\ \A i \in 1..Len(agent.history) : history[i] = agent.history[i]
    BY <1>2, <1>3, AppendProperties, LenProperties
  <2>2. DOMAIN agent.history = 1..Len(agent.history) /\ Len(agent.history) \in Nat
    BY <1>3, LenProperties
  <2> HIDE DEF history
  <2>3. /\ Len(agent.history) + 1 \in DOMAIN history
        /\ \A i \in DOMAIN agent.history : i \in DOMAIN history /\ history[i] = agent.history[i]
    BY <2>1, <2>2
  <2>. QED  BY <2>1, <2>3
<1>5. \A k \in Ids : thread'[k].pc = "taken" =>
            /\ k <= issued
            /\ thread[k].pc = "taken" \/ \E i \in DOMAIN history : history[i] = k
  BY <1>2, <1>4 DEF IInv, Asked
<1>6. issued' \in issued..MaxCalls /\ late' \in Nat
  BY <1>1, AgentRunAssumption DEF Numbers
<1>7. \/ interrupt /\ Interrupted(history)
      \/ /\ ~interrupt /\ agent.done + 1 < Len(agent.calls) /\ saved' = saved
         /\ agent' = [agent EXCEPT !.pc = "call", !.history = history, !.done = agent.done + 1]
      \/ /\ ~interrupt /\ saved' = saved
         /\ agent' = NextTurn([agent EXCEPT !.history = history, !.calls = <<>>, !.done = 0,
                                            !.messages = agent.messages \o Exchange(agent.calls)])
  BY DEF Record
<1> HIDE DEF history
<1>8. CASE interrupt /\ Interrupted(history)
  BY <1>1, <1>4, <1>5, <1>6, <1>8, GiveUpKeeps
<1>9. Sound(agent.messages) /\ (beside \/ Extends(agent.messages, saved.messages))
  BY <1>1 DEF IInv, Conversations
<1>10. ASSUME ~interrupt
       PROVE  LateCall'
  BY <1>1, <1>10 DEF LateCall
<1>11. ASSUME ~interrupt, agent.done + 1 < Len(agent.calls), saved' = saved,
              agent' = [agent EXCEPT !.pc = "call", !.history = history, !.done = agent.done + 1]
       PROVE  IInv'
  <2>1. /\ agent' \in AgentRecord /\ agent'.pc = "call" /\ agent'.messages = agent.messages
        /\ agent'.history = history /\ agent'.calls = agent.calls /\ agent'.done = agent.done + 1
    <3>1. agent.done + 1 \in Nat
      BY <1>3
    <3>. QED  BY <1>1, <1>4, <1>11, <3>1 DEF AgentRecord
  <2>2. Running' /\ Calling'
    BY <1>1, <1>11, <2>1 DEF Running, Calling
  <2>. QED  BY <1>1, <1>4, <1>5, <1>6, <1>9, <1>10, <1>11, <2>1, <2>2, RunKeeps
<1>12. ASSUME ~interrupt, saved' = saved,
              agent' = NextTurn([agent EXCEPT !.history = history, !.calls = <<>>, !.done = 0,
                                              !.messages = agent.messages \o Exchange(agent.calls)])
       PROVE  IInv'
  <2> DEFINE m == agent.messages \o Exchange(agent.calls)
             a == [agent EXCEPT !.history = history, !.calls = <<>>, !.done = 0, !.messages = m]
  <2>1. Sound(m) /\ Len(m) > Len(agent.messages) /\ \A i \in 1..Len(agent.messages) : m[i] = agent.messages[i]
    BY <1>3, <1>9, ExchangeSound
  <2>2. m \in Seq(Message)
    BY <2>1 DEF Sound
  <2>3. agent' = NextTurn(a)
    BY <1>12
  <2> HIDE DEF m
  <2>4. beside \/ Extends(m, saved.messages)
    BY <1>1, <1>3, <1>9, <2>1, <2>2, SavedFacts, ExtendsFurther
  <2>5. a \in AgentRecord /\ a.messages = m /\ a.history = history /\ a.calls = <<>> /\ a.done = 0
    <3>1. <<>> \in Seq(Ids)
      BY EmptySeq
    <3>. QED  BY <1>1, <1>4, <2>2, <3>1 DEF AgentRecord
  <2> HIDE DEF a
  <2>6. /\ agent' \in AgentRecord /\ agent'.pc \in {"ask", "summary"} /\ agent'.messages = m
        /\ agent'.history = history /\ agent'.calls = <<>> /\ Running'
    BY <2>3, <2>5, NextTurnTyped DEF Running
  <2>7. Calling'
    <3>1. DOMAIN <<>> = {}
      OBVIOUS
    <3>. QED  BY <2>6, <3>1 DEF Calling
  <2>. QED  BY <1>1, <1>4, <1>5, <1>6, <1>10, <1>12, <2>1, <2>4, <2>6, <2>7, RunKeeps
<1>. QED  BY <1>7, <1>8, <1>11, <1>12

\* A result comes from the gate, which denies the call, or from its thread.
LEMMA RecordSteps == IInv /\ (Deny \/ TakeOutcome) => IInv'
<1> SUFFICES ASSUME IInv, Deny \/ TakeOutcome PROVE IInv'
  OBVIOUS
<1>1. /\ interrupt' = interrupt /\ hard' = hard /\ runs' = runs /\ base' = base /\ late' = late
      /\ issued' = issued /\ Record /\ agent.pc \in {"call", "tool"}
      /\ thread' = thread \/ thread' = [thread EXCEPT ![Current].pc = "taken"]
      /\ other' = other /\ beside' = beside
  BY DEF Deny, TakeOutcome, flags, second
<1>2. Threads /\ Current \in Ids
  BY <1>1, CurrentAsked, TypeParts DEF IInv
<1>3. /\ Threads'
      /\ \A k \in Ids : thread'[k].pc = "taken" => thread[k].pc = "taken" \/ k = Current
  BY <1>1, <1>2 DEF Threads
<1>. QED  BY <1>1, <1>3, RecordKeeps

-----------------------------------------------------------------------------

LEMMA Step == IInv /\ [Next]_vars => IInv'
<1> SUFFICES ASSUME IInv, [Next]_vars PROVE IInv'
  OBVIOUS
<1>1. CASE UNCHANGED vars
  <2>1. /\ interrupt' = interrupt /\ hard' = hard /\ saved' = saved /\ agent' = agent
        /\ thread' = thread /\ issued' = issued /\ runs' = runs /\ base' = base /\ late' = late
        /\ other' = other /\ beside' = beside
    BY <1>1 DEF vars
  <2>. QED  BY <2>1 DEF IInv, Beside, TypeOK, Conversations, Calling, Asked, ResultsAreKept, Kept, LateCall,
                        Running
<1>2. CASE Interrupt \/ HardCancel \/ NewChat \/ OtherStarts \/ OtherEnds
  BY <1>2, FlagSteps, NewChatStep, OtherStartsStep, OtherEndsStep
<1>3. CASE Run \/ Followup \/ FollowupRuns \/ StartFails \/ StartFollowup \/ StartRun
  BY <1>3, WaitSteps, StartSteps
<1>4. CASE Ask
  BY <1>4, RaiseSteps, GotoSteps
<1>5. CASE AbortThink \/ ProviderFails \/ Malformed \/ AbortTool \/ OutcomeRaises \/ AbortDecide
  BY <1>5, RaiseSteps
<1>6. CASE ReplyAnswer \/ Summarize
  BY <1>6, AnswerSteps
<1>7. CASE \E n \in 1..MaxReply : ReplyCalls(n)
  BY <1>7, ReplyCallsStep
<1>8. CASE Dispatch \/ DecideTerminate
  BY <1>8, DispatchStep, DecideTerminateStep
<1>9. CASE Deny \/ TakeOutcome
  BY <1>9, RecordSteps
<1>10. CASE Notice \/ DecideKeep
  BY <1>10, GotoSteps
<1>11. CASE \E k \in Ids : Connect(k) \/ AskUser(k) \/ UserAnswers(k) \/ ToolEnds(k)
  BY <1>11, ThreadSteps
<1>. QED  BY <1>1, <1>2, <1>3, <1>4, <1>5, <1>6, <1>7, <1>8, <1>9, <1>10, <1>11 DEF Next, Gate

LEMMA Invariance == Spec => []IInv
<1>. QED  BY InitInv, Step, PTL DEF Spec

-----------------------------------------------------------------------------
(* What normalize_messages_for_openai makes of a conversation whose calls  *)
(* have their results: while the results of a message come, the calls that *)
(* wait under a name are the last ones of that message with the name.      *)

\* Induction, in a form the provers can use: a set of numbers with zero and all
\* successors is all numbers.
LEMMA LessIsWellFounded == IsWellFoundedOn({p \in Nat \X Nat : p[1] < p[2]}, Nat)
<1>1. OpToRel(<, Nat) = {p \in Nat \X Nat : p[1] < p[2]}
  BY DEF OpToRel
<1>. QED  BY <1>1, NatLessThanWellFounded

LEMMA Induction ==
  ASSUME NEW T \in SUBSET Nat, 0 \in T, \A n \in T : n + 1 \in T
  PROVE  T = Nat
<1>. DEFINE C == Nat \ T
            R == {p \in Nat \X Nat : p[1] < p[2]}
<1>. SUFFICES ASSUME C # {} PROVE FALSE
  OBVIOUS
<1>1. PICK x \in C : \A y \in C : <<y, x>> \notin R
  <2>1. C \subseteq Nat
    OBVIOUS
  <2>2. IsWellFoundedOn(R, Nat)
    BY LessIsWellFounded
  <2>. HIDE DEF R, C
  <2>. QED  BY <2>1, <2>2, WFMin
<1>2. x # 0 /\ x - 1 \in Nat /\ x \in Nat /\ x \notin T
  OBVIOUS
<1>3. x - 1 \notin C
  <2>1. <<x - 1, x>> \in R
    BY <1>2
  <2>. QED  BY <1>1, <2>1
<1>4. (x - 1) + 1 = x
  BY <1>2
<1>. QED  BY <1>2, <1>3, <1>4

\* What the last i calls add to the queue of n, for i up to m.
Lasts(f, calls, name, n, m) ==
  f = [i \in 0..m |->
        IF i = 0 THEN <<>>
        ELSE LET k == calls[Len(calls) - i + 1]
             IN (IF name[k] = n THEN <<k>> ELSE <<>>) \o f[i - 1]]
Left(calls, name, n) == CHOOSE f : Lasts(f, calls, name, n, Len(calls))

\* What is left of the calls, call by call, and that all of them queue up.
Dwindles(L, calls, name, n) ==
  /\ L[0] = <<>> /\ \A i \in 0..Len(calls) : L[i] \in Seq(Ids)
  /\ \A i \in 1..Len(calls) :
       L[i] = (IF name[calls[Len(calls) - i + 1]] = n
               THEN <<calls[Len(calls) - i + 1]>> ELSE <<>>) \o L[i - 1]
  /\ Queued(calls, name, n) = L[Len(calls)]

LEMMA LastsExists ==
  ASSUME NEW calls \in Seq(Ids), NEW name, NEW n
  PROVE  \A m \in Nat : \E f : Lasts(f, calls, name, n, m)
<1>. DEFINE T == {m \in Nat : \E f : Lasts(f, calls, name, n, m)}
            add(i) == IF name[calls[Len(calls) - i + 1]] = n
                      THEN <<calls[Len(calls) - i + 1]>> ELSE <<>>
<1>1. 0 \in T
  <2>1. Lasts([i \in 0..0 |-> <<>>], calls, name, n, 0)
    BY DEF Lasts
  <2>. QED  BY <2>1
<1>2. ASSUME NEW m \in T PROVE m + 1 \in T
  <2>1. PICK f : Lasts(f, calls, name, n, m)
    BY <1>2
  <2>. DEFINE g == [i \in 0..(m + 1) |-> IF i = 0 THEN <<>> ELSE add(i) \o f[i - 1]]
  <2>2. f = [i \in 0..m |-> IF i = 0 THEN <<>> ELSE add(i) \o f[i - 1]]
    BY <2>1 DEF Lasts
  <2>. HIDE DEF add
  <2>3. \A i \in 0..m : g[i] = f[i]
    <3>. SUFFICES ASSUME NEW i \in 0..m PROVE g[i] = f[i]
      OBVIOUS
    <3>1. f[i] = IF i = 0 THEN <<>> ELSE add(i) \o f[i - 1]
      BY <2>2
    <3>. QED  BY <3>1
  <2>4. g = [i \in 0..(m + 1) |-> IF i = 0 THEN <<>> ELSE add(i) \o g[i - 1]]
    <3>. SUFFICES ASSUME NEW i \in 0..(m + 1)
                  PROVE  g[i] = IF i = 0 THEN <<>> ELSE add(i) \o g[i - 1]
      OBVIOUS
    <3>1. i # 0 => i - 1 \in 0..m
      OBVIOUS
    <3>. QED  BY <2>3, <3>1
  <2>. HIDE DEF g
  <2>5. Lasts(g, calls, name, n, m + 1)
    BY <2>4 DEF Lasts, add
  <2>. QED  BY <2>5
<1>3. T = Nat
  <2>. HIDE DEF T
  <2>1. T \in SUBSET Nat
    BY DEF T
  <2>. QED  BY <1>1, <1>2, <2>1, Induction
<1>. QED  BY <1>3

LEMMA LeftIs ==
  ASSUME NEW calls \in Seq(Ids), NEW name, NEW n
  PROVE  Dwindles(Left(calls, name, n), calls, name, n)
<1>. DEFINE L == Left(calls, name, n)
            T == {m \in Nat : m <= Len(calls) => L[m] \in Seq(Ids)}
<1>1. Len(calls) \in Nat
  BY LenProperties
<1>2. Lasts(L, calls, name, n, Len(calls))
  BY <1>1, LastsExists DEF Left
<1>3. Queued(calls, name, n) = L[Len(calls)]
  BY DEF Queued, Left, Lasts
<1>. HIDE DEF L
<1>4. /\ L[0] = <<>>
      /\ \A i \in 1..Len(calls) :
           L[i] = (IF name[calls[Len(calls) - i + 1]] = n
                   THEN <<calls[Len(calls) - i + 1]>> ELSE <<>>) \o L[i - 1]
  BY <1>1, <1>2 DEF Lasts
<1>5. 0 \in T
  BY <1>4, EmptySeq
<1>6. ASSUME NEW m \in T PROVE m + 1 \in T
  <2>. SUFFICES ASSUME m + 1 <= Len(calls) PROVE L[m + 1] \in Seq(Ids)
    OBVIOUS
  <2>1. L[m] \in Seq(Ids) /\ m \in Nat
    BY <1>1, <1>6
  <2>2. calls[Len(calls) - (m + 1) + 1] \in Ids
    BY <1>1, <2>1, ElementOfSeq
  <2>. DEFINE k == calls[Len(calls) - (m + 1) + 1]
  <2>3. L[m + 1] = (IF name[k] = n THEN <<k>> ELSE <<>>) \o L[m]
    <3>1. m + 1 \in 1..Len(calls) /\ (m + 1) - 1 = m
      BY <1>1, <2>1
    <3>. QED  BY <1>4, <3>1
  <2>. HIDE DEF k
  <2>. QED  BY <2>1, <2>2, <2>3 DEF k
<1>7. T = Nat
  <2>. HIDE DEF T
  <2>1. T \in SUBSET Nat
    BY DEF T
  <2>. QED  BY <1>5, <1>6, <2>1, Induction
<1>8. \A i \in 0..Len(calls) : L[i] \in Seq(Ids)
  <2>. SUFFICES ASSUME NEW i \in 0..Len(calls) PROVE L[i] \in Seq(Ids)
    OBVIOUS
  <2>. QED  BY <1>1, <1>7
<1>9. Dwindles(L, calls, name, n)
  BY <1>3, <1>4, <1>8 DEF Dwindles
<1>. QED  BY <1>9 DEF L

\* With d calls answered, the next one waits before the others.
OneWaits(L, calls, d, name, n) ==
  /\ L[Len(calls) - d] = (IF name[calls[d + 1]] = n THEN <<calls[d + 1]>> ELSE <<>>)
                           \o L[Len(calls) - d - 1]
  /\ L[Len(calls) - d - 1] \in Seq(Ids)
  /\ Len(calls) - d - 1 = 0 => L[Len(calls) - d - 1] = <<>>

LEMMA LeftOne ==
  ASSUME NEW calls \in Seq(Ids), NEW d \in 0..(Len(calls) - 1), NEW name, NEW n
  PROVE  OneWaits(Left(calls, name, n), calls, d, name, n)
<1>. DEFINE i == Len(calls) - d
<1>1. Len(calls) \in Nat
  BY LenProperties
<1>2. i \in 1..Len(calls) /\ i - 1 \in 0..Len(calls) /\ Len(calls) - i + 1 = d + 1
  BY <1>1
<1>. HIDE DEF i
<1>3. Dwindles(Left(calls, name, n), calls, name, n)
  BY LeftIs
<1>4. Left(calls, name, n)[i] =
        (IF name[calls[Len(calls) - i + 1]] = n
         THEN <<calls[Len(calls) - i + 1]>> ELSE <<>>) \o Left(calls, name, n)[i - 1]
  BY <1>2, <1>3 DEF Dwindles
<1>5. Left(calls, name, n)[i - 1] \in Seq(Ids) /\ (i - 1 = 0 => Left(calls, name, n)[i - 1] = <<>>)
  BY <1>2, <1>3 DEF Dwindles
<1>. QED  BY <1>2, <1>4, <1>5 DEF i, OneWaits

\* The call that waits at the head is the one that is taken.
LEMMA TakesHead ==
  ASSUME NEW k \in Ids, NEW q \in Seq(Ids), NEW known
  PROVE  /\ For(<<k>> \o q, k, known) = 1
         /\ (<<k>> \o q)[1] = k /\ RemoveAt(<<k>> \o q, 1) = q
<1>. DEFINE s == <<k>> \o q
<1>1. s \in Seq(Ids) /\ Len(s) = Len(q) + 1 /\ s[1] = k /\ Len(q) \in Nat /\ DOMAIN s = 1..Len(s)
      /\ \A i \in 1..Len(q) : s[i + 1] = q[i]
  OBVIOUS
<1>2. s # <<>>
  BY <1>1
<1>. HIDE DEF s
<1>3. For(s, k, known) = 1
  <2>. DEFINE first(i) == s[i] = k /\ \A j \in 1..(i - 1) : s[j] # k
  <2>1. first(1) /\ 1 \in DOMAIN s
    BY <1>1
  <2>2. \A i \in DOMAIN s : first(i) => i = 1
    BY <1>1
  <2>3. (CHOOSE i \in DOMAIN s : first(i)) = 1
    BY <2>1, <2>2
  <2>. QED  BY <1>2, <2>3 DEF For
<1>4. RemoveAt(s, 1) = q
  <2>1. SubSeq(s, 1, 0) = <<>>
    BY <1>1
  <2>2. SubSeq(s, 2, Len(s)) = q
    BY <1>1
  <2>. QED  BY <1>1, <2>1, <2>2 DEF RemoveAt
<1>. QED  BY <1>1, <1>3, <1>4 DEF s

Accs(name) == [pending: [{name[k] : k \in Ids} -> Seq(Ids)], sent: Seq(0..MaxCalls)]

\* After i messages every result so far is that of its call, and what waits are
\* the calls of the message whose results are coming.
Matched(acc, s, name, i) ==
  /\ acc \in Accs(name) /\ Len(acc.sent) = i
  /\ \A j \in 1..i : s[j].role = "tool" => acc.sent[j] = s[j].call
  /\ \A h \in 1..i, n \in {name[k] : k \in Ids} :
       i - h < Len(s[h].calls) =>
         acc.pending[n] = Left(s[h].calls, name, n)[Len(s[h].calls) - (i - h)]
  /\ (\A h \in 1..i : i - h >= Len(s[h].calls)) =>
       \A n \in {name[k] : k \in Ids} : acc.pending[n] = <<>>

\* Messages of a conversation, and the calls they ask for.
LEMMA MessagesOf ==
  ASSUME NEW s \in Seq(Message)
  PROVE  /\ Len(s) \in Nat /\ DOMAIN s = 1..Len(s)
         /\ \A h \in 1..Len(s) :
              /\ s[h] \in Message /\ s[h].calls \in Seq(Ids) /\ Len(s[h].calls) \in Nat
              /\ DOMAIN s[h].calls = 1..Len(s[h].calls)
<1>1. Len(s) \in Nat /\ DOMAIN s = 1..Len(s)
  BY LenProperties
<1>2. ASSUME NEW h \in 1..Len(s)
      PROVE  /\ s[h] \in Message /\ s[h].calls \in Seq(Ids) /\ Len(s[h].calls) \in Nat
             /\ DOMAIN s[h].calls = 1..Len(s[h].calls)
  <2>1. s[h] \in Message
    BY ElementOfSeq
  <2>2. s[h].calls \in Seq(Ids)
    BY <2>1 DEF Message
  <2>. QED  BY <2>1, <2>2, LenProperties
<1>. QED  BY <1>1, <1>2

\* The results of a message come next to it, and ask for nothing.
LEMMA ResultsFollow ==
  ASSUME NEW s \in Seq(Message), WellPaired(s), NEW h \in 1..Len(s), NEW i \in 1..Len(s),
         h < i, i - h <= Len(s[h].calls)
  PROVE  s[i] = Result(s[h].calls[i - h]) /\ s[i].role = "tool" /\ s[i].calls = <<>>
         /\ s[h].calls[i - h] \in Ids /\ s[i].call = s[h].calls[i - h]
<1>1. /\ s[h].calls \in Seq(Ids) /\ DOMAIN s = 1..Len(s) /\ Len(s[h].calls) \in Nat
      /\ DOMAIN s[h].calls = 1..Len(s[h].calls)
  BY MessagesOf
<1>2. i - h \in DOMAIN s[h].calls
  BY <1>1
<1>3. s[h + (i - h)] = Result(s[h].calls[i - h])
  BY <1>1, <1>2 DEF WellPaired
<1>4. h + (i - h) = i
  OBVIOUS
<1>5. s[h].calls[i - h] \in Ids
  BY <1>1, <1>2
<1>. QED  BY <1>3, <1>4, <1>5, Messages

\* A result takes the call it belongs to.
LEMMA ResultMatched ==
  ASSUME NEW s \in Seq(Message), WellPaired(s), NEW i \in 0..(Len(s) - 1),
         NEW name, NEW known, NEW acc, Matched(acc, s, name, i), s[i + 1].role = "tool"
  PROVE  Matched(Normalize(acc, s[i + 1], name, known), s, name, i + 1)
<1>. DEFINE m == s[i + 1]
            Names == {name[k] : k \in Ids}
<1>1. /\ Len(s) \in Nat /\ DOMAIN s = 1..Len(s) /\ i \in Nat /\ i + 1 \in 1..Len(s)
      /\ \A h \in 1..Len(s) : s[h].calls \in Seq(Ids) /\ Len(s[h].calls) \in Nat
  BY MessagesOf
<1>2. PICK h \in 1..i : (i + 1) - h \in DOMAIN s[h].calls /\ s[h].calls[(i + 1) - h] = m.call
  <2>1. \E h \in 1..((i + 1) - 1) :
          (i + 1) - h \in DOMAIN s[h].calls /\ s[h].calls[(i + 1) - h] = s[i + 1].call
    BY <1>1 DEF WellPaired
  <2>2. (i + 1) - 1 = i
    BY <1>1
  <2>. QED  BY <2>1, <2>2
<1>. DEFINE c == s[h].calls
            d == i - h
            k == m.call
            rest(n) == Left(c, name, n)[Len(c) - d - 1]
<1>3. /\ c \in Seq(Ids) /\ Len(c) \in Nat /\ d \in 0..(Len(c) - 1) /\ k = c[d + 1] /\ k \in Ids
      /\ d + 1 = (i + 1) - h /\ m.calls = <<>> /\ name[k] \in Names
  <2>1. c \in Seq(Ids) /\ Len(c) \in Nat /\ DOMAIN c = 1..Len(c)
    BY <1>1, LenProperties
  <2>2. (i + 1) - h \in 1..Len(c) /\ h \in Nat
    BY <1>2, <2>1
  <2>3. h \in 1..Len(s) /\ h < i + 1 /\ (i + 1) - h <= Len(c)
    BY <1>1, <1>2, <2>2
  <2>4. m.calls = <<>> /\ k = c[(i + 1) - h] /\ k \in Ids
    BY <1>1, <2>3, ResultsFollow
  <2>. QED  BY <1>1, <2>1, <2>2, <2>4
<1>4. /\ acc.pending \in [Names -> Seq(Ids)] /\ acc.sent \in Seq(0..MaxCalls) /\ Len(acc.sent) = i
      /\ \A j \in 1..i : s[j].role = "tool" => acc.sent[j] = s[j].call
  BY DEF Matched, Accs
<1>5. \A n \in Names : /\ acc.pending[n] = (IF name[k] = n THEN <<k>> ELSE <<>>) \o rest(n)
                       /\ rest(n) \in Seq(Ids)
  <2>. SUFFICES ASSUME NEW n \in Names
                PROVE  /\ acc.pending[n] = (IF name[k] = n THEN <<k>> ELSE <<>>) \o rest(n)
                       /\ rest(n) \in Seq(Ids)
    OBVIOUS
  <2>1. acc.pending[n] = Left(c, name, n)[Len(c) - d]
    <3>1. i - h < Len(s[h].calls)
      <4>1. d < Len(c)
        <5>. HIDE DEF c, d
        <5>. QED  BY <1>3
      <4>. QED  BY <4>1
    <3>2. \A g \in 1..i, nn \in Names :
            i - g < Len(s[g].calls) =>
              acc.pending[nn] = Left(s[g].calls, name, nn)[Len(s[g].calls) - (i - g)]
      BY DEF Matched
    <3>. QED  BY <3>1, <3>2
  <2>. HIDE DEF c, d, k
  <2>2. /\ Left(c, name, n)[Len(c) - d] =
              (IF name[c[d + 1]] = n THEN <<c[d + 1]>> ELSE <<>>)
                \o Left(c, name, n)[Len(c) - d - 1]
        /\ Left(c, name, n)[Len(c) - d - 1] \in Seq(Ids)
    <3>1. OneWaits(Left(c, name, n), c, d, name, n)
      BY <1>3, LeftOne
    <3>. QED  BY <3>1 DEF OneWaits
  <2>. QED  BY <1>3, <2>1, <2>2
<1>. DEFINE new == Normalize(acc, m, name, known)
<1>6. /\ new.pending = [acc.pending EXCEPT ![name[k]] = rest(name[k])]
      /\ new.sent = Append(acc.sent, k)
      /\ new = [pending |-> new.pending, sent |-> new.sent]
  <2>. DEFINE q == acc.pending[name[k]]
  <2>1. q = <<k>> \o rest(name[k]) /\ rest(name[k]) \in Seq(Ids)
    BY <1>3, <1>5
  <2>2. For(q, k, known) = 1 /\ q[1] = k /\ RemoveAt(q, 1) = rest(name[k])
    <3>. DEFINE r == rest(name[k])
    <3>1. r \in Seq(Ids) /\ k \in Ids /\ q = <<k>> \o r
      BY <1>3, <2>1
    <3>. HIDE DEF q, r, k
    <3>2. For(<<k>> \o r, k, known) = 1 /\ (<<k>> \o r)[1] = k /\ RemoveAt(<<k>> \o r, 1) = r
      BY <3>1, TakesHead
    <3>3. For(q, k, known) = 1 /\ q[1] = k /\ RemoveAt(q, 1) = r
      BY <3>1, <3>2
    <3>. QED  BY <3>3 DEF r
  <2>3. new = [pending |-> [acc.pending EXCEPT ![name[k]] = RemoveAt(q, 1)],
               sent |-> Append(acc.sent, q[1])]
    BY <2>2 DEF Normalize
  <2>. HIDE DEF q, rest, new
  <2>. QED  BY <2>2, <2>3
<1>7. \A n \in Names : new.pending[n] = rest(n)
  <2>. SUFFICES ASSUME NEW n \in Names PROVE new.pending[n] = rest(n)
    OBVIOUS
  <2>. HIDE DEF rest, new
  <2>1. CASE n = name[k]
    BY <1>4, <1>6, <2>1
  <2>2. CASE n # name[k]
    <3>1. new.pending[n] = acc.pending[n]
      BY <1>4, <1>6, <2>2
    <3>2. acc.pending[n] = <<>> \o rest(n) /\ rest(n) \in Seq(Ids)
      BY <1>5, <2>2
    <3>. QED  BY <3>1, <3>2
  <2>. QED  BY <2>1, <2>2
<1>8. new \in Accs(name) /\ Len(new.sent) = i + 1
  <2>. HIDE DEF rest, new
  <2>1. new.pending \in [Names -> Seq(Ids)]
    <3>1. rest(name[k]) \in Seq(Ids)
      BY <1>3, <1>5
    <3>. HIDE DEF k
    <3>. QED  BY <1>4, <1>6, <3>1
  <2>2. k \in 0..MaxCalls
    <3>1. k \in Ids
      BY <1>3
    <3>. HIDE DEF k
    <3>. QED  BY <3>1, AgentRunAssumption DEF Ids
  <2>3. new.sent \in Seq(0..MaxCalls) /\ Len(new.sent) = i + 1
    BY <1>4, <1>6, <2>2
  <2>. QED  BY <1>6, <2>1, <2>3 DEF Accs
<1>9. \A j \in 1..(i + 1) : s[j].role = "tool" => new.sent[j] = s[j].call
  <2>. HIDE DEF rest, new
  <2>. SUFFICES ASSUME NEW j \in 1..(i + 1), s[j].role = "tool" PROVE new.sent[j] = s[j].call
    OBVIOUS
  <2>1. CASE j = i + 1
    BY <1>1, <1>4, <1>6, <2>1
  <2>2. CASE j # i + 1
    <3>1. j \in 1..i /\ j \in 1..Len(acc.sent)
      BY <1>1, <1>4, <2>2
    <3>2. new.sent[j] = acc.sent[j]
      BY <1>4, <1>6, <3>1
    <3>. QED  BY <1>4, <3>1, <3>2
  <2>. QED  BY <2>1, <2>2
<1>10. ASSUME NEW g \in 1..(i + 1), (i + 1) - g < Len(s[g].calls)
       PROVE  g = h
  <2>1. CASE g = i + 1
    BY <1>3, <1>10, <2>1, EmptySeq
  <2>2. CASE g < h
    <3>1. g \in 1..Len(s) /\ h \in 1..Len(s) /\ h - g <= Len(s[g].calls)
      BY <1>1, <1>2, <1>10, <2>2
    <3>2. s[h].calls = <<>>
      BY <2>2, <3>1, ResultsFollow
    <3>. QED  BY <1>3, <3>2, EmptySeq
  <2>3. CASE g > h /\ g < i + 1
    <3>1. g \in 1..Len(s) /\ h \in 1..Len(s) /\ g - h <= Len(s[h].calls)
      BY <1>1, <1>2, <1>3, <2>3
    <3>2. s[g].calls = <<>>
      BY <2>3, <3>1, ResultsFollow
    <3>. QED  BY <1>1, <1>10, <2>3, <3>2, EmptySeq
  <2>. QED  BY <1>1, <1>2, <2>1, <2>2, <2>3
<1>11. ASSUME NEW g \in 1..(i + 1), NEW n \in Names, (i + 1) - g < Len(s[g].calls)
       PROVE  new.pending[n] = Left(s[g].calls, name, n)[Len(s[g].calls) - ((i + 1) - g)]
  <2>1. g = h
    BY <1>10, <1>11
  <2>2. Len(c) - ((i + 1) - g) = Len(c) - d - 1
    <3>. HIDE DEF c
    <3>. QED  BY <1>1, <1>3, <2>1
  <2>. HIDE DEF new
  <2>. QED  BY <1>7, <1>11, <2>1, <2>2
<1>12. ASSUME \A g \in 1..(i + 1) : (i + 1) - g >= Len(s[g].calls), NEW n \in Names
       PROVE  new.pending[n] = <<>>
  <2>1. (i + 1) - h >= Len(c)
    BY <1>1, <1>2, <1>12
  <2>2. Len(c) - d - 1 = 0
    BY <1>3, <2>1
  <2>3. rest(n) = <<>>
    <3>. HIDE DEF c, d
    <3>1. OneWaits(Left(c, name, n), c, d, name, n)
      BY <1>3, LeftOne
    <3>. QED  BY <2>2, <3>1 DEF OneWaits
  <2>. HIDE DEF new, rest
  <2>. QED  BY <1>7, <2>3
<1>. HIDE DEF new
<1>13. Matched(new, s, name, i + 1)
  BY <1>8, <1>9, <1>11, <1>12 DEF Matched
<1>. QED  BY <1>13 DEF new

\* Any other message comes when nothing waits, and its calls queue up.
LEMMA CallsMatched ==
  ASSUME NEW s \in Seq(Message), WellPaired(s), NEW i \in 0..(Len(s) - 1),
         NEW name, NEW known, NEW acc, Matched(acc, s, name, i), s[i + 1].role # "tool"
  PROVE  Matched(Normalize(acc, s[i + 1], name, known), s, name, i + 1)
<1>. DEFINE c == s[i + 1].calls
            Names == {name[k] : k \in Ids}
            new == Normalize(acc, s[i + 1], name, known)
<1>1. /\ Len(s) \in Nat /\ i \in Nat /\ i + 1 \in 1..Len(s)
      /\ \A h \in 1..Len(s) : s[h].calls \in Seq(Ids) /\ Len(s[h].calls) \in Nat
  BY MessagesOf
<1>2. ASSUME NEW h \in 1..i PROVE i - h >= Len(s[h].calls)
  <2>1. h \in 1..Len(s) /\ h < i + 1
    BY <1>1
  <2>2. ~((i + 1) - h <= Len(s[h].calls))
    BY <1>1, <2>1, ResultsFollow
  <2>. QED  BY <1>1, <2>1, <2>2
<1>3. /\ acc.pending \in [Names -> Seq(Ids)] /\ acc.sent \in Seq(0..MaxCalls) /\ Len(acc.sent) = i
      /\ \A j \in 1..i : s[j].role = "tool" => acc.sent[j] = s[j].call
  BY DEF Matched, Accs
<1>4. \A n \in Names : acc.pending[n] = <<>>
  BY <1>2 DEF Matched
<1>5. c \in Seq(Ids) /\ Len(c) \in Nat
  BY <1>1
<1>6. new = [pending |-> [n \in Names |-> acc.pending[n] \o Queued(c, name, n)],
             sent    |-> Append(acc.sent, 0)]
  BY <1>3 DEF Normalize
<1>. HIDE DEF c, new
<1>7. \A n \in Names : Queued(c, name, n) = Left(c, name, n)[Len(c)] /\ Left(c, name, n)[Len(c)] \in Seq(Ids)
  <2>. SUFFICES ASSUME NEW n \in Names
                PROVE  /\ Queued(c, name, n) = Left(c, name, n)[Len(c)]
                       /\ Left(c, name, n)[Len(c)] \in Seq(Ids)
    OBVIOUS
  <2>1. Dwindles(Left(c, name, n), c, name, n)
    BY <1>5, LeftIs
  <2>. QED  BY <1>5, <2>1 DEF Dwindles
<1>8. \A n \in Names : new.pending[n] = Left(c, name, n)[Len(c)]
  <2>. SUFFICES ASSUME NEW n \in Names PROVE new.pending[n] = Left(c, name, n)[Len(c)]
    OBVIOUS
  <2>1. new.pending[n] = acc.pending[n] \o Queued(c, name, n)
    BY <1>6
  <2>2. <<>> \o Left(c, name, n)[Len(c)] = Left(c, name, n)[Len(c)]
    BY <1>7
  <2>. QED  BY <1>4, <1>7, <2>1, <2>2
<1>9. new \in Accs(name) /\ Len(new.sent) = i + 1
  <2>1. new.pending \in [Names -> Seq(Ids)]
    <3>1. new.pending = [n \in Names |-> new.pending[n]]
      BY <1>6
    <3>. QED  BY <1>7, <1>8, <3>1
  <2>2. new.sent \in Seq(0..MaxCalls) /\ Len(new.sent) = i + 1
    BY <1>3, <1>6, AgentRunAssumption
  <2>3. new = [pending |-> new.pending, sent |-> new.sent]
    BY <1>6
  <2>. QED  BY <2>1, <2>2, <2>3 DEF Accs
<1>10. \A j \in 1..(i + 1) : s[j].role = "tool" => new.sent[j] = s[j].call
  <2>. SUFFICES ASSUME NEW j \in 1..(i + 1), s[j].role = "tool" PROVE new.sent[j] = s[j].call
    OBVIOUS
  <2>1. j \in 1..i /\ j \in 1..Len(acc.sent)
    BY <1>1, <1>3
  <2>2. new.sent[j] = acc.sent[j]
    BY <1>3, <1>6, <2>1
  <2>. QED  BY <1>3, <2>1, <2>2
<1>11. ASSUME NEW g \in 1..(i + 1), NEW n \in Names, (i + 1) - g < Len(s[g].calls)
       PROVE  new.pending[n] = Left(s[g].calls, name, n)[Len(s[g].calls) - ((i + 1) - g)]
  <2>1. g = i + 1
    BY <1>1, <1>2, <1>11
  <2>2. Len(c) - ((i + 1) - (i + 1)) = Len(c)
    BY <1>1, <1>5
  <2>. QED  BY <1>8, <2>1, <2>2 DEF c
<1>12. ASSUME \A g \in 1..(i + 1) : (i + 1) - g >= Len(s[g].calls), NEW n \in Names
       PROVE  new.pending[n] = <<>>
  <2>1. (i + 1) - (i + 1) >= Len(c) /\ (i + 1) - (i + 1) = 0
    BY <1>1, <1>12 DEF c
  <2>2. Len(c) = 0
    BY <1>5, <2>1
  <2>3. Left(c, name, n)[0] = <<>>
    <3>1. Dwindles(Left(c, name, n), c, name, n)
      BY <1>5, LeftIs
    <3>. QED  BY <3>1 DEF Dwindles
  <2>. QED  BY <1>8, <2>2, <2>3
<1>13. Matched(new, s, name, i + 1)
  BY <1>9, <1>10, <1>11, <1>12 DEF Matched
<1>. QED  BY <1>13 DEF new

\* The steps of Normalized, for the first m messages.
Start(name) == [pending |-> [n \in {name[k] : k \in Ids} |-> <<>>], sent |-> <<>>]
Steps(f, s, name, known, m) ==
  f = [i \in 0..m |-> IF i = 0 THEN Start(name) ELSE Normalize(f[i - 1], s[i], name, known)]

LEMMA StepsExist ==
  ASSUME NEW s, NEW name, NEW known
  PROVE  \A m \in Nat : \E f : Steps(f, s, name, known, m)
<1>. DEFINE T == {m \in Nat : \E f : Steps(f, s, name, known, m)}
<1>1. 0 \in T
  <2>1. Steps([i \in 0..0 |-> Start(name)], s, name, known, 0)
    BY DEF Steps
  <2>. QED  BY <2>1
<1>2. ASSUME NEW m \in T PROVE m + 1 \in T
  <2>1. PICK f : Steps(f, s, name, known, m)
    BY <1>2
  <2>. DEFINE g == [i \in 0..(m + 1) |-> IF i = 0 THEN Start(name)
                                        ELSE Normalize(f[i - 1], s[i], name, known)]
  <2>2. f = [i \in 0..m |-> IF i = 0 THEN Start(name) ELSE Normalize(f[i - 1], s[i], name, known)]
    BY <2>1 DEF Steps
  <2>3. \A i \in 0..m : g[i] = f[i]
    <3>. SUFFICES ASSUME NEW i \in 0..m PROVE g[i] = f[i]
      OBVIOUS
    <3>1. f[i] = IF i = 0 THEN Start(name) ELSE Normalize(f[i - 1], s[i], name, known)
      BY <2>2
    <3>. QED  BY <3>1
  <2>4. g = [i \in 0..(m + 1) |-> IF i = 0 THEN Start(name)
                                  ELSE Normalize(g[i - 1], s[i], name, known)]
    <3>. SUFFICES ASSUME NEW i \in 0..(m + 1)
                  PROVE  g[i] = IF i = 0 THEN Start(name) ELSE Normalize(g[i - 1], s[i], name, known)
      OBVIOUS
    <3>1. i # 0 => i - 1 \in 0..m
      OBVIOUS
    <3>. QED  BY <2>3, <3>1
  <2>. HIDE DEF g
  <2>5. Steps(g, s, name, known, m + 1)
    BY <2>4 DEF Steps
  <2>. QED  BY <2>5
<1>3. T = Nat
  <2>. HIDE DEF T
  <2>1. T \in SUBSET Nat
    BY DEF T
  <2>. QED  BY <1>1, <1>2, <2>1, Induction
<1>. QED  BY <1>3

\* A conversation in which calls have their results is sent with each result as
\* that of its call, whatever names the calls have and whichever are known by
\* their identifiers.
LEMMA NormalizedMatches ==
  ASSUME NEW s \in Seq(Message), WellPaired(s), NEW name, NEW known
  PROVE  \A i \in DOMAIN s : s[i].role = "tool" => Normalized(s, name, known)[i] = s[i].call
<1>. DEFINE after == CHOOSE f : Steps(f, s, name, known, Len(s))
            T == {i \in Nat : i <= Len(s) => Matched(after[i], s, name, i)}
<1>1. Len(s) \in Nat /\ DOMAIN s = 1..Len(s)
  BY LenProperties
<1>2. Steps(after, s, name, known, Len(s))
  BY <1>1, StepsExist
<1>3. Normalized(s, name, known) = after[Len(s)].sent
  BY DEF Normalized, Steps, Start
<1>. HIDE DEF after
<1>4. after[0] = Start(name) /\ \A i \in 1..Len(s) : after[i] = Normalize(after[i - 1], s[i], name, known)
  BY <1>1, <1>2 DEF Steps
<1>5. 0 \in T
  <2>1. Start(name) \in Accs(name) /\ Start(name).sent = <<>>
    BY EmptySeq DEF Start, Accs
  <2>2. \A n \in {name[k] : k \in Ids} : Start(name).pending[n] = <<>>
    BY DEF Start
  <2>3. Matched(Start(name), s, name, 0)
    BY <2>1, <2>2 DEF Matched
  <2>. QED  BY <1>4, <2>3
<1>6. ASSUME NEW i \in T PROVE i + 1 \in T
  <2>. SUFFICES ASSUME i + 1 <= Len(s) PROVE Matched(after[i + 1], s, name, i + 1)
    OBVIOUS
  <2>1. i \in 0..(Len(s) - 1) /\ Matched(after[i], s, name, i)
    BY <1>1, <1>6
  <2>2. after[i + 1] = Normalize(after[i], s[i + 1], name, known)
    <3>1. i + 1 \in 1..Len(s) /\ (i + 1) - 1 = i
      BY <1>1, <2>1
    <3>. QED  BY <1>4, <3>1
  <2>. QED  BY <2>1, <2>2, ResultMatched, CallsMatched
<1>7. T = Nat
  <2>. HIDE DEF T
  <2>1. T \in SUBSET Nat
    BY DEF T
  <2>. QED  BY <1>5, <1>6, <2>1, Induction
<1>8. Matched(after[Len(s)], s, name, Len(s))
  BY <1>1, <1>7
<1>. QED  BY <1>1, <1>3, <1>8 DEF Matched

-----------------------------------------------------------------------------
(* The theorems.                                                           *)

\* Type correctness of a run of the agent, in every reachable state.
THEOREM TypeCorrect == Spec => []TypeOK
<1>1. IInv => TypeOK
  BY DEF IInv
<1>. QED  BY <1>1, Invariance, PTL

\* The provider is only sent conversations it accepts, however many runs were
\* interrupted, cancelled or failed before (ToolAgent._interrupt_result).
THEOREM RequestsAccepted == Spec => []ProviderAccepts
<1>1. IInv => ProviderAccepts
  <2> SUFFICES ASSUME IInv, agent.pc \in {"think", "decide", "summary"}
               PROVE  WellPaired(Request) /\ Request[1] = Say("system")
    BY DEF ProviderAccepts
  <2>1. Sound(agent.messages)
    BY DEF IInv, Conversations, Running
  <2>2. Sound(Append(agent.messages, Say("user")))
    BY <2>1, AppendSound, Messages
  <2>. QED  BY <2>1, <2>2 DEF Request, Sound
<1>. QED  BY <1>1, Invariance, PTL

\* The results of an accepted conversation are sent as those of their own calls,
\* also by position when the identifiers were made by another provider
\* (normalize_messages_for_openai).
THEOREM ResultsMatched == Spec => []ResultsMeetTheirCalls
<1>1. IInv => ResultsMeetTheirCalls
  <2> SUFFICES ASSUME IInv, agent.pc \in {"think", "decide", "summary"},
                      NEW name \in [Ids -> {"a", "b"}], NEW known \in SUBSET Ids
               PROVE  \A i \in DOMAIN Request : Request[i].role = "tool" =>
                        Normalized(Request, name, known)[i] = Request[i].call
    BY DEF ResultsMeetTheirCalls
  <2>1. Sound(agent.messages)
    BY DEF IInv, Conversations, Running
  <2>2. Sound(Append(agent.messages, Say("user")))
    BY <2>1, AppendSound, Messages
  <2>3. Request \in Seq(Message) /\ WellPaired(Request)
    BY <2>1, <2>2 DEF Request, Sound
  <2>. QED  BY <2>3, NormalizedMatches
<1>. QED  BY <1>1, Invariance, PTL

\* A result that was taken stays in the execution history (Runtime copies it
\* from the agent however the run ended), until two runs share the conversation.
THEOREM TakenKept == Spec => []ResultsAreKept
<1>1. IInv => ResultsAreKept
  BY DEF IInv
<1>. QED  BY <1>1, Invariance, PTL

\* An interrupt stops the agent after one more call.
THEOREM OneMoreCall == Spec => []OneCallAfterInterrupt
<1>1. IInv => OneCallAfterInterrupt
  BY DEF IInv, LateCall, OneCallAfterInterrupt
<1>. QED  BY <1>1, Invariance, PTL

\* A run that gives up hands over the conversation it carries.
LEMMA GiveUpExtends ==
  ASSUME IInv, ~beside, Running, NEW history, End(agent.messages, history) \/ Interrupted(history)
  PROVE  Extends(saved'.messages, saved.messages)
<1>1. Sound(agent.messages) /\ Extends(agent.messages, saved.messages)
  BY DEF IInv, Conversations
<1>2. End(agent.messages, history)
  BY <1>1, SafeSound DEF Interrupted
<1>. QED  BY <1>1, <1>2 DEF End

LEMMA RaiseExtends ==
  ASSUME IInv, ~beside, Running, Raise
  PROVE  Extends(saved'.messages, saved.messages)
<1>. QED  BY GiveUpExtends DEF Raise

\* An answer is handed over after the conversation it answers.
LEMMA AnswerExtends ==
  ASSUME IInv, ~beside, ReplyAnswer \/ Summarize
  PROVE  Extends(saved'.messages, saved.messages)
<1>1. Running /\ Records /\ agent \in AgentRecord
  BY TypeParts DEF IInv, ReplyAnswer, Summarize, Running
<1>2. /\ Sound(agent.messages) /\ Extends(agent.messages, saved.messages)
      /\ agent.messages \in Seq(Message) /\ saved.messages \in Seq(Message)
  BY <1>1, AgentFacts, SavedFacts DEF IInv, Conversations
<1> DEFINE m == Append(agent.messages, Say("assistant"))
           n == agent.messages \o <<Say("user"), Say("assistant")>>
<1>3. CASE ReplyAnswer /\ interrupt
  BY <1>1, <1>3, GiveUpExtends DEF ReplyAnswer
<1>4. CASE ReplyAnswer /\ ~interrupt
  <2>1. saved'.messages = m
    BY <1>4 DEF ReplyAnswer, End
  <2>2. m \in Seq(Message) /\ Len(m) = Len(agent.messages) + 1 /\ \A i \in 1..Len(agent.messages) : m[i] = agent.messages[i]
    BY <1>2, Messages, AppendProperties
  <2> HIDE DEF m
  <2>3. Len(m) > Len(agent.messages)
    BY <1>2, <2>2, LenProperties
  <2>. QED  BY <1>2, <2>1, <2>2, <2>3, ExtendsFurther
<1>5. CASE Summarize
  <2>1. saved'.messages = n
    BY <1>5 DEF Summarize, End
  <2>2. n \in Seq(Message) /\ Len(n) = Len(agent.messages) + 2 /\ \A i \in 1..Len(agent.messages) : n[i] = agent.messages[i]
    <3> DEFINE d == <<Say("user"), Say("assistant")>>
    <3>1. d \in Seq(Message) /\ Len(d) = 2
      BY Messages
    <3> HIDE DEF d
    <3>2. /\ n \in Seq(Message) /\ Len(n) = Len(agent.messages) + 2
          /\ \A i \in 1..(Len(agent.messages) + 2) :
               n[i] = IF i <= Len(agent.messages) THEN agent.messages[i] ELSE d[i - Len(agent.messages)]
      BY <1>2, <3>1, ConcatProperties DEF d
    <3>. QED  BY <1>2, <3>2, LenProperties
  <2> HIDE DEF n
  <2>3. Len(n) > Len(agent.messages)
    BY <1>2, <2>2, LenProperties
  <2>. QED  BY <1>2, <2>1, <2>2, <2>3, ExtendsFurther
<1>. QED  BY <1>3, <1>4, <1>5

\* What may happen to the conversation in one step.
Growth ==
  \/ beside'
  \/ saved'.messages = saved.messages
  \/ saved'.messages = <<>> /\ agent.pc = "idle" /\ agent'.pc = "idle"
  \/ Extends(saved'.messages, saved.messages)

LEMMA GrowthStep == IInv /\ [Next]_vars => Growth
<1> SUFFICES ASSUME IInv, [Next]_vars, ~beside' PROVE Growth
  BY DEF Growth
<1>1. CASE \/ UNCHANGED vars \/ Interrupt \/ HardCancel \/ Run \/ Followup \/ FollowupRuns \/ StartFails
           \/ StartFollowup \/ StartRun \/ Dispatch \/ DecideTerminate \/ Notice \/ DecideKeep
  <2>1. saved' = saved
    BY <1>1 DEF vars, Interrupt, HardCancel, Run, Followup, FollowupRuns, StartFails, StartFollowup,
                StartRun, Dispatch, DecideTerminate, Notice, DecideKeep
  <2>. QED  BY <2>1 DEF Growth
<1>2. CASE \E k \in Ids : Connect(k) \/ AskUser(k) \/ UserAnswers(k) \/ ToolEnds(k)
  <2>1. saved' = saved
    BY <1>2 DEF Connect, AskUser, UserAnswers, ToolEnds, Move
  <2>. QED  BY <2>1 DEF Growth
<1>3. CASE NewChat
  <2>1. saved'.messages = <<>> /\ agent.pc = "idle" /\ agent' = agent
    BY <1>3 DEF NewChat
  <2>. QED  BY <2>1 DEF Growth
<1>4. CASE \/ Ask \/ AbortThink \/ ProviderFails \/ Malformed \/ AbortTool \/ OutcomeRaises \/ AbortDecide
  <2>1. ~beside /\ (saved' = saved \/ (Running /\ Raise))
    BY <1>4 DEF Ask, AbortThink, ProviderFails, Malformed, AbortTool, OutcomeRaises, AbortDecide, second,
                Running
  <2>. QED  BY <2>1, RaiseExtends DEF Growth
<1>5. CASE ReplyAnswer \/ Summarize
  <2>1. ~beside
    BY <1>5 DEF ReplyAnswer, Summarize, second
  <2>. QED  BY <1>5, <2>1, AnswerExtends DEF Growth
<1>6. CASE \E n \in 1..MaxReply : ReplyCalls(n)
  <2>1. ~beside /\ (saved' = saved \/ (Running /\ Interrupted(agent.history)))
    BY <1>6 DEF ReplyCalls, second, Running
  <2>. QED  BY <2>1, GiveUpExtends DEF Growth
<1>7. CASE Deny \/ TakeOutcome
  <2>1. ~beside /\ Running /\ Record
    BY <1>7 DEF Deny, TakeOutcome, second, Running
  <2>2. saved' = saved \/ Interrupted(Append(agent.history, Current))
    BY <2>1 DEF Record
  <2>. QED  BY <2>1, <2>2, GiveUpExtends DEF Growth
<1>8. CASE OtherStarts \/ OtherEnds
  <2>1. beside'
    BY <1>8 DEF IInv, Beside, OtherStarts, OtherEnds
  <2>. QED  BY <2>1 DEF Growth
<1>. QED  BY <1>1, <1>2, <1>3, <1>4, <1>5, <1>6, <1>7, <1>8 DEF Next, Gate

\* Runs only extend the conversation: no step rewrites what was said, and only a
\* new chat, between runs, empties it (Runtime.reset_conversation); not so when two
\* runs share it.
THEOREM OnlyGrows == Spec => ConversationGrows
<1>1. IInv /\ [Next]_vars => [Growth]_vars
  BY GrowthStep
<1>. QED  BY <1>1, Invariance, PTL DEF Spec, ConversationGrows, Growth

=============================================================================

--------------------------- MODULE ChatDisplay_proofs ---------------------------
(***************************************************************************)
(* Proofs about the transcript and the threads that write to it, for any   *)
(* number of them, any widths and any heights of what is shown.            *)
(***************************************************************************)
EXTENDS ChatDisplay, SequenceTheorems, FiniteSetTheorems, WellFoundedInduction, TLAPS

-----------------------------------------------------------------------------
(* Rows: what FlattenSeq makes of a sequence of sequences.                 *)

\* Induction, in a form the provers can use: a set of numbers with zero and all
\* successors is all numbers.
LEMMA LessIsWellFounded == IsWellFoundedOn({p \in Nat \X Nat : p[1] < p[2]}, Nat)
<1>1. OpToRel(<, Nat) = {p \in Nat \X Nat : p[1] < p[2]}
  BY DEF OpToRel
<1>. QED  BY <1>1, NatLessThanWellFounded

LEMMA Induction ==
  ASSUME NEW T \in SUBSET Nat, 0 \in T, \A n \in T : n + 1 \in T
  PROVE  T = Nat
<1>. DEFINE C == Nat \ T
            R == {p \in Nat \X Nat : p[1] < p[2]}
<1>. SUFFICES ASSUME C # {} PROVE FALSE
  OBVIOUS
<1>1. PICK x \in C : \A y \in C : <<y, x>> \notin R
  <2>1. C \subseteq Nat
    OBVIOUS
  <2>2. IsWellFoundedOn(R, Nat)
    BY LessIsWellFounded
  <2>. HIDE DEF R, C
  <2>. QED  BY <2>1, <2>2, WFMin
<1>2. x # 0 /\ x - 1 \in Nat /\ x \in Nat /\ x \notin T
  OBVIOUS
<1>3. x - 1 \notin C
  <2>1. <<x - 1, x>> \in R
    BY <1>2
  <2>. QED  BY <1>1, <2>1
<1>4. (x - 1) + 1 = x
  BY <1>2
<1>. QED  BY <1>2, <1>3, <1>4

\* f joins the sequences of s one after the other, as far as n.
Joins(f, s, n) == f = [i \in 1..n |-> IF i = 1 THEN s[i] ELSE f[i-1] \o s[i]]

LEMMA JoinsAt ==
  ASSUME NEW f, NEW s, NEW n, Joins(f, s, n), NEW i \in 1..n
  PROVE  f[i] = IF i = 1 THEN s[i] ELSE f[i-1] \o s[i]
<1>. DEFINE h == [j \in 1..n |-> IF j = 1 THEN s[j] ELSE f[j-1] \o s[j]]
<1>1. f = h
  BY DEF Joins
<1>2. h[i] = IF i = 1 THEN s[i] ELSE f[i-1] \o s[i]
  OBVIOUS
<1>. HIDE DEF h
<1>. QED  BY <1>1, <1>2

\* There is such a function, for every n.
LEMMA JoinsExists ==
  ASSUME NEW S, NEW s \in Seq(Seq(S))
  PROVE  \A n \in 0..Len(s) : \E f : Joins(f, s, n)
<1>. DEFINE T == {n \in Nat : n <= Len(s) => \E f : Joins(f, s, n)}
<1>1. Len(s) \in Nat
  BY LenProperties
<1>2. 0 \in T
  <2>1. Joins(<<>>, s, 0)
    BY DEF Joins
  <2>. QED  BY <2>1
<1>3. ASSUME NEW n \in T PROVE n + 1 \in T
  <2>. SUFFICES ASSUME n + 1 <= Len(s) PROVE \E f : Joins(f, s, n + 1)
    OBVIOUS
  <2>1. PICK f : Joins(f, s, n)
    BY <1>1
  <2>. DEFINE g == [i \in 1..(n + 1) |-> IF i = 1 THEN s[i] ELSE f[i-1] \o s[i]]
  <2>2. \A i \in 1..n : g[i] = f[i]
    BY <2>1, JoinsAt
  <2>3. \A i \in 1..(n + 1) : i # 1 => g[i - 1] = f[i - 1]
    <3>. SUFFICES ASSUME NEW i \in 1..(n + 1), i # 1
                  PROVE  g[i - 1] = f[i - 1]
      OBVIOUS
    <3>1. i - 1 \in 1..n
      OBVIOUS
    <3>. QED  BY <3>1, <2>2
  <2>4. g = [i \in 1..(n + 1) |-> IF i = 1 THEN s[i] ELSE g[i-1] \o s[i]]
    <3>. SUFFICES ASSUME NEW i \in 1..(n + 1)
                  PROVE  g[i] = IF i = 1 THEN s[i] ELSE g[i-1] \o s[i]
      OBVIOUS
    <3>. QED  BY <2>3
  <2>. HIDE DEF g
  <2>. QED  BY <2>4 DEF Joins
<1>4. T = Nat
  <2>. HIDE DEF T
  <2>1. T \in SUBSET Nat
    BY DEF T
  <2>. QED  BY <1>2, <1>3, <2>1, Induction
<1>. QED  BY <1>1, <1>4

\* One more sequence changes nothing of what came before.
LEMMA JoinsAgree ==
  ASSUME NEW S, NEW s \in Seq(Seq(S)), NEW e \in Seq(S), NEW f, NEW g,
         Joins(f, s, Len(s)), Joins(g, Append(s, e), Len(s) + 1)
  PROVE  \A n \in 1..Len(s) : f[n] = g[n] /\ f[n] \in Seq(S)
<1>. DEFINE T == {n \in Nat : n + 1 <= Len(s) => f[n + 1] = g[n + 1] /\ f[n + 1] \in Seq(S)}
<1>1. /\ Len(s) \in Nat /\ \A i \in 1..Len(s) : s[i] \in Seq(S) /\ Append(s, e)[i] = s[i]
  BY LenProperties, ElementOfSeq, AppendProperties
<1>2. \A i \in 1..Len(s) : /\ f[i] = IF i = 1 THEN s[i] ELSE f[i - 1] \o s[i]
                           /\ g[i] = IF i = 1 THEN s[i] ELSE g[i - 1] \o s[i]
  <2>. SUFFICES ASSUME NEW i \in 1..Len(s)
                PROVE  /\ f[i] = IF i = 1 THEN s[i] ELSE f[i - 1] \o s[i]
                       /\ g[i] = IF i = 1 THEN s[i] ELSE g[i - 1] \o s[i]
    OBVIOUS
  <2>1. f[i] = IF i = 1 THEN s[i] ELSE f[i - 1] \o s[i]
    BY JoinsAt
  <2>2. i \in 1..(Len(s) + 1) /\ Append(s, e)[i] = s[i]
    BY <1>1
  <2>3. g[i] = IF i = 1 THEN Append(s, e)[i] ELSE g[i - 1] \o Append(s, e)[i]
    <3>. DEFINE u == Append(s, e)
                m == Len(s) + 1
    <3>1. Joins(g, u, m) /\ i \in 1..m
      BY <2>2
    <3>. HIDE DEF u, m, T
    <3>2. g[i] = IF i = 1 THEN u[i] ELSE g[i-1] \o u[i]
      BY <3>1, JoinsAt
    <3>. QED  BY <3>2 DEF u
  <2>. QED  BY <2>1, <2>2, <2>3
<1>3. 0 \in T
  BY <1>1, <1>2
<1>4. ASSUME NEW n \in T PROVE n + 1 \in T
  <2>. SUFFICES ASSUME (n + 1) + 1 <= Len(s)
                PROVE  f[(n + 1) + 1] = g[(n + 1) + 1] /\ f[(n + 1) + 1] \in Seq(S)
    OBVIOUS
  <2>1. f[n + 1] = g[n + 1] /\ f[n + 1] \in Seq(S)
    BY <1>1
  <2>2. (n + 1) + 1 \in 1..Len(s) /\ (n + 1) + 1 # 1 /\ ((n + 1) + 1) - 1 = n + 1
    BY <1>1
  <2>3. /\ f[(n + 1) + 1] = f[n + 1] \o s[(n + 1) + 1]
        /\ g[(n + 1) + 1] = g[n + 1] \o s[(n + 1) + 1]
    BY <1>2, <2>2
  <2>. QED  BY <1>1, <2>1, <2>2, <2>3, ConcatProperties
<1>5. T = Nat
  <2>. HIDE DEF T
  <2>1. T \in SUBSET Nat
    BY DEF T
  <2>. QED  BY <1>3, <1>4, <2>1, Induction
<1>. SUFFICES ASSUME NEW n \in 1..Len(s)
              PROVE  f[n] = g[n] /\ f[n] \in Seq(S)
  OBVIOUS
<1>6. n - 1 \in Nat /\ (n - 1) + 1 = n /\ n <= Len(s)
  BY <1>1
<1>7. n - 1 \in T
  <2>. HIDE DEF T
  <2>. QED  BY <1>5, <1>6
<1>. QED  BY <1>6, <1>7

\* FlattenSeq is the last value of such a function.
LEMMA FlattenIsJoins ==
  ASSUME NEW S, NEW s \in Seq(Seq(S)), s # <<>>
  PROVE  \E f : Joins(f, s, Len(s)) /\ FlattenSeq(s) = f[Len(s)]
<1>. DEFINE f == CHOOSE h : h = [i \in 1..Len(s) |-> IF i = 1 THEN s[i] ELSE h[i-1] \o s[i]]
<1>1. Len(s) \in Nat /\ Len(s) # 0
  BY EmptySeq
<1>2. \E h : h = [i \in 1..Len(s) |-> IF i = 1 THEN s[i] ELSE h[i-1] \o s[i]]
  <2>1. PICK h : Joins(h, s, Len(s))
    BY <1>1, JoinsExists
  <2>2. h = [i \in 1..Len(s) |-> IF i = 1 THEN s[i] ELSE h[i-1] \o s[i]]
    BY <2>1 DEF Joins
  <2>. QED  BY <2>2
<1>3. f = [i \in 1..Len(s) |-> IF i = 1 THEN s[i] ELSE f[i-1] \o s[i]]
  BY <1>2
<1>4. FlattenSeq(s) = f[Len(s)]
  BY <1>1 DEF FlattenSeq
<1>. HIDE DEF f
<1>. QED  BY <1>3, <1>4 DEF Joins

LEMMA FlattenEmpty == FlattenSeq(<<>>) = <<>>
<1>1. Len(<<>>) = 0
  BY EmptySeq
<1>. QED  BY <1>1 DEF FlattenSeq

\* The rows of one more renderable come after those of the others.
LEMMA FlattenAppend ==
  ASSUME NEW S, NEW s \in Seq(Seq(S)), NEW e \in Seq(S)
  PROVE  /\ FlattenSeq(Append(s, e)) = FlattenSeq(s) \o e
         /\ FlattenSeq(s) \in Seq(S)
<1>1. /\ Len(s) \in Nat /\ Append(s, e) \in Seq(Seq(S)) /\ Append(s, e) # <<>>
      /\ Len(Append(s, e)) = Len(s) + 1 /\ Append(s, e)[Len(s) + 1] = e
  BY LenProperties, AppendProperties
<1>2. PICK g : Joins(g, Append(s, e), Len(s) + 1) /\ FlattenSeq(Append(s, e)) = g[Len(s) + 1]
  BY <1>1, FlattenIsJoins
<1>3. CASE s = <<>>
  <2>1. Len(s) = 0
    BY <1>3, EmptySeq
  <2>2. g[1] = e
    BY <1>1, <1>2, <2>1, JoinsAt
  <2>3. <<>> \o e = e /\ <<>> \in Seq(S)
    BY ConcatEmptySeq, EmptySeq
  <2>4. FlattenSeq(s) = <<>> /\ FlattenSeq(Append(s, e)) = e
    BY <1>2, <1>3, <2>1, <2>2, FlattenEmpty
  <2>. QED  BY <2>3, <2>4
<1>4. CASE s # <<>>
  <2>1. PICK f : Joins(f, s, Len(s)) /\ FlattenSeq(s) = f[Len(s)]
    BY <1>4, FlattenIsJoins
  <2>2. Len(s) \in 1..Len(s)
    BY <1>1, <1>4, EmptySeq
  <2>3. f[Len(s)] = g[Len(s)] /\ f[Len(s)] \in Seq(S)
    BY <1>2, <2>1, <2>2, JoinsAgree
  <2>4. g[Len(s) + 1] = g[Len(s)] \o e
    <3>1. Len(s) + 1 \in 1..(Len(s) + 1) /\ Len(s) + 1 # 1 /\ (Len(s) + 1) - 1 = Len(s)
      BY <1>1, <2>2
    <3>2. g[Len(s) + 1] = IF Len(s) + 1 = 1 THEN Append(s, e)[Len(s) + 1]
                          ELSE g[(Len(s) + 1) - 1] \o Append(s, e)[Len(s) + 1]
      <4>. DEFINE u == Append(s, e)
                  m == Len(s) + 1
      <4>1. Joins(g, u, m) /\ m \in 1..m
        BY <1>2, <3>1
      <4>. HIDE DEF u, m
      <4>2. g[m] = IF m = 1 THEN u[m] ELSE g[m-1] \o u[m]
        BY <4>1, JoinsAt
      <4>. QED  BY <4>2 DEF u, m
    <3>. QED  BY <1>1, <3>1, <3>2
  <2>. QED  BY <1>2, <2>1, <2>3, <2>4
<1>. QED  BY <1>3, <1>4

-----------------------------------------------------------------------------
(* Sums: what MapThenSumSet makes of the numbers of a finite set.          *)

\* f adds up the numbers v[x] of the elements of each set in D.
Sums(f, v, D) ==
  f = [s \in D |-> IF s = {} THEN 0 ELSE LET x == CHOOSE y \in s : TRUE IN v[x] + f[s \ {x}]]

\* The subsets with n elements at most.
UpTo(S, n) == {s \in SUBSET S : IsFiniteSet(s) /\ Cardinality(s) <= n}

LEMMA UpToMore ==
  ASSUME NEW S, NEW m \in Nat, NEW n \in Nat, m <= n
  PROVE  UpTo(S, m) \subseteq UpTo(S, n)
<1>. SUFFICES ASSUME NEW s \in UpTo(S, m) PROVE s \in UpTo(S, n)
  OBVIOUS
<1>1. IsFiniteSet(s) /\ s \in SUBSET S /\ Cardinality(s) <= m
  BY DEF UpTo
<1>2. Cardinality(s) \in Nat
  BY <1>1, FS_CardinalityType
<1>. QED  BY <1>1, <1>2 DEF UpTo

\* Without one of its elements a set is among the smaller ones.
LEMMA OneLess ==
  ASSUME NEW S, NEW n \in Nat, NEW s \in UpTo(S, n + 1), s # {}
  PROVE  /\ (CHOOSE y \in s : TRUE) \in s
         /\ s \ {CHOOSE y \in s : TRUE} \in UpTo(S, n)
<1>. DEFINE x == CHOOSE y \in s : TRUE
<1>1. x \in s
  OBVIOUS
<1>. HIDE DEF x
<1>2. IsFiniteSet(s) /\ Cardinality(s) <= n + 1 /\ s \in SUBSET S /\ Cardinality(s) \in Nat
  BY FS_CardinalityType DEF UpTo
<1>3. IsFiniteSet(s \ {x}) /\ Cardinality(s \ {x}) = Cardinality(s) - 1
  BY <1>1, <1>2, FS_RemoveElement
<1>4. s \ {x} \in UpTo(S, n)
  BY <1>2, <1>3 DEF UpTo
<1>. QED  BY <1>1, <1>4 DEF x

\* The sets with no element are the empty one.
LEMMA UpToNone == ASSUME NEW S PROVE UpTo(S, 0) = {{}}
<1>1. ASSUME NEW s \in UpTo(S, 0) PROVE s = {}
  <2>1. IsFiniteSet(s) /\ Cardinality(s) = 0
    BY FS_CardinalityType DEF UpTo
  <2>. QED  BY <2>1, FS_EmptySet
<1>2. {} \in UpTo(S, 0)
  BY FS_EmptySet DEF UpTo
<1>. QED  BY <1>1, <1>2

LEMMA SumsAt ==
  ASSUME NEW f, NEW v, NEW D, Sums(f, v, D), NEW s \in D
  PROVE  /\ s = {} => f[s] = 0
         /\ s # {} => f[s] = v[CHOOSE y \in s : TRUE] + f[s \ {CHOOSE y \in s : TRUE}]
<1>. DEFINE h == [q \in D |->
                   IF q = {} THEN 0 ELSE LET x == CHOOSE y \in q : TRUE IN v[x] + f[q \ {x}]]
<1>1. f = h
  BY DEF Sums
<1>2. /\ s = {} => h[s] = 0
      /\ s # {} => h[s] = v[CHOOSE y \in s : TRUE] + f[s \ {CHOOSE y \in s : TRUE}]
  OBVIOUS
<1>. HIDE DEF h
<1>. QED  BY <1>1, <1>2

\* There is such a function, for sets of any size.
LEMMA SumsExist ==
  ASSUME NEW S, NEW v
  PROVE  \A n \in Nat : \E f : Sums(f, v, UpTo(S, n))
<1>. DEFINE T == {n \in Nat : \E f : Sums(f, v, UpTo(S, n))}
<1>1. 0 \in T
  <2>. DEFINE f == [s \in {{}} |-> 0]
  <2>1. Sums(f, v, {{}})
    BY DEF Sums
  <2>. HIDE DEF f
  <2>. QED  BY <2>1, UpToNone
<1>2. ASSUME NEW n \in T PROVE n + 1 \in T
  <2>1. PICK f : Sums(f, v, UpTo(S, n))
    BY <1>2
  <2>. DEFINE x(s) == CHOOSE y \in s : TRUE
              g == [s \in UpTo(S, n + 1) |-> IF s = {} THEN 0 ELSE v[x(s)] + f[s \ {x(s)}]]
  <2>. HIDE DEF x
  <2>2. \A s \in UpTo(S, n + 1) : s # {} => s \ {x(s)} \in UpTo(S, n)
    BY <1>2, OneLess DEF x
  <2>3. UpTo(S, n) \subseteq UpTo(S, n + 1)
    BY <1>2, UpToMore
  <2>4. ASSUME NEW s \in UpTo(S, n) PROVE g[s] = f[s]
    <3>1. g[s] = IF s = {} THEN 0 ELSE v[x(s)] + f[s \ {x(s)}]
      BY <2>3
    <3>2. f[s] = IF s = {} THEN 0 ELSE v[x(s)] + f[s \ {x(s)}]
      BY <2>1, SumsAt DEF x
    <3>. QED  BY <3>1, <3>2
  <2>5. g = [s \in UpTo(S, n + 1) |-> IF s = {} THEN 0 ELSE v[x(s)] + g[s \ {x(s)}]]
    <3>. SUFFICES ASSUME NEW s \in UpTo(S, n + 1)
                  PROVE  g[s] = IF s = {} THEN 0 ELSE v[x(s)] + g[s \ {x(s)}]
      OBVIOUS
    <3>. QED  BY <2>2, <2>4
  <2>. HIDE DEF g
  <2>6. Sums(g, v, UpTo(S, n + 1))
    BY <2>5 DEF Sums, x
  <2>. QED  BY <1>2, <2>6
<1>3. T = Nat
  <2>. HIDE DEF T
  <2>1. T \in SUBSET Nat
    BY DEF T
  <2>. QED  BY <1>1, <1>2, <2>1, Induction
<1>. QED  BY <1>3

\* A sum of natural numbers is one, and no less than any of them.
LEMMA SumsBound ==
  ASSUME NEW S, NEW v \in [S -> Nat], NEW m \in Nat, NEW f, Sums(f, v, UpTo(S, m))
  PROVE  \A s \in UpTo(S, m) : f[s] \in Nat /\ \A x \in s : v[x] <= f[s]
<1>. DEFINE Good(s) == f[s] \in Nat /\ \A x \in s : v[x] <= f[s]
            T == {n \in Nat : n <= m => \A s \in UpTo(S, n) : Good(s)}
<1>0. ASSUME NEW n \in Nat, n <= m PROVE UpTo(S, n) \subseteq UpTo(S, m)
  BY <1>0, UpToMore
<1>1. 0 \in T
  <2>1. {} \in UpTo(S, m)
    BY <1>0, UpToNone
  <2>2. f[{}] = 0
    <3>. DEFINE none == {}
    <3>1. none \in UpTo(S, m) /\ none = {}
      BY <2>1
    <3>. HIDE DEF none, Good, T
    <3>2. f[none] = 0
      BY <3>1, SumsAt
    <3>. QED  BY <3>1, <3>2
  <2>3. Good({})
    BY <2>2
  <2>. HIDE DEF Good
  <2>. QED  BY <2>3, UpToNone
<1>2. ASSUME NEW n \in T PROVE n + 1 \in T
  <2>. SUFFICES ASSUME n + 1 <= m, NEW s \in UpTo(S, n + 1) PROVE Good(s)
    BY <1>2
  <2>1. n \in Nat /\ n <= m /\ s \in UpTo(S, m) /\ s \subseteq S
    BY <1>0, <1>2 DEF UpTo
  <2>2. CASE s = {}
    BY <2>1, <2>2, SumsAt
  <2>3. CASE s # {}
    <3>. DEFINE x == CHOOSE y \in s : TRUE
                q == s \ {x}
    <3>1. x \in s /\ q \in UpTo(S, n)
      BY <2>1, <2>3, OneLess
    <3>2. f[s] = v[x] + f[q]
      BY <2>1, <2>3, SumsAt
    <3>. HIDE DEF x
    <3>3. f[q] \in Nat /\ \A y \in q : v[y] <= f[q]
      BY <1>2, <2>1, <3>1
    <3>4. \A y \in s : y = x \/ y \in q
      OBVIOUS
    <3>5. \A y \in s : v[y] \in Nat
      BY <2>1
    <3>. HIDE DEF q
    <3>. QED  BY <3>1, <3>2, <3>3, <3>4, <3>5
  <2>. QED  BY <2>2, <2>3
<1>3. T = Nat
  <2>. HIDE DEF T
  <2>1. T \in SUBSET Nat
    BY DEF T
  <2>. QED  BY <1>1, <1>2, <2>1, Induction
<1>. QED  BY <1>3

-----------------------------------------------------------------------------
(* The transcript.                                                         *)

Texts   == Seq(Nat \X Nat)
Views   == [view: {"text", "live", "open", "folded", "detail", "summary"}, of: Texts]
Rows    == [of: Views, width: Widths, row: Nat]
Logged  == [shown: Views, rows: Nat, id: Nat]
Entries == [kind: {"thinking", "generic"}, text: Texts, brief: Texts, expanded: BOOLEAN,
            live: BOOLEAN]
Transcripts == [lines: Seq(Rows), log: Seq(Logged), held: Seq(Views), heldRows: Seq(Rows),
                entries: Seq(Entries), live: Nat, width: Widths]

\* A renderable takes some number of rows.
HeightIsCount == \A c \in Views, w \in Widths : Height(c, w) \in Nat

\* How a renderable of the log looks by now, and all their rows.
Now(u, l)     == IF l.id = 0 THEN l.shown ELSE Shown(u.entries[l.id])
RowsOf(u)     == [i \in DOMAIN u.log |-> Render(Now(u, u.log[i]), u.width)]
HeldRowsOf(u) == [i \in DOMAIN u.held |-> Render(u.held[i], u.width)]

\* At most one line is held, with its rows, and the log knows only entries there are.
Loose(u) ==
  /\ u \in Transcripts /\ Len(u.held) <= 1 /\ u.heldRows = FlattenSeq(HeldRowsOf(u))
  /\ \A i \in DOMAIN u.log : u.log[i].id \in 0..Len(u.entries)

Sound(u) == Loose(u) /\ Faithful(u)

\* The entry that thinking still goes to is the only live one.
Lively(u) ==
  /\ u.live \in 0..Len(u.entries)
  /\ \A i \in DOMAIN u.entries :
       /\ u.entries[i].live <=> i = u.live
       /\ u.entries[i].live => u.entries[i].kind = "thinking"

\* What is written stays, and what is closed.
LogStays(u, v) ==
  /\ Len(v.log) >= Len(u.log)
  /\ \A i \in DOMAIN u.log :
       /\ v.log[i].id = u.log[i].id
       /\ u.log[i].id = 0 => v.log[i].shown = u.log[i].shown
EntriesStay(u, v) ==
  \A i \in DOMAIN u.entries :
    i \in DOMAIN v.entries /\ (~u.entries[i].live => v.entries[i].text = u.entries[i].text)

Closed(e) == e.kind = "thinking" /\ ~e.live

\* The traces of v are those of u, and others with a text of the set.
TracesFrom(u, v, texts) ==
  \A i \in DOMAIN v.entries :
    Closed(v.entries[i]) =>
      \/ v.entries[i].text \in texts
      \/ i \in DOMAIN u.entries /\ Closed(u.entries[i]) /\ v.entries[i].text = u.entries[i].text

\* What an operation on the transcript has to do.
Moves(u, v, texts) ==
  Sound(v) /\ Lively(v) /\ v.width \in Widths /\ LogStays(u, v) /\ EntriesStay(u, v)
  /\ TracesFrom(u, v, texts)

-----------------------------------------------------------------------------
(* The operations on the transcript.                                       *)

LEMMA RenderType ==
  ASSUME HeightIsCount, NEW c \in Views, NEW w \in Widths
  PROVE  Render(c, w) \in Seq(Rows) /\ Len(Render(c, w)) = Height(c, w)
<1>1. Height(c, w) \in Nat
  BY DEF HeightIsCount
<1>2. \A i \in 1..Height(c, w) : [of |-> c, width |-> w, row |-> i] \in Rows
  BY <1>1 DEF Rows
<1>. QED  BY <1>1, <1>2 DEF Render

LEMMA ShownType ==
  ASSUME NEW e \in Entries
  PROVE  Shown(e) \in Views
<1>1. e.text \in Texts /\ e.brief \in Texts
  BY DEF Entries
<1>2. CASE e.kind = "thinking" /\ e.live
  BY <1>1, <1>2 DEF Shown, Views
<1>3. CASE e.kind = "thinking" /\ ~e.live
  BY <1>1, <1>3 DEF Shown, Views
<1>4. CASE e.kind # "thinking"
  BY <1>1, <1>4 DEF Shown, Views
<1>. QED  BY <1>2, <1>3, <1>4

LEMMA LooseType ==
  ASSUME NEW u, Loose(u)
  PROVE  /\ u.lines \in Seq(Rows) /\ u.log \in Seq(Logged) /\ u.held \in Seq(Views)
         /\ u.heldRows \in Seq(Rows) /\ u.entries \in Seq(Entries) /\ u.live \in Nat
         /\ u.width \in Widths
         /\ Len(u.log) \in Nat /\ DOMAIN u.log = 1..Len(u.log)
         /\ Len(u.entries) \in Nat /\ DOMAIN u.entries = 1..Len(u.entries)
         /\ \A i \in DOMAIN u.log : u.log[i] \in Logged /\ u.log[i].id \in 0..Len(u.entries)
         /\ \A i \in DOMAIN u.entries : u.entries[i] \in Entries
<1>1. /\ u.lines \in Seq(Rows) /\ u.log \in Seq(Logged) /\ u.held \in Seq(Views)
      /\ u.heldRows \in Seq(Rows) /\ u.entries \in Seq(Entries) /\ u.live \in Nat
      /\ u.width \in Widths
  BY DEF Loose, Transcripts
<1>2. /\ Len(u.log) \in Nat /\ DOMAIN u.log = 1..Len(u.log)
      /\ Len(u.entries) \in Nat /\ DOMAIN u.entries = 1..Len(u.entries)
  BY <1>1, LenProperties
<1>3. \A i \in DOMAIN u.log : u.log[i] \in Logged
  BY <1>1, <1>2, ElementOfSeq
<1>4. \A i \in DOMAIN u.entries : u.entries[i] \in Entries
  BY <1>1, <1>2, ElementOfSeq
<1>. QED  BY <1>1, <1>2, <1>3, <1>4 DEF Loose

LEMMA NowType ==
  ASSUME NEW u, Loose(u), NEW l \in Logged, l.id \in 0..Len(u.entries)
  PROVE  Now(u, l) \in Views
<1>1. CASE l.id = 0
  BY <1>1 DEF Now, Logged
<1>2. CASE l.id # 0
  <2>1. l.id \in DOMAIN u.entries
    BY <1>2, LooseType
  <2>2. u.entries[l.id] \in Entries
    BY <2>1, LooseType
  <2>. QED  BY <1>2, <2>2, ShownType DEF Now
<1>. QED  BY <1>1, <1>2

\* The rows of the log, as a sequence of sequences.
LEMMA RowsOfType ==
  ASSUME HeightIsCount, NEW u, Loose(u)
  PROVE  RowsOf(u) \in Seq(Seq(Rows)) /\ Len(RowsOf(u)) = Len(u.log)
<1>1. \A i \in 1..Len(u.log) : Render(Now(u, u.log[i]), u.width) \in Seq(Rows)
  BY LooseType, NowType, RenderType
<1>2. Len(u.log) \in Nat /\ DOMAIN u.log = 1..Len(u.log)
  BY LooseType
<1>. QED  BY <1>1, <1>2 DEF RowsOf

LEMMA FlattenType ==
  ASSUME NEW S, NEW s \in Seq(Seq(S))
  PROVE  FlattenSeq(s) \in Seq(S)
<1>1. <<>> \in Seq(S)
  BY EmptySeq
<1>. QED  BY <1>1, FlattenAppend

\* A log with one more renderable, whose entries look as before.
LEMMA RowsOfAppend ==
  ASSUME HeightIsCount, NEW u, Loose(u), NEW v, Loose(v), NEW l \in Logged,
         v.log = Append(u.log, l), v.width = u.width,
         \A i \in DOMAIN u.log : Now(v, u.log[i]) = Now(u, u.log[i])
  PROVE  FlattenSeq(RowsOf(v)) = FlattenSeq(RowsOf(u)) \o Render(Now(v, l), v.width)
<1>. DEFINE e == Render(Now(v, l), v.width)
<1>1. /\ Len(u.log) \in Nat /\ DOMAIN u.log = 1..Len(u.log) /\ u.log \in Seq(Logged)
      /\ DOMAIN v.log = 1..Len(v.log) /\ Len(v.log) = Len(u.log) + 1
      /\ \A i \in 1..Len(u.log) : v.log[i] = u.log[i]
      /\ v.log[Len(u.log) + 1] = l
  BY LooseType, AppendProperties
<1>2. RowsOf(u) \in Seq(Seq(Rows)) /\ Len(RowsOf(u)) = Len(u.log)
  BY RowsOfType
<1>3. RowsOf(v) \in Seq(Seq(Rows)) /\ Len(RowsOf(v)) = Len(u.log) + 1
  BY <1>1, RowsOfType
<1>4. e \in Seq(Rows)
  <2>1. Len(u.log) + 1 \in DOMAIN v.log
    BY <1>1
  <2>2. l.id \in 0..Len(v.entries) /\ v.width \in Widths
    BY <1>1, <2>1, LooseType
  <2>. QED  BY <2>2, NowType, RenderType
<1>5. \A i \in 1..Len(u.log) : RowsOf(v)[i] = RowsOf(u)[i]
  BY <1>1 DEF RowsOf
<1>6. RowsOf(v)[Len(u.log) + 1] = e
  BY <1>1 DEF RowsOf
<1>. HIDE DEF e
<1>7. RowsOf(v) = Append(RowsOf(u), e)
  <2>. DEFINE a == Append(RowsOf(u), e)
  <2>1. /\ a \in Seq(Seq(Rows)) /\ Len(a) = Len(u.log) + 1
        /\ \A i \in 1..Len(u.log) : a[i] = RowsOf(u)[i]
        /\ a[Len(u.log) + 1] = e
    BY <1>2, <1>4, AppendProperties
  <2>2. \A i \in 1..Len(a) : i \in 1..Len(u.log) \/ i = Len(u.log) + 1
    BY <1>1, <2>1
  <2>. HIDE DEF a
  <2>3. \A i \in 1..Len(RowsOf(v)) : RowsOf(v)[i] = a[i]
    <3>. SUFFICES ASSUME NEW i \in 1..Len(RowsOf(v))
                  PROVE  RowsOf(v)[i] = a[i]
      OBVIOUS
    <3>1. i \in 1..Len(a)
      BY <1>3, <2>1
    <3>2. CASE i \in 1..Len(u.log)
      BY <1>5, <2>1, <3>2
    <3>3. CASE i = Len(u.log) + 1
      BY <1>6, <2>1, <3>3
    <3>. QED  BY <2>2, <3>1, <3>2, <3>3
  <2>4. RowsOf(v) = a
    BY <1>3, <2>1, <2>3, SeqEqual
  <2>. QED  BY <2>4 DEF a
<1>. QED  BY <1>2, <1>4, <1>7, FlattenAppend DEF e

\* At most one line is held.
LEMMA HeldType ==
  ASSUME HeightIsCount, NEW u \in Transcripts, Len(u.held) <= 1
  PROVE  FlattenSeq(HeldRowsOf(u)) = IF u.held = <<>> THEN <<>> ELSE Render(Head(u.held), u.width)
<1>1. u.held \in Seq(Views) /\ u.width \in Widths /\ DOMAIN u.held = 1..Len(u.held) /\ Len(u.held) \in Nat
  BY LenProperties DEF Transcripts
<1>2. CASE u.held = <<>>
  <2>1. HeldRowsOf(u) = <<>>
    BY <1>2 DEF HeldRowsOf
  <2>. QED  BY <1>2, <2>1, FlattenEmpty
<1>3. CASE u.held # <<>>
  <2>. DEFINE e == Render(Head(u.held), u.width)
  <2>6. Len(u.held) = 1
    <3>1. u.held \in Seq(Views) /\ u.held # <<>>
      BY <1>1, <1>3
    <3>2. Len(u.held) \in Nat \ {0}
      BY <3>1, EmptySeq
    <3>3. \A n \in Nat \ {0} : n <= 1 => n = 1
      OBVIOUS
    <3>. QED  BY <3>2, <3>3
  <2>7. Head(u.held) = u.held[1]
    BY <1>1, <1>3
  <2>8. u.held[1] \in Views
    BY <1>1, <2>6, ElementOfSeq
  <2>1. Len(u.held) = 1 /\ Head(u.held) = u.held[1] /\ u.held[1] \in Views
    BY <2>6, <2>7, <2>8
  <2>2. e \in Seq(Rows)
    BY <1>1, <2>1, RenderType
  <2>3. HeldRowsOf(u) = <<e>>
    BY <1>1, <2>1 DEF HeldRowsOf
  <2>. HIDE DEF e
  <2>4. <<e>> = Append(<<>>, e) /\ <<>> \in Seq(Seq(Rows)) /\ <<>> \o e = e
    BY <2>2, EmptySeq, ConcatEmptySeq
  <2>5. FlattenSeq(<<e>>) = e
    BY <2>2, <2>4, FlattenAppend, FlattenEmpty
  <2>. QED  BY <1>3, <2>3, <2>5 DEF e
<1>. QED  BY <1>2, <1>3

\* Faithful, in these terms.
LEMMA FaithfulParts ==
  ASSUME NEW u, Loose(u), u.lines = FlattenSeq(RowsOf(u)),
         \A i \in DOMAIN u.log : u.log[i].rows = Height(Now(u, u.log[i]), u.width)
  PROVE  Faithful(u)
<1>1. u.heldRows = FlattenSeq(HeldRowsOf(u))
  BY DEF Loose
<1>. QED  BY <1>1 DEF Faithful, RowsOf, HeldRowsOf, Now

\* The log with one more renderable, with its rows under those of the others.
LEMMA LogSound ==
  ASSUME HeightIsCount, NEW u, Sound(u), NEW v, NEW c \in Views, NEW id \in 0..Len(u.entries),
         NEW held \in Seq(Views), NEW heldRows \in Seq(Rows), id # 0 => c = Shown(u.entries[id]),
         v = [lines |-> u.lines \o Render(c, u.width),
              log |-> Append(u.log, [shown |-> c, rows |-> Height(c, u.width), id |-> id]),
              held |-> held, heldRows |-> heldRows,
              entries |-> u.entries, live |-> u.live, width |-> u.width],
         Len(held) <= 1, heldRows = FlattenSeq(HeldRowsOf(v))
  PROVE  Sound(v) /\ LogStays(u, v)
<1>. DEFINE l == [shown |-> c, rows |-> Height(c, u.width), id |-> id]
<1>1. /\ v.lines = u.lines \o Render(c, u.width) /\ v.log = Append(u.log, l)
      /\ v.entries = u.entries /\ v.live = u.live /\ v.width = u.width
      /\ v.held = held /\ v.heldRows = heldRows
  OBVIOUS
<1>2. Loose(u) /\ Faithful(u) /\ u.width \in Widths
  BY LooseType DEF Sound
<1>3. l \in Logged /\ l.id = id /\ l.rows = Height(c, u.width)
  <2>1. Height(c, u.width) \in Nat /\ id \in Nat
    BY <1>2, LooseType DEF HeightIsCount
  <2>. QED  BY <2>1 DEF Logged
<1>4. Now(v, l) = c /\ \A x : Now(v, x) = Now(u, x)
  BY <1>1 DEF Now
<1>. HIDE DEF l
<1>5. /\ v.log \in Seq(Logged) /\ Len(v.log) = Len(u.log) + 1 /\ Len(u.log) \in Nat
      /\ DOMAIN u.log = 1..Len(u.log) /\ DOMAIN v.log = 1..Len(v.log)
      /\ \A i \in 1..Len(u.log) : v.log[i] = u.log[i]
      /\ v.log[Len(u.log) + 1] = l
  BY <1>1, <1>2, <1>3, LooseType, AppendProperties, LenProperties
<1>6. \A i \in 1..Len(v.log) : i \in 1..Len(u.log) \/ i = Len(u.log) + 1
  BY <1>5
<1>7. Loose(v)
  <2>1. v.lines \in Seq(Rows)
    BY <1>1, <1>2, LooseType, RenderType, ConcatProperties
  <2>2. v.entries \in Seq(Entries) /\ v.live \in Nat /\ v.width \in Widths
    BY <1>1, <1>2, LooseType
  <2>3. v \in Transcripts
    BY <1>5, <2>1, <2>2 DEF Transcripts
  <2>4. \A i \in DOMAIN v.log : v.log[i].id \in 0..Len(v.entries)
    <3>. SUFFICES ASSUME NEW i \in 1..Len(v.log)
                  PROVE  v.log[i].id \in 0..Len(v.entries)
      BY <1>5
    <3>1. CASE i \in 1..Len(u.log)
      BY <1>1, <1>2, <1>5, <3>1, LooseType
    <3>2. CASE i = Len(u.log) + 1
      BY <1>1, <1>3, <1>5, <3>2
    <3>. QED  BY <1>6, <3>1, <3>2
  <2>. QED  BY <2>3, <2>4 DEF Loose
<1>8. FlattenSeq(RowsOf(v)) = FlattenSeq(RowsOf(u)) \o Render(c, u.width)
  <2>2. v.log = Append(u.log, l) /\ v.width = u.width /\ l \in Logged
    BY <1>1, <1>3
  <2>3. \A i \in DOMAIN u.log : Now(v, u.log[i]) = Now(u, u.log[i])
    BY <1>4
  <2>1. FlattenSeq(RowsOf(v)) = FlattenSeq(RowsOf(u)) \o Render(Now(v, l), v.width)
    BY <1>2, <1>7, <2>2, <2>3, RowsOfAppend
  <2>. QED  BY <1>1, <1>4, <2>1
<1>9. /\ u.lines = FlattenSeq(RowsOf(u))
      /\ \A i \in DOMAIN u.log : u.log[i].rows = Height(Now(u, u.log[i]), u.width)
  BY <1>2 DEF Faithful, RowsOf, Now
<1>10. \A i \in DOMAIN v.log : v.log[i].rows = Height(Now(v, v.log[i]), v.width)
  <2>. SUFFICES ASSUME NEW i \in 1..Len(v.log)
                PROVE  v.log[i].rows = Height(Now(v, v.log[i]), v.width)
    BY <1>5
  <2>1. CASE i \in 1..Len(u.log)
    BY <1>1, <1>4, <1>5, <1>9, <2>1
  <2>2. CASE i = Len(u.log) + 1
    BY <1>1, <1>3, <1>4, <1>5, <2>2
  <2>. QED  BY <1>6, <2>1, <2>2
<1>11. Faithful(v)
  BY <1>1, <1>7, <1>8, <1>9, <1>10, FaithfulParts
<1>12. LogStays(u, v)
  BY <1>5 DEF LogStays
<1>. QED  BY <1>7, <1>11, <1>12 DEF Sound

\* _commit_pending changes neither the entries nor how anything looks.
LEMMA CommitSound ==
  ASSUME HeightIsCount, NEW u, Sound(u)
  PROVE  /\ Sound(CommitHeld(u)) /\ LogStays(u, CommitHeld(u))
         /\ CommitHeld(u).entries = u.entries /\ CommitHeld(u).live = u.live
         /\ CommitHeld(u).width = u.width
<1>. DEFINE v == CommitHeld(u)
<1>0. Loose(u) /\ u \in Transcripts
  BY DEF Sound, Loose
<1>1. CASE u.heldRows = <<>>
  <2>1. v = u
    BY <1>1 DEF CommitHeld
  <2>2. LogStays(u, u)
    BY <1>0, LooseType DEF LogStays
  <2>. QED  BY <2>1, <2>2
<1>2. CASE u.heldRows # <<>>
  <2>. DEFINE c == Head(u.held)
  <2>1. u.held # <<>> /\ u.heldRows = Render(c, u.width)
    BY <1>0, <1>2, HeldType DEF Loose
  <2>2. c \in Views
    BY <1>0, <2>1, LooseType, HeadTailProperties
  <2>3. Len(u.heldRows) = Height(c, u.width)
    BY <1>0, <2>1, <2>2, LooseType, RenderType
  <2>4. v = [lines |-> u.lines \o u.heldRows,
             log |-> Append(u.log, [shown |-> c, rows |-> Len(u.heldRows), id |-> 0]),
             held |-> <<>>, heldRows |-> <<>>,
             entries |-> u.entries, live |-> u.live, width |-> u.width]
    BY <1>0, <1>2 DEF CommitHeld, DropHeld, Transcripts
  <2>5. v.held = <<>> /\ v.heldRows = <<>> /\ HeldRowsOf(v) = <<>>
    BY <2>4 DEF HeldRowsOf
  <2>6. /\ <<>> \in Seq(Views) /\ Len(<<>>) <= 1 /\ <<>> \in Seq(Rows)
        /\ <<>> = FlattenSeq(HeldRowsOf(v))
    BY <2>5, EmptySeq, FlattenEmpty
  <2>7. 0 \in 0..Len(u.entries)
    BY <1>0, LooseType
  <2>8. v.entries = u.entries /\ v.live = u.live /\ v.width = u.width
    BY <2>4
  <2>. HIDE DEF v, c
  <2>9. Sound(v) /\ LogStays(u, v)
    BY <2>1, <2>2, <2>3, <2>4, <2>6, <2>7, LogSound
  <2>. QED  BY <2>8, <2>9 DEF v
<1>. QED  BY <1>1, <1>2

LEMMA PutSound ==
  ASSUME HeightIsCount, NEW u, Sound(u), NEW c \in Views, NEW id \in 0..Len(u.entries),
         id # 0 => c = Shown(u.entries[id])
  PROVE  /\ Sound(Put(u, c, id)) /\ LogStays(u, Put(u, c, id))
         /\ Put(u, c, id).entries = u.entries /\ Put(u, c, id).live = u.live
         /\ Put(u, c, id).width = u.width
<1>. DEFINE v == Put(u, c, id)
<1>0. Loose(u) /\ u \in Transcripts
  BY DEF Sound, Loose
<1>1. Len(Render(c, u.width)) = Height(c, u.width)
  BY <1>0, LooseType, RenderType
<1>2. v = [lines |-> u.lines \o Render(c, u.width),
           log |-> Append(u.log, [shown |-> c, rows |-> Height(c, u.width), id |-> id]),
           held |-> u.held, heldRows |-> u.heldRows,
           entries |-> u.entries, live |-> u.live, width |-> u.width]
  <2>1. v = [u EXCEPT !.lines = u.lines \o Render(c, u.width),
                      !.log = Append(u.log, [shown |-> c, rows |-> Len(Render(c, u.width)), id |-> id])]
    BY DEF Put
  <2>2. v = [u EXCEPT !.lines = u.lines \o Render(c, u.width),
                      !.log = Append(u.log, [shown |-> c, rows |-> Height(c, u.width), id |-> id])]
    BY <1>1, <2>1
  <2>. HIDE DEF v
  <2>. QED  BY <1>0, <2>2 DEF Transcripts
<1>3. /\ v.held = u.held /\ v.heldRows = u.heldRows /\ v.entries = u.entries
      /\ v.live = u.live /\ v.width = u.width
  BY <1>2
<1>4. HeldRowsOf(v) = HeldRowsOf(u)
  BY <1>3 DEF HeldRowsOf
<1>5. /\ u.held \in Seq(Views) /\ Len(u.held) <= 1 /\ u.heldRows \in Seq(Rows)
      /\ u.heldRows = FlattenSeq(HeldRowsOf(v))
  BY <1>0, <1>4, LooseType DEF Loose
<1>. HIDE DEF v
<1>6. Sound(v) /\ LogStays(u, v)
  BY <1>2, <1>5, LogSound
<1>. QED  BY <1>3, <1>6 DEF v

\* A new entry that nothing in the log refers to yet.
LEMMA EntrySound ==
  ASSUME HeightIsCount, NEW u, Sound(u), NEW e \in Entries, NEW v,
         v = [u EXCEPT !.entries = Append(u.entries, e)]
  PROVE  /\ Sound(v) /\ LogStays(u, v) /\ v.entries = Append(u.entries, e) /\ v.live = u.live
         /\ v.width = u.width
<1>1. Loose(u) /\ Faithful(u) /\ u \in Transcripts
  BY DEF Sound, Loose
<1>2. /\ v.lines = u.lines /\ v.log = u.log /\ v.held = u.held /\ v.heldRows = u.heldRows
      /\ v.entries = Append(u.entries, e) /\ v.live = u.live /\ v.width = u.width
  BY <1>1 DEF Transcripts
<1>3. /\ v.entries \in Seq(Entries) /\ Len(u.entries) \in Nat
      /\ Len(v.entries) = Len(u.entries) + 1
      /\ \A i \in 1..Len(u.entries) : v.entries[i] = u.entries[i]
  BY <1>1, <1>2, LooseType, AppendProperties
<1>4. v \in Transcripts
  BY <1>1, <1>3 DEF Transcripts
<1>5. HeldRowsOf(v) = HeldRowsOf(u)
  BY <1>2 DEF HeldRowsOf
<1>6. \A i \in DOMAIN u.log : u.log[i].id \in 0..Len(u.entries) /\ Now(v, u.log[i]) = Now(u, u.log[i])
  <2>. SUFFICES ASSUME NEW i \in DOMAIN u.log
                PROVE  u.log[i].id \in 0..Len(u.entries) /\ Now(v, u.log[i]) = Now(u, u.log[i])
    OBVIOUS
  <2>1. u.log[i].id \in 0..Len(u.entries)
    BY <1>1, LooseType
  <2>2. u.log[i].id # 0 => v.entries[u.log[i].id] = u.entries[u.log[i].id]
    BY <1>3, <2>1
  <2>. QED  BY <2>1, <2>2 DEF Now
<1>7. Loose(v)
  <2>1. \A i \in DOMAIN v.log : v.log[i].id \in 0..Len(v.entries)
    BY <1>2, <1>3, <1>6
  <2>. QED  BY <1>1, <1>2, <1>4, <1>5, <2>1 DEF Loose
<1>8. RowsOf(v) = RowsOf(u)
  <2>1. \A i \in DOMAIN u.log :
          Render(Now(v, u.log[i]), v.width) = Render(Now(u, u.log[i]), u.width)
    BY <1>2, <1>6
  <2>. QED  BY <1>2, <2>1 DEF RowsOf
<1>9. /\ u.lines = FlattenSeq(RowsOf(u))
      /\ \A i \in DOMAIN u.log : u.log[i].rows = Height(Now(u, u.log[i]), u.width)
  BY <1>1 DEF Faithful, RowsOf, Now
<1>10. \A i \in DOMAIN v.log : v.log[i].rows = Height(Now(v, v.log[i]), v.width)
  BY <1>2, <1>6, <1>9
<1>11. Faithful(v)
  BY <1>2, <1>7, <1>8, <1>9, <1>10, FaithfulParts
<1>12. LogStays(u, v)
  BY <1>1, <1>2, LooseType DEF LogStays
<1>. QED  BY <1>2, <1>7, <1>11, <1>12 DEF Sound

\* _rebuild_committed_lines makes the screen right whatever has changed.
LEMMA RebuildSound ==
  ASSUME HeightIsCount, NEW u, Loose(u)
  PROVE  /\ Sound(Rebuild(u)) /\ LogStays(u, Rebuild(u))
         /\ Rebuild(u).entries = u.entries /\ Rebuild(u).live = u.live
         /\ Rebuild(u).width = u.width
<1>. DEFINE v == Rebuild(u)
            new(l) == [shown |-> Now(u, l), rows |-> Height(Now(u, l), u.width), id |-> l.id]
            log == [i \in DOMAIN u.log |-> new(u.log[i])]
            lines == [i \in DOMAIN log |-> Render(log[i].shown, u.width)]
<1>1. u \in Transcripts
  BY DEF Loose
<1>2. v = [u EXCEPT !.log = log, !.lines = FlattenSeq(lines)]
  BY DEF Rebuild, Now
<1>3. /\ v.lines = FlattenSeq(lines) /\ v.log = log /\ v.held = u.held /\ v.heldRows = u.heldRows
      /\ v.entries = u.entries /\ v.live = u.live /\ v.width = u.width
  <2>. HIDE DEF log, lines, v
  <2>. QED  BY <1>1, <1>2 DEF Transcripts
<1>4. /\ DOMAIN log = DOMAIN u.log
      /\ \A i \in DOMAIN u.log : log[i] = new(u.log[i])
  OBVIOUS
<1>5. \A i \in DOMAIN u.log : Now(u, u.log[i]) \in Views
  BY LooseType, NowType
<1>6. \A i \in DOMAIN u.log : new(u.log[i]) \in Logged
  <2>. SUFFICES ASSUME NEW i \in DOMAIN u.log
                PROVE  new(u.log[i]) \in Logged
    OBVIOUS
  <2>1. u.log[i].id \in Nat
    BY LooseType
  <2>2. Height(Now(u, u.log[i]), u.width) \in Nat
    BY <1>5, LooseType DEF HeightIsCount
  <2>. QED  BY <1>5, <2>1, <2>2 DEF Logged
<1>7. log \in Seq(Logged) /\ Len(log) = Len(u.log)
  <2>1. Len(u.log) \in Nat /\ DOMAIN u.log = 1..Len(u.log)
    BY LooseType
  <2>. QED  BY <1>6, <2>1
<1>8. \A i \in DOMAIN u.log : /\ log[i].shown = Now(u, u.log[i]) /\ log[i].id = u.log[i].id
                              /\ log[i].rows = Height(Now(u, u.log[i]), u.width)
  BY <1>4
<1>9. \A i \in DOMAIN u.log : Now(v, log[i]) = Now(u, u.log[i])
  <2>. SUFFICES ASSUME NEW i \in DOMAIN u.log
                PROVE  Now(v, log[i]) = Now(u, u.log[i])
    OBVIOUS
  <2>1. log[i].shown = Now(u, u.log[i]) /\ log[i].id = u.log[i].id
    BY <1>8
  <2>. HIDE DEF log, v
  <2>. QED  BY <1>3, <2>1 DEF Now
<1>10. lines = RowsOf(v)
  <2>1. lines = [i \in DOMAIN u.log |-> Render(Now(v, log[i]), v.width)]
    <3>. HIDE DEF v
    <3>. QED  BY <1>3, <1>9
  <2>. HIDE DEF v, log, lines
  <2>. QED  BY <1>3, <1>4, <2>1 DEF RowsOf
<1>. HIDE DEF v, log, lines
<1>11. \A i \in DOMAIN v.log : v.log[i].id \in 0..Len(v.entries)
  BY <1>3, <1>4, <1>8, LooseType
<1>12. HeldRowsOf(v) = HeldRowsOf(u)
  BY <1>3 DEF HeldRowsOf
<1>13. Loose(v)
  <2>1. lines \in Seq(Seq(Rows))
    <3>1. \A i \in 1..Len(u.log) : Render(log[i].shown, u.width) \in Seq(Rows)
      BY <1>5, <1>8, LooseType, RenderType
    <3>2. Len(u.log) \in Nat /\ DOMAIN u.log = 1..Len(u.log)
      BY LooseType
    <3>. QED  BY <1>4, <3>1, <3>2 DEF lines
  <2>2. v.lines \in Seq(Rows)
    BY <1>3, <2>1, FlattenType
  <2>3. v.log \in Seq(Logged) /\ v.held \in Seq(Views) /\ v.heldRows \in Seq(Rows)
        /\ v.entries \in Seq(Entries) /\ v.live \in Nat /\ v.width \in Widths
    BY <1>3, <1>7, LooseType
  <2>4. v = [lines |-> v.lines, log |-> v.log, held |-> v.held, heldRows |-> v.heldRows,
             entries |-> v.entries, live |-> v.live, width |-> v.width]
    BY <1>1, <1>2, <1>3 DEF Transcripts
  <2>5. v \in Transcripts
    BY <2>2, <2>3, <2>4 DEF Transcripts
  <2>. QED  BY <1>3, <1>11, <1>12, <2>5 DEF Loose
<1>14. \A i \in DOMAIN v.log : v.log[i].rows = Height(Now(v, v.log[i]), v.width)
  BY <1>3, <1>4, <1>8, <1>9
<1>15. Faithful(v)
  BY <1>3, <1>10, <1>13, <1>14, FaithfulParts
<1>16. LogStays(u, v)
  <2>1. Len(v.log) >= Len(u.log)
    BY <1>3, <1>7, LooseType
  <2>2. \A i \in DOMAIN u.log : u.log[i].id = 0 => log[i].shown = u.log[i].shown
    BY <1>8 DEF Now
  <2>. QED  BY <1>3, <1>8, <2>1, <2>2 DEF LogStays
<1>17. Sound(v)
  BY <1>13, <1>15 DEF Sound
<1>. QED  BY <1>3, <1>16, <1>17 DEF v

LEMMA LogStaysOn ==
  ASSUME NEW u, NEW v, NEW w, Loose(u), Loose(v), Loose(w), LogStays(u, v), LogStays(v, w)
  PROVE  LogStays(u, w)
<1>1. /\ Len(u.log) \in Nat /\ Len(v.log) \in Nat /\ Len(w.log) \in Nat
      /\ DOMAIN u.log = 1..Len(u.log) /\ DOMAIN v.log = 1..Len(v.log)
  BY LooseType
<1>2. Len(v.log) >= Len(u.log) /\ Len(w.log) >= Len(v.log)
  BY DEF LogStays
<1>3. \A i \in DOMAIN u.log : i \in DOMAIN v.log
  BY <1>1, <1>2
<1>4. Len(w.log) >= Len(u.log)
  BY <1>1, <1>2
<1>. QED  BY <1>3, <1>4 DEF LogStays

\* A change that leaves the entries alone.
LEMMA SameEntries ==
  ASSUME NEW u, Sound(u), Lively(u), NEW v, Sound(v), LogStays(u, v),
         v.entries = u.entries, v.live = u.live, NEW texts
  PROVE  Moves(u, v, texts)
<1>1. Lively(v) /\ EntriesStay(u, v) /\ TracesFrom(u, v, texts)
  BY DEF Lively, EntriesStay, TracesFrom
<1>2. v.width \in Widths
  BY LooseType DEF Sound
<1>. QED  BY <1>1, <1>2 DEF Moves

\* What stays as it is.
LEMMA SelfMoves == ASSUME NEW u, Sound(u), Lively(u) PROVE Moves(u, u, {})
<1>1. LogStays(u, u)
  BY LooseType DEF LogStays, Sound
<1>. QED  BY <1>1, SameEntries

\* write
LEMMA WriteMoves ==
  ASSUME HeightIsCount, NEW u, Sound(u), Lively(u), NEW c \in Views
  PROVE  Moves(u, Write(u, c), {})
<1>. DEFINE v == CommitHeld(u)
            w == Put(v, c, 0)
<1>1. Sound(v) /\ LogStays(u, v) /\ v.entries = u.entries /\ v.live = u.live
  BY CommitSound
<1>2. 0 \in 0..Len(v.entries)
  <2>1. Loose(u)
    BY DEF Sound
  <2>2. Len(u.entries) \in Nat
    BY <2>1, LooseType
  <2>. QED  BY <1>1, <2>2
<1>. HIDE DEF v
<1>3. Sound(w) /\ LogStays(v, w) /\ w.entries = v.entries /\ w.live = v.live
  BY <1>1, <1>2, PutSound
<1>4. w = Write(u, c)
  BY DEF Write, v
<1>. HIDE DEF w
<1>5. LogStays(u, w)
  BY <1>1, <1>3, LogStaysOn DEF Sound
<1>6. Moves(u, w, {})
  BY <1>1, <1>3, <1>5, SameEntries
<1>. QED  BY <1>4, <1>6

\* The line that is held is not part of what is written.
LEMMA HeldMoves ==
  ASSUME HeightIsCount, NEW u, Sound(u), Lively(u), NEW held \in Seq(Views), Len(held) <= 1,
         NEW rows \in Seq(Rows), NEW v, v = [u EXCEPT !.held = held, !.heldRows = rows],
         rows = IF held = <<>> THEN <<>> ELSE Render(Head(held), u.width)
  PROVE  Moves(u, v, {})
<1>1. Loose(u) /\ Faithful(u) /\ u \in Transcripts
  BY DEF Sound, Loose
<1>2. /\ v.lines = u.lines /\ v.log = u.log /\ v.held = held /\ v.heldRows = rows
      /\ v.entries = u.entries /\ v.live = u.live /\ v.width = u.width
  BY <1>1 DEF Transcripts
<1>3. v \in Transcripts
  BY <1>1 DEF Transcripts
<1>4. v.heldRows = FlattenSeq(HeldRowsOf(v))
  BY <1>2, <1>3, HeldType
<1>5. Loose(v)
  BY <1>1, <1>2, <1>3, <1>4 DEF Loose
<1>6. RowsOf(v) = RowsOf(u) /\ \A x : Now(v, x) = Now(u, x)
  BY <1>2 DEF RowsOf, Now
<1>7. /\ u.lines = FlattenSeq(RowsOf(u))
      /\ \A i \in DOMAIN u.log : u.log[i].rows = Height(Now(u, u.log[i]), u.width)
  BY <1>1 DEF Faithful, RowsOf, Now
<1>8. Faithful(v)
  <2>1. \A i \in DOMAIN v.log : v.log[i].rows = Height(Now(v, v.log[i]), v.width)
    BY <1>2, <1>6, <1>7
  <2>2. v.lines = FlattenSeq(RowsOf(v))
    BY <1>2, <1>6, <1>7
  <2>. QED  BY <1>5, <2>1, <2>2, FaithfulParts
<1>9. LogStays(u, v)
  BY <1>1, <1>2, LooseType DEF LogStays
<1>10. Sound(v)
  BY <1>5, <1>8 DEF Sound
<1>. QED  BY <1>2, <1>9, <1>10, SameEntries

\* write(replace_last, commit = False), and discard_pending.
LEMMA HoldMoves ==
  ASSUME HeightIsCount, NEW u, Sound(u), Lively(u), NEW c \in Views
  PROVE  Moves(u, Hold(u, c), {}) /\ Moves(u, Discard(u), {})
<1>1. <<c>> \in Seq(Views) /\ Len(<<c>>) <= 1 /\ <<c>> # <<>> /\ Head(<<c>>) = c
  OBVIOUS
<1>2. Render(c, u.width) \in Seq(Rows)
  BY LooseType, RenderType DEF Sound
<1>3. <<>> \in Seq(Views) /\ Len(<<>>) <= 1 /\ <<>> \in Seq(Rows)
  BY EmptySeq
<1>4. Moves(u, Hold(u, c), {})
  BY <1>1, <1>2, HeldMoves DEF Hold
<1>5. Moves(u, Discard(u), {})
  BY <1>3, HeldMoves DEF Discard, DropHeld
<1>. QED  BY <1>4, <1>5

\* write(replace_last, commit): the held line goes, then the new one is written.
LEMMA CommitMoves ==
  ASSUME HeightIsCount, NEW u, Sound(u), Lively(u), NEW c \in Views
  PROVE  Moves(u, Commit(u, c), {})
<1>. DEFINE v == DropHeld(u)
            w == Put(v, c, 0)
<1>1. Moves(u, v, {})
  BY HoldMoves DEF Discard
<1>2. Sound(v) /\ LogStays(u, v)
  BY <1>1 DEF Moves
<1>3. v.entries = u.entries /\ v.live = u.live
  BY DEF DropHeld, Sound, Loose, Transcripts
<1>4. 0 \in 0..Len(v.entries)
  <2>1. Loose(u)
    BY DEF Sound
  <2>2. Len(u.entries) \in Nat
    BY <2>1, LooseType
  <2>. QED  BY <1>3, <2>2
<1>. HIDE DEF v
<1>5. Sound(w) /\ LogStays(v, w) /\ w.entries = v.entries /\ w.live = v.live
  BY <1>2, <1>4, PutSound
<1>6. w = Commit(u, c)
  BY DEF Commit, v
<1>. HIDE DEF w
<1>7. LogStays(u, w)
  BY <1>2, <1>5, LogStaysOn DEF Sound
<1>8. Moves(u, w, {})
  BY <1>3, <1>5, <1>7, SameEntries
<1>. QED  BY <1>6, <1>8

\* A new entry, in the log and on screen.
LEMMA NewEntrySound ==
  ASSUME HeightIsCount, NEW u, Sound(u), NEW e \in Entries
  PROVE  /\ Sound(NewEntry(u, e)) /\ LogStays(u, NewEntry(u, e))
         /\ NewEntry(u, e).entries = Append(u.entries, e) /\ NewEntry(u, e).live = u.live
<1>. DEFINE v == CommitHeld(u)
            w == [v EXCEPT !.entries = Append(v.entries, e)]
            x == Put(w, Shown(e), Len(w.entries))
<1>1. Sound(v) /\ LogStays(u, v) /\ v.entries = u.entries /\ v.live = u.live
  BY CommitSound
<1>2. x = NewEntry(u, e)
  BY DEF NewEntry
<1>. HIDE DEF v
<1>3. Sound(w) /\ LogStays(v, w) /\ w.entries = Append(v.entries, e) /\ w.live = v.live
  BY <1>1, EntrySound
<1>. HIDE DEF w
<1>4. /\ Len(w.entries) \in 0..Len(w.entries) /\ w.entries[Len(w.entries)] = e
      /\ Shown(e) \in Views
  <2>1. Loose(v)
    BY <1>1 DEF Sound
  <2>2. v.entries \in Seq(Entries) /\ Len(v.entries) \in Nat
    BY <2>1, LooseType
  <2>3. Len(w.entries) = Len(v.entries) + 1 /\ w.entries[Len(v.entries) + 1] = e
    BY <1>3, <2>2, AppendProperties
  <2>4. Len(w.entries) \in 0..Len(w.entries) /\ w.entries[Len(w.entries)] = e
    BY <2>2, <2>3
  <2>. QED  BY <2>4, ShownType
<1>5. Sound(x) /\ LogStays(w, x) /\ x.entries = w.entries /\ x.live = w.live
  BY <1>3, <1>4, PutSound
<1>. HIDE DEF x
<1>6. Loose(u) /\ Loose(v) /\ Loose(w) /\ Loose(x)
  BY <1>1, <1>3, <1>5 DEF Sound
<1>7. LogStays(u, w)
  BY <1>1, <1>3, <1>6, LogStaysOn
<1>8. LogStays(u, x)
  BY <1>5, <1>6, <1>7, LogStaysOn
<1>. QED  BY <1>1, <1>2, <1>3, <1>5, <1>8

\* What becomes of the entries when there is one more.
LEMMA AppendedEntries ==
  ASSUME NEW u, Loose(u), Lively(u), NEW e \in Entries, NEW v,
         v.entries = Append(u.entries, e),
         e.live => u.live = 0 /\ v.live = Len(u.entries) + 1 /\ e.kind = "thinking",
         ~e.live => v.live = u.live,
         NEW texts, Closed(e) => e.text \in texts
  PROVE  Lively(v) /\ EntriesStay(u, v) /\ TracesFrom(u, v, texts)
<1>1. /\ u.entries \in Seq(Entries) /\ Len(u.entries) \in Nat /\ DOMAIN u.entries = 1..Len(u.entries)
      /\ u.live \in 0..Len(u.entries)
  BY LooseType DEF Lively
<1>2. /\ v.entries \in Seq(Entries) /\ Len(v.entries) = Len(u.entries) + 1
      /\ \A i \in 1..Len(u.entries) : v.entries[i] = u.entries[i]
      /\ v.entries[Len(u.entries) + 1] = e
  BY <1>1, AppendProperties
<1>3. DOMAIN v.entries = 1..(Len(u.entries) + 1)
  BY <1>2, LenProperties
<1>4. \A i \in DOMAIN v.entries : i \in DOMAIN u.entries \/ i = Len(u.entries) + 1
  BY <1>1, <1>3
<1>5. \A i \in DOMAIN u.entries : /\ i \in DOMAIN v.entries /\ v.entries[i] = u.entries[i]
                                  /\ i # Len(u.entries) + 1
  BY <1>1, <1>2, <1>3
<1>6. Len(u.entries) + 1 # u.live /\ Len(u.entries) + 1 # 0 /\ 0 \notin DOMAIN u.entries
  BY <1>1
<1>7. Lively(v)
  <2>1. v.live \in 0..Len(v.entries)
    <3>1. CASE v.live = u.live
      BY <1>1, <1>2, <3>1
    <3>2. CASE v.live = Len(u.entries) + 1
      BY <1>1, <1>2, <3>2
    <3>. QED  BY <3>1, <3>2
  <2>2. ASSUME NEW i \in DOMAIN v.entries
        PROVE  /\ v.entries[i].live <=> i = v.live
               /\ v.entries[i].live => v.entries[i].kind = "thinking"
    <3>1. CASE i \in DOMAIN u.entries
      <4>1. v.entries[i] = u.entries[i] /\ i # Len(u.entries) + 1 /\ i # 0
        BY <1>5, <1>6, <3>1
      <4>2. /\ u.entries[i].live <=> i = u.live
            /\ u.entries[i].live => u.entries[i].kind = "thinking"
        BY <3>1 DEF Lively
      <4>3. i = v.live <=> i = u.live
        BY <4>1
      <4>. QED  BY <4>1, <4>2, <4>3
    <3>2. CASE i = Len(u.entries) + 1
      <4>1. v.entries[i] = e /\ i # u.live
        BY <1>2, <1>6, <3>2
      <4>. QED  BY <3>2, <4>1
    <3>. QED  BY <1>4, <3>1, <3>2
  <2>. QED  BY <2>1, <2>2 DEF Lively
<1>8. EntriesStay(u, v)
  BY <1>5 DEF EntriesStay
<1>9. TracesFrom(u, v, texts)
  BY <1>2, <1>4, <1>5 DEF TracesFrom
<1>. QED  BY <1>7, <1>8, <1>9

\* write_expandable
LEMMA WriteExpandableMoves ==
  ASSUME HeightIsCount, NEW u, Sound(u), Lively(u), NEW brief \in Texts, NEW text \in Texts
  PROVE  Moves(u, WriteExpandable(u, brief, text), {})
<1>. DEFINE e == [kind |-> "generic", text |-> text, brief |-> brief, expanded |-> FALSE, live |-> FALSE]
            v == NewEntry(u, e)
<1>1. e \in Entries /\ ~e.live /\ ~Closed(e)
  BY DEF Entries, Closed
<1>2. v = WriteExpandable(u, brief, text)
  BY DEF WriteExpandable
<1>. HIDE DEF e
<1>3. Sound(v) /\ LogStays(u, v) /\ v.entries = Append(u.entries, e) /\ v.live = u.live
  BY <1>1, NewEntrySound
<1>. HIDE DEF v
<1>4. Lively(v) /\ EntriesStay(u, v) /\ TracesFrom(u, v, {})
  BY <1>1, <1>3, AppendedEntries DEF Sound
<1>5. v.width \in Widths
  BY <1>3, LooseType DEF Sound
<1>. QED  BY <1>2, <1>3, <1>4, <1>5 DEF Moves

\* Which entry is the live one is not seen.
LEMMA LiveSound ==
  ASSUME NEW u, Sound(u), NEW n \in Nat, NEW v, v = [u EXCEPT !.live = n]
  PROVE  Sound(v) /\ LogStays(u, v) /\ v.entries = u.entries /\ v.live = n
<1>1. Loose(u) /\ Faithful(u) /\ u \in Transcripts
  BY DEF Sound, Loose
<1>2. /\ v.lines = u.lines /\ v.log = u.log /\ v.held = u.held /\ v.heldRows = u.heldRows
      /\ v.entries = u.entries /\ v.live = n /\ v.width = u.width /\ v \in Transcripts
  BY <1>1 DEF Transcripts
<1>3. HeldRowsOf(v) = HeldRowsOf(u)
  BY <1>2 DEF HeldRowsOf
<1>4. Loose(v)
  BY <1>1, <1>2, <1>3 DEF Loose
<1>5. Faithful(v)
  BY <1>1, <1>2 DEF Faithful
<1>6. LogStays(u, v)
  BY <1>1, <1>2, LooseType DEF LogStays
<1>. QED  BY <1>2, <1>4, <1>5, <1>6 DEF Sound

LEMMA ThoughtType ==
  ASSUME NEW text \in Texts, NEW live \in BOOLEAN
  PROVE  /\ Thought(text, live) \in Entries /\ Thought(text, live).kind = "thinking"
         /\ Thought(text, live).live = live /\ Thought(text, live).text = text
<1>1. <<>> \in Texts
  BY EmptySeq DEF Texts
<1>. QED  BY <1>1 DEF Thought, Entries

\* A change of one entry, before the screen is made again.
Changed(u, id, e, n) == [u EXCEPT !.entries = [u.entries EXCEPT ![id] = e], !.live = n]

LEMMA ChangedLoose ==
  ASSUME HeightIsCount, NEW u, Loose(u), NEW id \in DOMAIN u.entries, NEW e \in Entries, NEW n \in Nat,
         NEW v, v = Changed(u, id, e, n)
  PROVE  /\ Loose(v) /\ LogStays(u, v) /\ v.entries = [u.entries EXCEPT ![id] = e] /\ v.live = n
<1>1. u \in Transcripts
  BY DEF Loose
<1>2. /\ v.lines = u.lines /\ v.log = u.log /\ v.held = u.held /\ v.heldRows = u.heldRows
      /\ v.entries = [u.entries EXCEPT ![id] = e] /\ v.live = n /\ v.width = u.width
  BY <1>1 DEF Changed, Transcripts
<1>3. v.entries \in Seq(Entries) /\ Len(v.entries) = Len(u.entries)
  BY <1>2, LooseType, ExceptSeq
<1>4. v \in Transcripts
  BY <1>1, <1>3 DEF Changed, Transcripts
<1>5. HeldRowsOf(v) = HeldRowsOf(u)
  BY <1>2 DEF HeldRowsOf
<1>6. Loose(v)
  BY <1>2, <1>3, <1>4, <1>5 DEF Loose
<1>7. LogStays(u, v)
  BY <1>2, LooseType DEF LogStays
<1>. QED  BY <1>2, <1>6, <1>7

\* What becomes of the entries when one of them changes.
LEMMA ChangedEntries ==
  ASSUME NEW u, Loose(u), Lively(u), NEW id \in DOMAIN u.entries, NEW e \in Entries, NEW v,
         v.entries = [u.entries EXCEPT ![id] = e],
         v.live = u.live \/ (v.live = 0 /\ u.live = id),
         e.live <=> v.live = id, e.live => e.kind = "thinking",
         ~u.entries[id].live => e.text = u.entries[id].text,
         NEW texts,
         Closed(e) => \/ e.text \in texts
                      \/ Closed(u.entries[id]) /\ e.text = u.entries[id].text
  PROVE  Lively(v) /\ EntriesStay(u, v) /\ TracesFrom(u, v, texts)
<1>1. /\ u.entries \in Seq(Entries) /\ Len(u.entries) \in Nat /\ DOMAIN u.entries = 1..Len(u.entries)
      /\ u.live \in 0..Len(u.entries)
  BY LooseType DEF Lively
<1>2. /\ DOMAIN v.entries = DOMAIN u.entries /\ v.entries[id] = e /\ Len(v.entries) = Len(u.entries)
      /\ \A i \in DOMAIN u.entries : i # id => v.entries[i] = u.entries[i]
  BY <1>1, ExceptSeq
<1>3. 0 \notin DOMAIN u.entries
  BY <1>1
<1>4. Lively(v)
  <2>1. v.live \in 0..Len(v.entries)
    BY <1>1, <1>2
  <2>2. ASSUME NEW i \in DOMAIN u.entries
        PROVE  /\ v.entries[i].live <=> i = v.live
               /\ v.entries[i].live => v.entries[i].kind = "thinking"
    <3>1. CASE i = id
      <4>1. v.entries[i] = e
        BY <1>2, <3>1
      <4>. QED  BY <3>1, <4>1
    <3>2. CASE i # id
      <4>1. v.entries[i] = u.entries[i]
        BY <1>2, <3>2
      <4>2. /\ u.entries[i].live <=> i = u.live
            /\ u.entries[i].live => u.entries[i].kind = "thinking"
        BY DEF Lively
      <4>3. i = v.live <=> i = u.live
        BY <1>3, <3>2
      <4>. QED  BY <4>1, <4>2, <4>3
    <3>. QED  BY <3>1, <3>2
  <2>. QED  BY <1>2, <2>1, <2>2 DEF Lively
<1>5. EntriesStay(u, v)
  <2>. SUFFICES ASSUME NEW i \in DOMAIN u.entries
                PROVE  i \in DOMAIN v.entries /\ (~u.entries[i].live => v.entries[i].text = u.entries[i].text)
    BY DEF EntriesStay
  <2>1. CASE i = id
    BY <1>2, <2>1
  <2>2. CASE i # id
    BY <1>2, <2>2
  <2>. QED  BY <2>1, <2>2
<1>6. TracesFrom(u, v, texts)
  <2>. SUFFICES ASSUME NEW i \in DOMAIN u.entries, Closed(v.entries[i])
                PROVE  \/ v.entries[i].text \in texts
                       \/ /\ i \in DOMAIN u.entries /\ Closed(u.entries[i])
                          /\ v.entries[i].text = u.entries[i].text
    BY <1>2 DEF TracesFrom
  <2>1. CASE i = id
    BY <1>2, <2>1
  <2>2. CASE i # id
    BY <1>2, <2>2
  <2>. QED  BY <2>1, <2>2
<1>. QED  BY <1>4, <1>5, <1>6

\* A change of one entry, and the screen made again.
LEMMA ChangedMoves ==
  ASSUME HeightIsCount, NEW u, Sound(u), Lively(u), NEW w, Sound(w), LogStays(u, w),
         w.entries = u.entries, w.live = u.live,
         NEW id \in DOMAIN u.entries, NEW e \in Entries, NEW n \in Nat,
         NEW v, v = Changed(w, id, e, n),
         n = u.live \/ (n = 0 /\ u.live = id),
         e.live <=> n = id, e.live => e.kind = "thinking",
         ~u.entries[id].live => e.text = u.entries[id].text,
         NEW texts,
         Closed(e) => \/ e.text \in texts
                      \/ Closed(u.entries[id]) /\ e.text = u.entries[id].text
  PROVE  Moves(u, Rebuild(v), texts)
<1>. DEFINE x == Rebuild(v)
<1>0. Loose(u) /\ Loose(w)
  BY DEF Sound
<1>1. Loose(v) /\ LogStays(w, v) /\ v.entries = [u.entries EXCEPT ![id] = e] /\ v.live = n
  <2>1. id \in DOMAIN w.entries
    OBVIOUS
  <2>2. v = Changed(w, id, e, n)
    OBVIOUS
  <2>3. Loose(v) /\ LogStays(w, v) /\ v.entries = [w.entries EXCEPT ![id] = e] /\ v.live = n
    BY <1>0, <2>1, <2>2, ChangedLoose
  <2>. QED  BY <2>3
<1>2. Sound(x) /\ LogStays(v, x) /\ x.entries = v.entries /\ x.live = v.live
  BY <1>1, RebuildSound
<1>. HIDE DEF x
<1>3. Loose(x)
  BY <1>2 DEF Sound
<1>4. LogStays(u, x)
  <2>1. LogStays(u, v)
    BY <1>0, <1>1, LogStaysOn
  <2>. QED  BY <1>0, <1>1, <1>2, <1>3, <2>1, LogStaysOn
<1>5. x.entries = [u.entries EXCEPT ![id] = e] /\ x.live = n
  BY <1>1, <1>2
<1>6. Lively(x) /\ EntriesStay(u, x) /\ TracesFrom(u, x, texts)
  BY <1>0, <1>5, ChangedEntries
<1>7. x.width \in Widths
  BY <1>3, LooseType
<1>8. Moves(u, x, texts)
  BY <1>2, <1>4, <1>6, <1>7 DEF Moves
<1>. QED  BY <1>8 DEF x

\* append_thinking_delta
LEMMA ThinkingDeltaMoves ==
  ASSUME HeightIsCount, NEW u, Sound(u), Lively(u), NEW text \in Texts
  PROVE  Moves(u, ThinkingDelta(u, text), {})
<1>0. Loose(u) /\ u \in Transcripts /\ Len(u.entries) \in Nat /\ DOMAIN u.entries = 1..Len(u.entries)
  BY LooseType DEF Sound, Loose
<1>1. CASE u.live = 0
  <2>. DEFINE e == Thought(text, TRUE)
              w == NewEntry(u, e)
              v == [w EXCEPT !.live = Len(w.entries)]
  <2>1. e \in Entries /\ e.live /\ e.kind = "thinking"
    BY ThoughtType
  <2>2. v = ThinkingDelta(u, text)
    BY <1>1 DEF ThinkingDelta
  <2>. HIDE DEF e
  <2>3. Sound(w) /\ LogStays(u, w) /\ w.entries = Append(u.entries, e)
    BY <2>1, NewEntrySound
  <2>. HIDE DEF w
  <2>4. Len(w.entries) = Len(u.entries) + 1
    BY <1>0, <2>1, <2>3, LooseType, AppendProperties
  <2>a. Len(w.entries) \in Nat /\ v = [w EXCEPT !.live = Len(w.entries)]
    BY <1>0, <2>4
  <2>b. Sound(v) /\ LogStays(w, v) /\ v.entries = w.entries /\ v.live = Len(w.entries)
    BY <2>3, <2>a, LiveSound
  <2>5. Sound(v) /\ LogStays(w, v) /\ v.entries = w.entries /\ v.live = Len(u.entries) + 1
    BY <2>4, <2>b
  <2>. HIDE DEF v
  <2>6. LogStays(u, v)
    BY <1>0, <2>3, <2>5, LogStaysOn DEF Sound
  <2>7. Lively(v) /\ EntriesStay(u, v) /\ TracesFrom(u, v, {})
    BY <1>0, <1>1, <2>1, <2>3, <2>5, AppendedEntries DEF Closed
  <2>8. v.width \in Widths
    BY <2>5, LooseType DEF Sound
  <2>. QED  BY <2>2, <2>5, <2>6, <2>7, <2>8 DEF Moves
<1>2. CASE u.live # 0
  <2>. DEFINE w == CommitHeld(u)
              e == [u.entries[u.live] EXCEPT !.text = text]
              v == Changed(w, u.live, e, u.live)
  <2>1. Sound(w) /\ LogStays(u, w) /\ w.entries = u.entries /\ w.live = u.live
    BY CommitSound
  <2>2. u.live \in DOMAIN u.entries /\ u.live \in Nat
    BY <1>0, <1>2 DEF Lively
  <2>3. u.entries[u.live] \in Entries /\ u.entries[u.live].live /\ u.entries[u.live].kind = "thinking"
    BY <1>0, <2>2, LooseType DEF Lively
  <2>4. e \in Entries /\ e.live = u.entries[u.live].live /\ e.kind = u.entries[u.live].kind
    BY <2>3 DEF Entries
  <2>5. ThinkingDelta(u, text) = Rebuild(v)
    <3>1. ThinkingDelta(u, text) = Rebuild([w EXCEPT !.entries[u.live].text = text])
      BY <1>2 DEF ThinkingDelta
    <3>2. [w EXCEPT !.entries[u.live].text = text] = v
      <4>1. w \in Transcripts
        BY <2>1 DEF Sound, Loose
      <4>. HIDE DEF w
      <4>2. w.entries[u.live] = u.entries[u.live]
        BY <2>1
      <4>3. [w EXCEPT !.live = u.live] = w
        BY <2>1, <4>1 DEF Transcripts
      <4>. QED  BY <2>1, <4>1, <4>2, <4>3 DEF Changed, Transcripts
    <3>. QED  BY <3>1, <3>2
  <2>6. Closed(e) => e.text \in {}
    BY <2>3, <2>4 DEF Closed
  <2>. HIDE DEF w, e
  <2>7. Moves(u, Rebuild(v), {})
    BY <2>1, <2>2, <2>3, <2>4, <2>6, ChangedMoves
  <2>. QED  BY <2>5, <2>7
<1>. QED  BY <1>1, <1>2

\* append_thinking_trace
LEMMA ThinkingTraceMoves ==
  ASSUME HeightIsCount, NEW u, Sound(u), Lively(u), NEW text \in Texts
  PROVE  Moves(u, ThinkingTrace(u, text), {text})
<1>. DEFINE e == Thought(text, FALSE)
<1>0. Loose(u) /\ u \in Transcripts /\ Len(u.entries) \in Nat /\ DOMAIN u.entries = 1..Len(u.entries)
  BY LooseType DEF Sound, Loose
<1>1. e \in Entries /\ ~e.live /\ e.kind = "thinking" /\ e.text = text
  BY ThoughtType
<1>2. CASE u.live = 0
  <2>. DEFINE v == NewEntry(u, e)
  <2>1. v = ThinkingTrace(u, text)
    BY <1>2 DEF ThinkingTrace
  <2>. HIDE DEF e
  <2>2. Sound(v) /\ LogStays(u, v) /\ v.entries = Append(u.entries, e) /\ v.live = u.live
    BY <1>1, NewEntrySound
  <2>. HIDE DEF v
  <2>3. Lively(v) /\ EntriesStay(u, v) /\ TracesFrom(u, v, {text})
    BY <1>0, <1>1, <2>2, AppendedEntries
  <2>4. v.width \in Widths
    BY <2>2, LooseType DEF Sound
  <2>. QED  BY <2>1, <2>2, <2>3, <2>4 DEF Moves
<1>3. CASE u.live # 0
  <2>. DEFINE v == Changed(u, u.live, e, 0)
  <2>1. u.live \in DOMAIN u.entries
    BY <1>0, <1>3 DEF Lively
  <2>2. u.entries[u.live].live
    BY <2>1 DEF Lively
  <2>3. ThinkingTrace(u, text) = Rebuild(v)
    BY <1>0, <1>3 DEF ThinkingTrace, Changed, Transcripts
  <2>4. LogStays(u, u)
    BY <1>0, LooseType DEF LogStays
  <2>. HIDE DEF e
  <2>6. v = Changed(u, u.live, e, 0)
    OBVIOUS
  <2>. HIDE DEF v
  <2>7. 0 \in Nat /\ (0 = u.live \/ (0 = 0 /\ u.live = u.live))
    OBVIOUS
  <2>8. (e.live <=> 0 = u.live) /\ (e.live => e.kind = "thinking")
    BY <1>1, <1>3
  <2>9. ~u.entries[u.live].live => e.text = u.entries[u.live].text
    BY <2>2
  <2>11. e.text \in {text}
    BY <1>1
  <2>10. Closed(e) => \/ e.text \in {text}
                      \/ Closed(u.entries[u.live]) /\ e.text = u.entries[u.live].text
    BY <2>11
  <2>5. Moves(u, Rebuild(v), {text})
    BY <1>1, <2>1, <2>4, <2>6, <2>7, <2>8, <2>9, <2>10, ChangedMoves
  <2>. QED  BY <2>3, <2>5
<1>. QED  BY <1>2, <1>3

\* on_click
LEMMA ClickMoves ==
  ASSUME HeightIsCount, NEW u, Sound(u), Lively(u), NEW y
  PROVE  Moves(u, Click(u, y), {})
<1>. DEFINE hit == {i \in DOMAIN u.log : Above(u, i) < y /\ y <= Above(u, i) + u.log[i].rows}
            id  == IF hit = {} THEN 0 ELSE u.log[CHOOSE i \in hit : TRUE].id
<1>0. Loose(u) /\ u \in Transcripts /\ Len(u.entries) \in Nat /\ DOMAIN u.entries = 1..Len(u.entries)
      /\ u.live \in Nat
  BY LooseType DEF Sound, Loose
<1>1. LogStays(u, u)
  BY <1>0, LooseType DEF LogStays
<1>2. id \in 0..Len(u.entries)
  <2>1. CASE hit = {}
    BY <1>0, <2>1
  <2>2. CASE hit # {}
    <3>1. PICK i \in DOMAIN u.log : i = CHOOSE j \in hit : TRUE
      BY <2>2
    <3>. HIDE DEF hit
    <3>2. id = u.log[i].id
      BY <2>2, <3>1
    <3>. HIDE DEF id
    <3>. QED  BY <1>0, <3>2, LooseType
  <2>. QED  BY <2>1, <2>2
<1>3. Click(u, y) = IF id = 0 THEN u ELSE Rebuild([u EXCEPT !.entries[id].expanded = ~@])
  BY DEF Click
<1>. HIDE DEF hit, id
<1>4. CASE id = 0
  <2>1. Moves(u, u, {})
    BY <1>1, SameEntries
  <2>. QED  BY <1>3, <1>4, <2>1
<1>5. CASE id # 0
  <2>. DEFINE e == [u.entries[id] EXCEPT !.expanded = ~u.entries[id].expanded]
              v == Changed(u, id, e, u.live)
  <2>1. id \in DOMAIN u.entries
    BY <1>0, <1>2, <1>5
  <2>2. u.entries[id] \in Entries
    BY <1>0, <2>1, LooseType
  <2>3. /\ e \in Entries /\ e.live = u.entries[id].live /\ e.kind = u.entries[id].kind
        /\ e.text = u.entries[id].text
    BY <2>2 DEF Entries
  <2>4. [u EXCEPT !.entries[id].expanded = ~@] = v
    <3>1. [u EXCEPT !.live = u.live] = u
      BY <1>0 DEF Transcripts
    <3>. QED  BY <1>0, <3>1 DEF Changed, Transcripts
  <2>5. /\ u.entries[id].live <=> id = u.live
        /\ u.entries[id].live => u.entries[id].kind = "thinking"
    BY <2>1 DEF Lively
  <2>6. e.live <=> u.live = id
    BY <2>3, <2>5
  <2>7. Closed(e) => Closed(u.entries[id]) /\ e.text = u.entries[id].text
    BY <2>3 DEF Closed
  <2>. HIDE DEF e
  <2>9. v = Changed(u, id, e, u.live)
    OBVIOUS
  <2>. HIDE DEF v
  <2>10. (e.live => e.kind = "thinking") /\ (~u.entries[id].live => e.text = u.entries[id].text)
    BY <2>3, <2>5
  <2>11. Closed(e) => \/ e.text \in {}
                      \/ Closed(u.entries[id]) /\ e.text = u.entries[id].text
    BY <2>7
  <2>12. u.live \in Nat /\ (u.live = u.live \/ (u.live = 0 /\ u.live = id))
    BY <1>0
  <2>13. e \in Entries
    BY <2>3
  <2>8. Moves(u, Rebuild(v), {})
    BY <1>1, <2>1, <2>6, <2>9, <2>10, <2>11, <2>12, <2>13, ChangedMoves
  <2>. QED  BY <1>3, <1>5, <2>4, <2>8
<1>. QED  BY <1>4, <1>5

\* on_resize
LEMMA ResizeMoves ==
  ASSUME HeightIsCount, NEW u, Sound(u), Lively(u), NEW w \in Widths
  PROVE  Moves(u, Resize(u, w), {})
<1>. DEFINE rows == IF u.held = <<>> THEN <<>> ELSE Render(Head(u.held), w)
            v == [u EXCEPT !.width = w, !.heldRows = rows]
            x == Rebuild(v)
<1>0. Loose(u) /\ u \in Transcripts /\ u.held \in Seq(Views)
  BY LooseType DEF Sound, Loose
<1>1. rows \in Seq(Rows)
  <2>1. CASE u.held = <<>>
    BY <2>1, EmptySeq
  <2>2. CASE u.held # <<>>
    <3>1. Head(u.held) \in Views
      BY <1>0, <2>2, HeadTailProperties
    <3>. QED  BY <2>2, <3>1, RenderType
  <2>. QED  BY <2>1, <2>2
<1>2. x = Resize(u, w)
  BY <1>0 DEF Resize, Transcripts
<1>3. rows = IF u.held = <<>> THEN <<>> ELSE Render(Head(u.held), w)
  OBVIOUS
<1>. HIDE DEF rows
<1>4. /\ v.lines = u.lines /\ v.log = u.log /\ v.held = u.held /\ v.heldRows = rows
      /\ v.entries = u.entries /\ v.live = u.live /\ v.width = w /\ v \in Transcripts
  BY <1>0, <1>1 DEF Transcripts
<1>5. Loose(v)
  <2>1. v.heldRows = FlattenSeq(HeldRowsOf(v))
    <3>1. Len(v.held) <= 1
      BY <1>0, <1>4 DEF Loose
    <3>. QED  BY <1>3, <1>4, <3>1, HeldType
  <2>. QED  BY <1>0, <1>4, <2>1 DEF Loose
<1>6. LogStays(u, v)
  BY <1>0, <1>4, LooseType DEF LogStays
<1>. HIDE DEF v
<1>7. Sound(x) /\ LogStays(v, x) /\ x.entries = v.entries /\ x.live = v.live
  BY <1>5, RebuildSound
<1>. HIDE DEF x
<1>8. LogStays(u, x)
  BY <1>0, <1>5, <1>6, <1>7, LogStaysOn DEF Sound
<1>9. Moves(u, x, {})
  BY <1>4, <1>7, <1>8, SameEntries
<1>. QED  BY <1>2, <1>9

\* The empty transcript.
LEMMA EmptySound ==
  ASSUME NEW w \in Widths
  PROVE  Sound(Empty(w)) /\ Lively(Empty(w)) /\ Empty(w).entries = <<>> /\ Empty(w).log = <<>>
<1>. DEFINE u == Empty(w)
<1>1. /\ u.lines = <<>> /\ u.log = <<>> /\ u.held = <<>> /\ u.heldRows = <<>> /\ u.entries = <<>>
      /\ u.live = 0 /\ u.width = w
  BY DEF Empty
<1>2. u \in Transcripts
  <2>1. \A S : <<>> \in Seq(S)
    BY EmptySeq
  <2>. QED  BY <2>1 DEF Empty, Transcripts
<1>. HIDE DEF u
<1>3. DOMAIN <<>> = {} /\ Len(<<>>) = 0
  OBVIOUS
<1>4. RowsOf(u) = <<>> /\ HeldRowsOf(u) = <<>>
  BY <1>1, <1>3 DEF RowsOf, HeldRowsOf
<1>5. Loose(u)
  BY <1>1, <1>2, <1>3, <1>4, FlattenEmpty DEF Loose
<1>6. Faithful(u)
  BY <1>1, <1>3, <1>4, <1>5, FlattenEmpty, FaithfulParts
<1>7. Lively(u)
  BY <1>1, <1>3 DEF Lively
<1>. QED  BY <1>1, <1>5, <1>6, <1>7 DEF Sound, u

-----------------------------------------------------------------------------
(* The invariant.                                                          *)

Ops   == {"line", "hold", "commit", "discard", "expandable", "delta", "trace"}
Posts == [op: Ops, of: Texts]
Todos == [op: Ops \ {"trace"}, of: Texts, checked: BOOLEAN]

Apps    == [run: Nat, busy: BOOLEAN, cancelled: BOOLEAN, hard: BOOLEAN, talk: BOOLEAN,
            prompts: Nat, freed: Nat]
Labels  == {"idle", "ask", "think", "call", "dispatch", "tool", "decide", "result", "end",
            "followup", "report"} \cup Fds
Seniors == [pc: Labels, todo: Seq(Todos)]
Workers == [pc: Labels, req: {0} \cup Requests, tool: {0} \cup Tools, todo: Seq(Todos),
            stream: [Fds -> Texts], elders: Seq(Seniors)]
Asked   == [pc: {"none", "streaming", "done"}, run: Nat, thoughts: Nat, ok: BOOLEAN]
Called  == [pc: {"none", "shown", "running", "done"}, run: Nat, lines: Nat]

Typed ==
  /\ app \in Apps /\ buffer \in Texts /\ worker \in Workers
  /\ req \in [Requests -> Asked] /\ tool \in [Tools -> Called]
  /\ post \in [Threads -> Seq(Posts)] /\ late \in [Threads -> Nat]

\* The thread that the worker waits for.
Waiting ==
  /\ worker.pc \in {"think", "decide"} => worker.req \in Requests
  /\ worker.pc \in {"dispatch", "tool", "decide"} => worker.tool \in Tools
  /\ worker.pc = "call" => \E k \in Tools : tool[k].pc = "none"

\* A thread of a run that is given up may have passed its check once.
Silent ==
  \A h \in Threads \ {Worker} :
    /\ RunOf(h) <= app.run
    /\ Active(RunOf(h)) => late[h] = 0
    /\ late[h] <= 1 /\ (late[h] = 1 => Ready(h))

\* A thread that has not been started has done nothing.
Asleep(h) == \/ h \in Requests /\ req[h].pc = "none"
             \/ h \in Tools /\ tool[h].pc \in {"none", "shown"}
Unstarted == \A h \in Threads : Asleep(h) => late[h] = 0 /\ Ready(h)

\* A trace is all the thinking of a request that is over.
TraceOf(r, text) == r \in Requests /\ req[r].pc = "done" /\ text = Thoughts(r)
Owned ==
  /\ \A i \in DOMAIN t.entries :
       Closed(t.entries[i]) => \E r \in Requests : TraceOf(r, t.entries[i].text)
  /\ \A h \in Threads :
       ~Ready(h) /\ post[h][1].op = "trace" => TraceOf(h, post[h][1].of)

IInv == Typed /\ Sound(t) /\ Lively(t) /\ Waiting /\ Silent /\ Unstarted /\ Owned

-----------------------------------------------------------------------------
(* What a thread puts on screen.                                           *)

\* A summary is made of the lines, and of an ellipsis.
LEMMA SummaryType ==
  ASSUME NEW lines \in Texts
  PROVE  Summary(lines) \in Texts
<1>. DEFINE m == Len(lines) - MaxToolLines + 1
            n == Len(lines)
            last == SubSeq(lines, m, n)
<1>1. n \in Nat /\ m \in Int /\ n \in Int /\ lines \in Seq(Nat \X Nat)
  BY ChatDisplayAssumption, LenProperties DEF Texts
<1>2. CASE n <= MaxToolLines
  BY <1>2 DEF Summary
<1>3. CASE ~(n <= MaxToolLines)
  <2>1. \A i \in m..n : i \in 1..n
    BY <1>1, <1>3, ChatDisplayAssumption
  <2>2. \A i \in m..n : lines[i] \in Nat \X Nat
    BY <1>1, <2>1, ElementOfSeq
  <2>. HIDE DEF m, n
  <2>3. last \in Seq(Nat \X Nat)
    BY <1>1, <2>2, SubSeqProperties
  <2>. HIDE DEF last
  <2>4. <<Etc>> \in Seq(Nat \X Nat)
    BY DEF Etc
  <2>5. <<Etc>> \o last \in Seq(Nat \X Nat)
    BY <2>3, <2>4, ConcatProperties
  <2>. QED  BY <1>3, <2>5 DEF Summary, last, m, n, Texts
<1>. QED  BY <1>2, <1>3

LEMMA TextType ==
  ASSUME NEW of \in Texts
  PROVE  Text(of) \in Views
<1>. QED  BY DEF Text, Views

\* Every change that a handler posts is sound, and only a trace adds a trace.
LEMMA ChangeMoves ==
  ASSUME HeightIsCount, Sound(t), Lively(t), NEW op \in Ops, NEW of \in Texts
  PROVE  Moves(t, Change(op, of), IF op = "trace" THEN {of} ELSE {})
<1>1. CASE op = "line"
  <2>1. Moves(t, Write(t, Text(of)), {})
    BY TextType, WriteMoves
  <2>. QED  BY <1>1, <2>1 DEF Change
<1>2. CASE op = "hold"
  <2>1. Moves(t, Hold(t, Text(of)), {})
    BY TextType, HoldMoves
  <2>. QED  BY <1>2, <2>1 DEF Change
<1>3. CASE op = "discard"
  <2>1. Moves(t, Discard(t), {})
    BY TextType, HoldMoves
  <2>. QED  BY <1>3, <2>1 DEF Change
<1>4. CASE op = "expandable"
  <2>1. Moves(t, WriteExpandable(t, Summary(of), of), {})
    BY SummaryType, WriteExpandableMoves
  <2>. QED  BY <1>4, <2>1 DEF Change
<1>5. CASE op = "delta"
  <2>1. Moves(t, ThinkingDelta(t, of), {})
    BY ThinkingDeltaMoves
  <2>. QED  BY <1>5, <2>1 DEF Change
<1>6. CASE op = "trace"
  <2>1. Moves(t, ThinkingTrace(t, of), {of})
    BY ThinkingTraceMoves
  <2>. QED  BY <1>6, <2>1 DEF Change
<1>7. CASE op = "commit"
  <2>1. Moves(t, Commit(t, Text(of)), {})
    BY TextType, CommitMoves
  <2>. QED  BY <1>7, <2>1 DEF Change
<1>. QED  BY <1>1, <1>2, <1>3, <1>4, <1>5, <1>6, <1>7 DEF Ops

-----------------------------------------------------------------------------
(* What a step does to a thread.                                           *)

LEMMA Apart ==
  /\ Worker \notin Requests /\ Worker \notin Tools
  /\ \A r \in Requests : r \notin Tools /\ r \in Threads \ {Worker} /\ r \in Nat
  /\ \A k \in Tools : k \notin Requests /\ k \in Threads \ {Worker} /\ k \in Nat
  /\ \A h \in Threads \ {Worker} : h \in Requests \/ h \in Tools
<1>. QED  BY ChatDisplayAssumption DEF Worker, Requests, Tools, Threads

LEMMA Runs ==
  /\ \A r \in Requests : RunOf(r) = req[r].run /\ RunOf(r)' = req'[r].run
  /\ \A k \in Tools : RunOf(k) = tool[k].run /\ RunOf(k)' = tool'[k].run
  /\ RunOf(Worker) = app.run /\ RunOf(Worker)' = app'.run
<1>. QED  BY Apart DEF RunOf

LEMMA TypeParts ==
  ASSUME Typed
  PROVE  /\ app.run \in Nat /\ app.busy \in BOOLEAN /\ app.cancelled \in BOOLEAN /\ app.hard \in BOOLEAN
         /\ app.talk \in BOOLEAN /\ app.prompts \in Nat
         /\ worker.req \in {0} \cup Requests /\ worker.tool \in {0} \cup Tools
         /\ worker.todo \in Seq(Todos) /\ worker.pc \in Labels
         /\ worker.stream \in [Fds -> Texts] /\ worker.elders \in Seq(Seniors)
         /\ \A r \in Requests :
              /\ req[r].pc \in {"none", "streaming", "done"} /\ req[r].run \in Nat
              /\ req[r].thoughts \in Nat /\ req[r].ok \in BOOLEAN /\ req[r] \in Asked
         /\ \A k \in Tools :
              /\ tool[k].pc \in {"none", "shown", "running", "done"} /\ tool[k].run \in Nat
              /\ tool[k].lines \in Nat /\ tool[k] \in Called
         /\ \A h \in Threads : late[h] \in Nat /\ post[h] \in Seq(Posts)
<1>. QED  BY DEF Typed, Apps, Workers, Asked, Called

\* A step leaves a thread as it is, or starts it afresh.
Steady(h) ==
  /\ Asleep(h)' => Asleep(h)
  /\ late'[h] = late[h] \/ late'[h] = 0
  /\ h # Worker => /\ RunOf(h)' <= app'.run
                   /\ Active(RunOf(h))' => Active(RunOf(h)) \/ late'[h] = 0

\* It may post a change after a look at its run, which the worker leaves out.
Speaks(h) ==
  \/ post'[h] = post[h]
  \/ h = Worker /\ (Ready(h)' \/ post'[h][1].op # "trace")
  \/ /\ ~Asleep(h) /\ Active(RunOf(h))
     /\ post'[h][1].op = "trace" => TraceOf(h, post[h][1].of)'

\* Steps that leave every thread calm, and what is closed as it is.
LEMMA Calmly ==
  ASSUME IInv, Typed', Waiting', Sound(t)', Lively(t)',
         \A i \in DOMAIN t'.entries :
           Closed(t'.entries[i]) =>
             i \in DOMAIN t.entries /\ Closed(t.entries[i]) /\ t'.entries[i].text = t.entries[i].text,
         \A r \in Requests : req[r].pc = "done" => req'[r] = req[r],
         \A h \in Threads : Steady(h) /\ Speaks(h)
  PROVE  IInv'
<1>. USE DEF IInv
<1>1. \A r \in Requests : \A text : TraceOf(r, text) => TraceOf(r, text)'
  BY DEF TraceOf, Thoughts
<1>2. Silent'
  <2>. SUFFICES ASSUME NEW h \in Threads \ {Worker}
                PROVE  /\ RunOf(h)' <= app'.run
                       /\ Active(RunOf(h))' => late'[h] = 0
                       /\ late'[h] <= 1 /\ (late'[h] = 1 => Ready(h)')
    BY DEF Silent
  <2>1. late[h] \in Nat
    BY TypeParts
  <2>2. /\ Active(RunOf(h)) => late[h] = 0
        /\ late[h] <= 1 /\ (late[h] = 1 => Ready(h))
    BY DEF Silent
  <2>3. Steady(h) /\ Speaks(h)
    OBVIOUS
  <2>4. CASE late'[h] = 0
    BY <2>3, <2>4 DEF Steady, Speaks
  <2>5. CASE late'[h] = late[h] /\ late'[h] # 0
    <3>1. ~Active(RunOf(h)) /\ ~Active(RunOf(h))'
      BY <2>2, <2>3, <2>5 DEF Steady, Speaks
    <3>2. post'[h] = post[h]
      BY <2>3, <3>1 DEF Steady, Speaks
    <3>3. Ready(h) => Ready(h)'
      BY <3>2 DEF Ready
    <3>. QED  BY <2>2, <2>3, <2>5, <3>1, <3>3 DEF Steady, Speaks
  <2>. QED  BY <2>3, <2>4, <2>5 DEF Steady, Speaks
<1>3. Unstarted'
  <2>. SUFFICES ASSUME NEW h \in Threads, Asleep(h)'
                PROVE  late'[h] = 0 /\ Ready(h)'
    BY DEF Unstarted
  <2>1. Steady(h) /\ Speaks(h) /\ Asleep(h)
    BY DEF Steady
  <2>2. h # Worker
    BY <2>1, Apart DEF Asleep
  <2>3. late[h] = 0 /\ Ready(h)
    BY <2>1 DEF Unstarted
  <2>. QED  BY <2>1, <2>2, <2>3 DEF Steady, Speaks, Ready
<1>4. Owned'
  <2>1. ASSUME NEW i \in DOMAIN t'.entries, Closed(t'.entries[i])
        PROVE  \E r \in Requests : TraceOf(r, t.entries[i].text)'
    <3>1. i \in DOMAIN t.entries /\ Closed(t.entries[i]) /\ t'.entries[i].text = t.entries[i].text
      BY <2>1
    <3>2. PICK r \in Requests : TraceOf(r, t.entries[i].text)
      BY <3>1 DEF Owned
    <3>. QED  BY <1>1, <3>1, <3>2
  <2>2. ASSUME NEW h \in Threads, ~Ready(h)', post'[h][1].op = "trace"
        PROVE  TraceOf(h, post[h][1].of)'
    <3>1. Speaks(h)
      OBVIOUS
    <3>2. CASE post'[h] = post[h]
      <4>1. ~Ready(h) /\ post[h][1].op = "trace"
        BY <2>2, <3>2 DEF Ready
      <4>2. TraceOf(h, post[h][1].of)
        BY <4>1 DEF Owned
      <4>. QED  BY <3>2, <4>2, <1>1 DEF TraceOf
    <3>. QED  BY <2>2, <3>1, <3>2 DEF Steady, Speaks
  <2>. QED  BY <2>1, <2>2 DEF Owned, Closed
<1>. QED  BY <1>2, <1>3, <1>4

\* A thread that has not been started now, under flags that have not been cleared.
LEMMA SteadyOne ==
  ASSUME Silent, app'.run = app.run, app'.busy => app.busy, ~app'.cancelled => ~app.cancelled,
         NEW h \in Threads, late'[h] = late[h], RunOf(h)' = RunOf(h), Asleep(h)' => Asleep(h)
  PROVE  Steady(h)
<1>1. Active(RunOf(h))' => Active(RunOf(h))
  BY DEF Active
<1>2. h # Worker => RunOf(h)' <= app'.run
  BY DEF Silent
<1>. QED  BY <1>1, <1>2 DEF Steady

\* It is so for all of them when the requests and calls are for the runs they were for.
LEMMA SteadyAll ==
  ASSUME Silent, app'.run = app.run, app'.busy => app.busy, ~app'.cancelled => ~app.cancelled,
         late' = late,
         \A r \in Requests : req'[r].run = req[r].run /\ (req'[r].pc = "none" => req[r].pc = "none"),
         \A k \in Tools : /\ tool'[k].run = tool[k].run
                          /\ tool'[k].pc \in {"none", "shown"} => tool[k].pc \in {"none", "shown"}
  PROVE  \A h \in Threads : Steady(h)
<1>. SUFFICES ASSUME NEW h \in Threads
              PROVE  Steady(h)
  OBVIOUS
<1>1. RunOf(h)' = RunOf(h)
  <2>1. CASE h = Worker
    BY <2>1, Runs
  <2>2. CASE h \in Requests \/ h \in Tools
    BY <2>2, Runs
  <2>. QED  BY <2>1, <2>2, Apart
<1>2. Asleep(h)' => Asleep(h)
  BY DEF Asleep
<1>. QED  BY <1>1, <1>2, SteadyOne

\* Such a step, when the screen stays as it is.
LEMMA Quiet ==
  ASSUME IInv, Typed', Waiting', t' = t, late' = late,
         app'.run = app.run, app'.busy => app.busy, ~app'.cancelled => ~app.cancelled,
         \A r \in Requests : /\ req'[r].run = req[r].run
                             /\ req'[r].pc = "none" => req[r].pc = "none"
                             /\ req[r].pc = "done" => req'[r] = req[r],
         \A k \in Tools : /\ tool'[k].run = tool[k].run
                          /\ tool'[k].pc \in {"none", "shown"} => tool[k].pc \in {"none", "shown"},
         \A h \in Threads : Speaks(h)
  PROVE  IInv'
<1>1. \A h \in Threads : Steady(h)
  BY SteadyAll DEF IInv
<1>2. Sound(t)' /\ Lively(t)'
  <2>1. \A u : u = t => Sound(u) /\ Lively(u)
    BY DEF IInv
  <2>. QED  BY <2>1
<1>3. \A i \in DOMAIN t'.entries :
        Closed(t'.entries[i]) =>
          i \in DOMAIN t.entries /\ Closed(t.entries[i]) /\ t'.entries[i].text = t.entries[i].text
  OBVIOUS
<1>. QED  BY <1>1, <1>2, <1>3, Calmly

\* Only the worker goes on.
LEMMA WorkerOnly ==
  ASSUME IInv, worker' \in Workers, Waiting', UNCHANGED <<app, t, buffer, req, tool, post, late>>
  PROVE  IInv'
<1>1. Typed'
  BY DEF IInv, Typed
<1>2. \A h \in Threads : Speaks(h)
  BY DEF Speaks
<1>. QED  BY <1>1, <1>2, Quiet

LEMMA Posting ==
  ASSUME Typed, NEW h \in Threads, NEW op \in Ops, NEW of \in Texts, Post(h, op, of)
  PROVE  /\ post' \in [Threads -> Seq(Posts)]
         /\ \A g \in Threads : g # h => post'[g] = post[g]
         /\ post'[h] = <<[op |-> op, of |-> of]>> /\ post'[h][1].op = op /\ post'[h][1].of = of
<1>1. <<[op |-> op, of |-> of]>> \in Seq(Posts)
  BY DEF Posts
<1>2. post \in [Threads -> Seq(Posts)] /\ post' = [post EXCEPT ![h] = <<[op |-> op, of |-> of]>>]
  BY DEF Typed, Post
<1>. QED  BY <1>1, <1>2

\* The worker posts a change without a look at the run.
LEMMA WorkerPosts ==
  ASSUME Typed, NEW op \in Ops \ {"trace"}, NEW of \in Texts, Post(Worker, op, of)
  PROVE  post' \in [Threads -> Seq(Posts)] /\ \A h \in Threads : Speaks(h)
<1>1. Worker \in Threads
  BY DEF Threads
<1>. QED  BY <1>1, Posting DEF Speaks

\* A thread posts one after a look at it.
LEMMA ThreadEmits ==
  ASSUME Typed, NEW h \in Threads, ~Asleep(h), NEW op \in Ops \ {"trace"}, NEW of \in Texts,
         Emit(h, op, of)
  PROVE  post' \in [Threads -> Seq(Posts)] /\ \A g \in Threads : Speaks(g)
<1>1. CASE Active(RunOf(h))
  BY <1>1, Posting DEF Emit, Speaks
<1>2. CASE ~Active(RunOf(h))
  BY <1>2 DEF Emit, Speaks, Typed
<1>. QED  BY <1>1, <1>2

-----------------------------------------------------------------------------
(* The worker.                                                             *)

LEMMA Going ==
  ASSUME Typed, NEW label \in Labels, Goto(label)
  PROVE  /\ worker' \in Workers /\ worker'.pc = label /\ worker'.req = worker.req
         /\ worker'.tool = worker.tool /\ worker'.todo = worker.todo
<1>. QED  BY DEF Typed, Goto, Workers

\* No line was streamed.
LEMMA Silence == NoStream \in [Fds -> Texts] /\ <<>> \in Texts
<1>. QED  BY EmptySeq DEF NoStream, Texts

\* Where the worker waits for no thread.
LEMMA Unbound ==
  ASSUME worker'.pc \in {"idle", "ask", "stdout", "stderr", "result", "end", "followup", "report"}
  PROVE  Waiting'
<1>. QED  BY DEF Waiting

LEMMA GoingOn ==
  ASSUME IInv, NEW label \in {"idle", "ask", "result", "end", "followup", "report"}, Goto(label),
         UNCHANGED <<app, t, buffer, req, tool, post, late>>
  PROVE  IInv'
<1>1. label \in Labels
  BY DEF Labels
<1>2. worker' \in Workers /\ worker'.pc = label
  BY <1>1, Going DEF IInv
<1>. QED  BY <1>2, Unbound, WorkerOnly

LEMMA AbortKeeps == ASSUME IInv, Abort PROVE IInv'
<1>. QED  BY GoingOn DEF Abort

LEMMA ResultShownKeeps == ASSUME IInv, ResultShown PROVE IInv'
<1>. QED  BY GoingOn DEF ResultShown

LEMMA TakeReplyKeeps == ASSUME IInv, TakeReply PROVE IInv'
<1>1. CASE Goto("end")
  BY <1>1, GoingOn DEF TakeReply
<1>2. CASE Goto("call") /\ \E k \in Tools : tool[k].pc = "none"
  <2>1. worker' \in Workers /\ worker'.pc = "call"
    BY <1>2, Going DEF IInv, Labels
  <2>2. UNCHANGED <<app, t, buffer, req, tool, post, late>>
    BY DEF TakeReply
  <2>3. Waiting'
    BY <1>2, <2>1, <2>2 DEF Waiting
  <2>. QED  BY <2>1, <2>2, <2>3, WorkerOnly
<1>. QED  BY <1>1, <1>2 DEF TakeReply

LEMMA TakeDecisionKeeps == ASSUME IInv, TakeDecision PROVE IInv'
<1>1. UNCHANGED <<app, t, buffer, req, tool, post, late>> /\ worker.pc = "decide"
  BY DEF TakeDecision
<1>2. worker' \in Workers /\ worker'.pc = "tool" /\ worker'.tool = worker.tool
  BY Going DEF IInv, Labels, TakeDecision
<1>3. Waiting'
  BY <1>1, <1>2 DEF Waiting, IInv
<1>. QED  BY <1>1, <1>2, <1>3, WorkerOnly

LEMMA DispatchKeeps == ASSUME IInv, Dispatch PROVE IInv'
<1>. DEFINE k == worker.tool
<1>1. /\ UNCHANGED <<app, t, buffer, req, post, late>> /\ worker.pc = "dispatch"
      /\ tool' = [tool EXCEPT ![k].pc = "running"]
  BY DEF Dispatch
<1>2. worker' \in Workers /\ worker'.pc = "tool" /\ worker'.tool = worker.tool
  BY Going DEF IInv, Labels, Dispatch
<1>3. k \in Tools
  BY <1>1 DEF IInv, Waiting
<1>4. Waiting'
  BY <1>2, <1>3 DEF Waiting
<1>5. /\ tool' \in [Tools -> Called] /\ tool'[k].pc = "running" /\ tool'[k].run = tool[k].run
      /\ \A x \in Tools : x # k => tool'[x] = tool[x]
  BY <1>1, <1>3 DEF IInv, Typed, Called
<1>. HIDE DEF k
<1>6. Typed'
  BY <1>1, <1>2, <1>5 DEF IInv, Typed
<1>7. \A h \in Threads : Speaks(h)
  BY <1>1 DEF Speaks
<1>8. \A x \in Tools : /\ tool'[x].run = tool[x].run
                       /\ tool'[x].pc \in {"none", "shown"} => tool[x].pc \in {"none", "shown"}
  BY <1>5
<1>. QED  BY <1>1, <1>4, <1>6, <1>7, <1>8, Quiet

\* A nonempty set of numbers has a least one.
LEMMA Least ==
  ASSUME NEW S \in SUBSET Nat, S # {}
  PROVE  \E x \in S : \A y \in S : x <= y
<1>. DEFINE R == {p \in Nat \X Nat : p[1] < p[2]}
<1>1. PICK x \in S : \A y \in S : <<y, x>> \notin R
  <2>1. IsWellFoundedOn(R, Nat)
    BY LessIsWellFounded
  <2>. HIDE DEF R
  <2>. QED  BY <2>1, WFMin
<1>2. ASSUME NEW y \in S PROVE x <= y
  <2>1. <<y, x>> \notin R /\ x \in Nat /\ y \in Nat
    BY <1>1
  <2>2. ~(y < x)
    BY <2>1
  <2>. QED  BY <2>1, <2>2
<1>. QED  BY <1>2

\* The thread of a request has done nothing before, whichever run it is for.
LEMMA StartKeeps ==
  ASSUME IInv, NEW label \in {"think", "decide"}, Unused # {}, StartRequest(label),
         label = "decide" => worker.tool \in Tools,
         UNCHANGED <<app, t, buffer, tool, post, late>>
  PROVE  IInv'
<1>0. Typed /\ Silent /\ Unstarted
  BY DEF IInv
<1>1. PICK r \in Unused : /\ worker' = [worker EXCEPT !.pc = label, !.req = r]
                          /\ req' = [req EXCEPT ![r].pc = "streaming", ![r].run = app.run]
  <2>1. Unused \in SUBSET Nat
    BY Apart DEF Unused
  <2>2. \E x \in Unused : \A y \in Unused : x <= y
    BY <2>1, Least
  <2>. QED  BY <2>2 DEF StartRequest
<1>2. /\ worker' = [worker EXCEPT !.pc = label, !.req = r]
      /\ req' = [req EXCEPT ![r].pc = "streaming", ![r].run = app.run]
  BY <1>1
<1>3. r \in Requests /\ req[r].pc = "none" /\ r \in Threads /\ r # Worker
  BY <1>1, Apart DEF Unused
<1>4. /\ worker' \in Workers /\ worker'.pc = label /\ worker'.req = r /\ worker'.tool = worker.tool
  BY <1>0, <1>2, <1>3 DEF Typed, Workers, Labels
<1>5. /\ req' \in [Requests -> Asked] /\ req'[r].pc = "streaming" /\ req'[r].run = app.run
      /\ \A x \in Requests : x # r => req'[x] = req[x]
  BY <1>0, <1>2, <1>3, TypeParts DEF Typed, Asked
<1>6. Typed'
  BY <1>0, <1>4, <1>5 DEF Typed
<1>7. Waiting'
  BY <1>3, <1>4 DEF Waiting
<1>8. ASSUME NEW h \in Threads PROVE Steady(h) /\ Speaks(h)
  <2>1. CASE h = r
    <3>1. Asleep(r)
      BY <1>3 DEF Asleep
    <3>2. late'[r] = 0 /\ post'[r] = post[r]
      BY <1>0, <1>3, <3>1 DEF Unstarted
    <3>3. RunOf(r)' = app.run
      BY <1>3, <1>5, Runs
    <3>4. RunOf(r)' <= app'.run
      BY <1>0, <3>3, TypeParts
    <3>5. Steady(r)
      BY <3>1, <3>2, <3>4 DEF Steady
    <3>6. Speaks(r)
      BY <3>2 DEF Speaks
    <3>. QED  BY <2>1, <3>5, <3>6
  <2>2. CASE h # r
    <3>1. RunOf(h)' = RunOf(h)
      BY <1>5, <2>2, Runs, Apart
    <3>2. Asleep(h)' => Asleep(h)
      BY <1>5, <2>2 DEF Asleep
    <3>3. Steady(h)
      BY <1>0, <3>1, <3>2, SteadyOne
    <3>. QED  BY <3>3 DEF Speaks
  <2>. QED  BY <2>1, <2>2
<1>9. Sound(t)' /\ Lively(t)'
  <2>1. \A u : u = t => Sound(u) /\ Lively(u)
    BY DEF IInv
  <2>. QED  BY <2>1
<1>10. \A x \in Requests : req[x].pc = "done" => req'[x] = req[x]
  BY <1>3, <1>5
<1>. QED  BY <1>6, <1>7, <1>8, <1>9, <1>10, Calmly

LEMMA AskKeeps == ASSUME IInv, Ask PROVE IInv'
<1>1. CASE app.hard \/ Unused = {}
  BY <1>1, GoingOn DEF Ask
<1>2. CASE ~(app.hard \/ Unused = {})
  <2>1. "think" \in {"think", "decide"} /\ Unused # {} /\ StartRequest("think")
    BY <1>2 DEF Ask
  <2>2. UNCHANGED <<app, t, buffer, tool, post, late>>
    BY DEF Ask
  <2>. QED  BY <2>1, <2>2, StartKeeps
<1>. QED  BY <1>1, <1>2

LEMMA AskToWaitKeeps == ASSUME IInv, AskToWait PROVE IInv'
<1>1. worker.tool \in Tools
  BY DEF AskToWait, IInv, Waiting
<1>. QED  BY <1>1, StartKeeps DEF AskToWait

LEMMA CallToolKeeps == ASSUME IInv, CallTool PROVE IInv'
<1>0. Typed /\ Silent /\ Unstarted
  BY DEF IInv
<1>1. PICK k \in Tools : /\ tool[k].pc = "none" /\ worker' = [worker EXCEPT !.pc = "dispatch", !.tool = k, !.stream = NoStream]
                         /\ tool' = [tool EXCEPT ![k].pc = "shown", ![k].run = app.run]
                         /\ Emit(Worker, "line", <<<<k, 0>>>>)
  <2>1. \E x \in Tools : tool[x].pc = "none"
    BY DEF CallTool, IInv, Waiting
  <2>. QED  BY <2>1 DEF CallTool
<1>2. UNCHANGED <<app, t, buffer, req, late>>
  BY DEF CallTool
<1>3. k \in Threads /\ k # Worker /\ k \in Nat /\ Worker \in Threads
  BY Apart DEF Threads
<1>4. /\ worker' \in Workers /\ worker'.pc = "dispatch" /\ worker'.tool = k
  BY <1>0, <1>1, Silence DEF Typed, Workers, Labels
<1>5. /\ tool' \in [Tools -> Called] /\ tool'[k].run = app.run
      /\ \A x \in Tools : x # k => tool'[x] = tool[x]
  BY <1>0, <1>1, TypeParts DEF Typed, Called
<1>6. post' \in [Threads -> Seq(Posts)] /\ \A h \in Threads : Speaks(h)
  <2>1. <<<<k, 0>>>> \in Texts
    BY <1>3 DEF Texts
  <2>2. ~Asleep(Worker)
    BY Apart DEF Asleep
  <2>3. "line" \in Ops \ {"trace"}
    BY DEF Ops
  <2>. QED  BY <1>0, <1>1, <1>3, <2>1, <2>2, <2>3, ThreadEmits
<1>7. Typed'
  BY <1>0, <1>2, <1>4, <1>5, <1>6 DEF Typed
<1>8. Waiting'
  BY <1>4 DEF Waiting
<1>9. ASSUME NEW h \in Threads PROVE Steady(h)
  <2>1. CASE h = k
    <3>1. Asleep(k)
      BY <1>1 DEF Asleep
    <3>2. late'[k] = 0
      BY <1>0, <1>2, <1>3, <3>1 DEF Unstarted
    <3>3. RunOf(k)' = app.run
      BY <1>5, Runs
    <3>4. RunOf(k)' <= app'.run
      BY <1>0, <1>2, <3>3, TypeParts
    <3>. QED  BY <2>1, <3>1, <3>2, <3>4 DEF Steady
  <2>2. CASE h # k
    <3>1. RunOf(h)' = RunOf(h)
      BY <1>2, <1>5, <2>2, Runs, Apart
    <3>2. Asleep(h)' => Asleep(h)
      BY <1>2, <1>5, <2>2 DEF Asleep
    <3>. QED  BY <1>0, <1>2, <3>1, <3>2, SteadyOne
  <2>. QED  BY <2>1, <2>2
<1>10. Sound(t)' /\ Lively(t)'
  <2>1. \A u : u = t => Sound(u) /\ Lively(u)
    BY DEF IInv
  <2>. QED  BY <1>2, <2>1
<1>. QED  BY <1>2, <1>6, <1>7, <1>8, <1>9, <1>10, Calmly

\* What a result is shown with.
LEMMA ResultType ==
  ASSUME Typed, NEW k \in Tools
  PROVE  BashResult(k) \subseteq Seq(Todos) /\ OtherResult(k) \subseteq Seq(Todos)
<1>. DEFINE n == tool[k].lines
            lines == [i \in 1..n |-> <<k, i>>]
<1>1. n \in Nat /\ k \in Nat
  BY TypeParts, Apart
<1>2. lines \in Texts /\ Len(lines) = n /\ DOMAIN lines = 1..n /\ \A i \in 1..n : lines[i] \in Nat \X Nat
  <2>1. \A i \in 1..n : <<k, i>> \in Nat \X Nat
    BY <1>1
  <2>. QED  BY <1>1, <2>1 DEF Texts
<1>. HIDE DEF lines
<1>3. \A of \in Texts, op \in {"line", "discard", "expandable"} :
        Checked(op, of) \in Todos /\ Unchecked(op, of) \in Todos
  BY DEF Checked, Unchecked, Todos, Ops
<1>4. \A x \in Nat \X Nat : <<x>> \in Texts
  BY DEF Texts
<1>5. \A x \in Todos : <<x>> \in Seq(Todos)
  OBVIOUS
<1>6. <<>> \in Seq(Todos) /\ <<>> \in Texts
  BY EmptySeq DEF Texts
<1>7. OutputOf(k) \in Seq(Todos)
  <2>1. CASE n <= MaxToolLines
    <3>1. \A i \in 1..n : Checked("line", <<lines[i]>>) \in Todos
      BY <1>2, <1>3, <1>4
    <3>2. OutputOf(k) = [i \in 1..n |-> Checked("line", <<lines[i]>>)]
      BY <1>2, <2>1 DEF OutputOf, lines
    <3>. HIDE DEF n
    <3>. QED  BY <1>1, <3>1, <3>2
  <2>2. CASE ~(n <= MaxToolLines)
    <3>1. OutputOf(k) = <<Checked("expandable", lines)>>
      BY <1>2, <2>2 DEF OutputOf, lines
    <3>. QED  BY <1>2, <1>3, <1>5, <3>1
  <2>. QED  BY <2>1, <2>2
<1>8. <<<<k, 0>>>> \in Texts
  BY <1>1, <1>4
<1>. HIDE DEF n
<1>9. <<Unchecked("discard", <<>>)>> \in Seq(Todos) /\ <<Checked("line", <<<<k, 0>>>>)>> \in Seq(Todos)
      /\ <<Checked("expandable", <<<<k, 0>>>>)>> \in Seq(Todos)
  BY <1>3, <1>5, <1>6, <1>8
<1>10. ASSUME NEW error \in {<<>>, <<Checked("line", <<<<k, 0>>>>)>>}
       PROVE  <<Unchecked("discard", <<>>)>> \o OutputOf(k) \o error \in Seq(Todos)
  <2>1. error \in Seq(Todos)
    BY <1>6, <1>9
  <2>2. <<Unchecked("discard", <<>>)>> \o OutputOf(k) \in Seq(Todos)
    BY <1>7, <1>9, ConcatProperties
  <2>. QED  BY <2>1, <2>2, ConcatProperties
<1>11. BashResult(k) \subseteq Seq(Todos)
  BY <1>6, <1>10 DEF BashResult
<1>12. OtherResult(k) \subseteq Seq(Todos)
  BY <1>6, <1>9 DEF OtherResult
<1>. QED  BY <1>11, <1>12

LEMMA TakeResultKeeps == ASSUME IInv, TakeResult PROVE IInv'
<1>1. worker.tool \in Tools /\ worker \in Workers
  BY DEF TakeResult, IInv, Waiting, Typed
<1>2. PICK todo \in Seq(Todos) :
        \/ worker' = [worker EXCEPT !.pc = "result", !.todo = todo, !.stream = NoStream]
        \/ worker' = [worker EXCEPT !.pc = "stdout", !.todo = todo]
  BY <1>1, ResultType DEF TakeResult, IInv
<1>3. worker' \in Workers /\ worker'.pc \in {"result", "stdout"}
  BY <1>1, <1>2, Silence DEF Workers, Labels, Fds
<1>. QED  BY <1>3, Unbound, WorkerOnly DEF TakeResult

LEMMA CommitStreamKeeps == ASSUME IInv, CommitStream PROVE IInv'
<1>. DEFINE fd == worker.pc
<1>0. Typed /\ worker \in Workers /\ fd \in Fds /\ worker.stream \in [Fds -> Texts]
  BY TypeParts DEF IInv, Typed, CommitStream
<1>1. /\ UNCHANGED <<app, t, buffer, req, tool, late>>
      /\ worker' = [worker EXCEPT !.pc = IF fd = "stdout" THEN "stderr" ELSE "result",
                                 !.stream[fd] = <<>>]
      /\ worker.stream[fd] = <<>> \/ Emit(Worker, "commit", worker.stream[fd])
      /\ worker.stream[fd] = <<>> => UNCHANGED post
  BY DEF CommitStream
<1>. HIDE DEF fd
<1>2. worker' \in Workers /\ worker'.pc \in {"stderr", "result"}
  <2>1. [worker.stream EXCEPT ![fd] = <<>>] \in [Fds -> Texts]
    BY <1>0, Silence
  <2>2. \A pc \in {"stderr", "result"}, x \in [Fds -> Texts] :
          [worker EXCEPT !.pc = pc, !.stream = x] \in Workers
    BY <1>0 DEF Workers, Labels, Fds
  <2>3. PICK pc \in {"stderr", "result"} :
          worker' = [worker EXCEPT !.pc = pc, !.stream = [worker.stream EXCEPT ![fd] = <<>>]]
    BY <1>0, <1>1 DEF Workers
  <2>4. worker'.pc = pc
    BY <1>0, <2>3 DEF Workers
  <2>. QED  BY <2>1, <2>2, <2>3, <2>4
<1>3. post' \in [Threads -> Seq(Posts)] /\ \A h \in Threads : Speaks(h)
  <2>1. CASE UNCHANGED post
    BY <1>0, <2>1 DEF Typed, Speaks
  <2>2. CASE Emit(Worker, "commit", worker.stream[fd])
    <3>1. ~Asleep(Worker) /\ Worker \in Threads
      BY Apart DEF Asleep, Threads
    <3>2. "commit" \in Ops \ {"trace"} /\ worker.stream[fd] \in Texts
      BY <1>0 DEF Ops
    <3>. QED  BY <1>0, <2>2, <3>1, <3>2, ThreadEmits
  <2>. QED  BY <1>1, <2>1, <2>2
<1>4. Typed'
  BY <1>0, <1>1, <1>2, <1>3 DEF Typed
<1>5. Waiting'
  BY <1>2, Unbound
<1>. QED  BY <1>1, <1>3, <1>4, <1>5, Quiet

LEMMA TellKeeps == ASSUME IInv, Tell PROVE IInv'
<1>. DEFINE todo == Head(worker.todo)
<1>0. Typed
  BY DEF IInv
<1>1. worker.todo \in Seq(Todos) /\ worker.todo # <<>> /\ worker.pc \in {"result", "report"}
  BY <1>0, TypeParts DEF Tell
<1>2. todo \in Todos /\ Tail(worker.todo) \in Seq(Todos)
  BY <1>1, HeadTailProperties
<1>3. worker' \in Workers /\ worker'.pc \in {"result", "report"}
  BY <1>0, <1>1, <1>2 DEF Tell, Typed, Workers
<1>4. todo.op \in Ops \ {"trace"} /\ todo.of \in Texts
  BY <1>2 DEF Todos
<1>5. UNCHANGED <<app, t, buffer, req, tool, late>>
      /\ IF todo.checked THEN Emit(Worker, todo.op, todo.of) ELSE Post(Worker, todo.op, todo.of)
  BY DEF Tell
<1>. HIDE DEF todo
<1>6. post' \in [Threads -> Seq(Posts)] /\ \A h \in Threads : Speaks(h)
  <2>1. CASE todo.checked
    <3>1. ~Asleep(Worker) /\ Worker \in Threads
      BY Apart DEF Asleep, Threads
    <3>. QED  BY <1>0, <1>4, <1>5, <2>1, <3>1, ThreadEmits
  <2>2. CASE ~todo.checked
    BY <1>0, <1>4, <1>5, <2>2, WorkerPosts
  <2>. QED  BY <2>1, <2>2
<1>7. Typed'
  BY <1>0, <1>3, <1>5, <1>6 DEF Typed
<1>8. Waiting'
  BY <1>3, Unbound
<1>. QED  BY <1>5, <1>6, <1>7, <1>8, Quiet

LEMMA PopFollowupKeeps == ASSUME IInv, PopFollowup PROVE IInv'
<1>0. Typed /\ app.prompts \in Nat
  BY TypeParts DEF IInv
<1>1. UNCHANGED <<t, buffer, req, tool, late>> /\ Goto("followup")
      /\ Post(Worker, "line", <<<<0, app.prompts + 1>>>>)
      /\ app' = [app EXCEPT !.prompts = @ + 1, !.talk = TRUE]
  BY DEF PopFollowup
<1>2. worker' \in Workers /\ worker'.pc = "followup"
  BY <1>0, <1>1, Going DEF Labels
<1>3. app' \in Apps /\ app'.run = app.run /\ app'.busy = app.busy /\ app'.cancelled = app.cancelled
  <2>1. app \in Apps /\ app.prompts + 1 \in Nat
    BY <1>0 DEF Typed
  <2>2. \A n \in Nat : [app EXCEPT !.prompts = n, !.talk = TRUE] \in Apps
    BY <2>1 DEF Apps
  <2>3. app' = [app EXCEPT !.prompts = app.prompts + 1, !.talk = TRUE]
    BY <1>1
  <2>4. app'.run = app.run /\ app'.busy = app.busy /\ app'.cancelled = app.cancelled
    BY <2>1, <2>3 DEF Apps
  <2>. QED  BY <2>1, <2>2, <2>3, <2>4
<1>4. "line" \in Ops \ {"trace"} /\ <<<<0, app.prompts + 1>>>> \in Texts
  BY <1>0 DEF Ops, Texts
<1>5. post' \in [Threads -> Seq(Posts)] /\ \A h \in Threads : Speaks(h)
  BY <1>0, <1>1, <1>4, WorkerPosts
<1>6. Typed'
  BY <1>0, <1>1, <1>2, <1>3, <1>5 DEF Typed
<1>7. Waiting'
  BY <1>2, Unbound
<1>. QED  BY <1>1, <1>3, <1>5, <1>6, <1>7, Quiet

LEMMA ReportKeeps == ASSUME IInv, Report PROVE IInv'
<1>0. Typed
  BY DEF IInv
<1>1. UNCHANGED <<t, buffer, req, tool, post, late>> /\ app' = [app EXCEPT !.talk = TRUE]
      /\ worker' = [worker EXCEPT !.pc = "report", !.todo = <<Unchecked("line", <<<<0, 0>>>>)>>]
  BY DEF Report
<1>2. <<Unchecked("line", <<<<0, 0>>>>)>> \in Seq(Todos)
  <2>1. <<<<0, 0>>>> \in Texts
    BY DEF Texts
  <2>. QED  BY <2>1 DEF Unchecked, Todos, Ops
<1>3. worker' \in Workers /\ worker'.pc = "report"
  BY <1>0, <1>1, <1>2 DEF Typed, Workers, Labels
<1>4. app' \in Apps /\ app'.run = app.run /\ app'.busy = app.busy /\ app'.cancelled = app.cancelled
  BY <1>0, <1>1 DEF Typed, Apps
<1>5. Typed'
  BY <1>0, <1>1, <1>3, <1>4 DEF Typed
<1>6. Waiting' /\ \A h \in Threads : Speaks(h)
  BY <1>1, <1>3, Unbound DEF Speaks
<1>. QED  BY <1>1, <1>4, <1>5, <1>6, Quiet

\* A step that leaves the run, and its flags unless it ends it.
LEMMA Freeing ==
  ASSUME IInv, app' \in Apps, app'.run = app.run, app'.busy => app.busy,
         app'.cancelled = app.cancelled, worker' \in Workers, Waiting',
         UNCHANGED <<t, buffer, req, tool, post, late>>
  PROVE  IInv'
<1>1. Typed'
  BY DEF IInv, Typed
<1>2. \A h \in Threads : Speaks(h)
  BY DEF Speaks
<1>. QED  BY <1>1, <1>2, Quiet

\* Where the runtime gets its messages.
LEMMA Talking ==
  ASSUME Typed, app' = [app EXCEPT !.talk = TRUE]
  PROVE  app' \in Apps /\ app'.run = app.run /\ app'.busy = app.busy /\ app'.cancelled = app.cancelled
<1>. QED  BY DEF Typed, Apps

LEMMA UnheardKeeps == ASSUME IInv, Unheard PROVE IInv'
<1>1. Typed /\ app' = [app EXCEPT !.talk = TRUE] /\ Goto("idle") /\ "idle" \in Labels
  BY DEF IInv, Unheard, Labels
<1>2. worker' \in Workers /\ worker'.pc = "idle"
  BY <1>1, Going
<1>. QED  BY <1>1, <1>2, Talking, Unbound, Freeing DEF Unheard

LEMMA FreeKeeps == ASSUME IInv, Free PROVE IInv'
<1>0. Typed /\ app \in Apps /\ app.freed + 1 \in Nat
  BY DEF IInv, Typed, Apps
<1>1. UNCHANGED <<t, buffer, req, tool, post, late>> /\ Goto("idle") /\ "idle" \in Labels
  BY DEF Free, Labels
<1>2. worker' \in Workers /\ worker'.pc = "idle"
  BY <1>0, <1>1, Going
<1>3. app' \in Apps /\ app'.run = app.run /\ (app'.busy => app.busy) /\ app'.cancelled = app.cancelled
  <2>1. CASE app.busy
    <3>1. app' = [app EXCEPT !.busy = FALSE, !.freed = app.freed + 1]
      BY <2>1 DEF Free
    <3>2. \A n \in Nat : [app EXCEPT !.busy = FALSE, !.freed = n] \in Apps
      BY <1>0 DEF Apps
    <3>3. app'.run = app.run /\ app'.cancelled = app.cancelled
      BY <1>0, <3>1 DEF Apps
    <3>. QED  BY <1>0, <2>1, <3>1, <3>2, <3>3
  <2>2. CASE ~app.busy
    BY <1>0, <2>2 DEF Free
  <2>. QED  BY <2>1, <2>2
<1>. QED  BY <1>1, <1>2, <1>3, Unbound, Freeing

LEMMA SetBusyKeeps == ASSUME IInv, SetBusy PROVE IInv'
<1>0. app \in Apps /\ app.freed - 1 \in Nat /\ worker \in Workers
  BY DEF IInv, Typed, Apps, SetBusy
<1>1. app' = [app EXCEPT !.busy = FALSE, !.freed = app.freed - 1]
      /\ UNCHANGED <<t, buffer, worker, req, tool, post, late>>
  BY DEF SetBusy
<1>2. \A n \in Nat : [app EXCEPT !.busy = FALSE, !.freed = n] \in Apps
  BY <1>0 DEF Apps
<1>3. app'.run = app.run /\ app'.cancelled = app.cancelled /\ app'.busy = FALSE
  BY <1>0, <1>1 DEF Apps
<1>4. Waiting'
  BY <1>1 DEF IInv, Waiting
<1>. QED  BY <1>0, <1>1, <1>2, <1>3, <1>4, Freeing

\* The flags are cleared, and with them the counts of what was done under them.
LEMMA Clearing ==
  ASSUME IInv, worker' \in Workers, Waiting', UNCHANGED <<t, buffer, req, tool, post>>,
         late' = [h \in Threads |-> 0], app' = [app EXCEPT !.cancelled = FALSE, !.hard = FALSE]
  PROVE  IInv'
<1>0. Typed /\ Silent
  BY DEF IInv
<1>1. app' \in Apps /\ app'.run = app.run
  BY <1>0 DEF Typed, Apps
<1>2. Typed'
  BY <1>0, <1>1 DEF Typed
<1>3. ASSUME NEW h \in Threads PROVE Steady(h) /\ Speaks(h)
  <2>1. RunOf(h)' = RunOf(h)
    BY <1>1, Runs, Apart
  <2>2. h # Worker => RunOf(h)' <= app'.run
    BY <1>0, <1>1, <2>1 DEF Silent
  <2>3. late'[h] = 0
    OBVIOUS
  <2>4. Asleep(h)' => Asleep(h)
    BY DEF Asleep
  <2>. QED  BY <2>2, <2>3, <2>4 DEF Steady, Speaks
<1>4. Sound(t)' /\ Lively(t)'
  <2>1. \A u : u = t => Sound(u) /\ Lively(u)
    BY DEF IInv
  <2>. QED  BY <2>1
<1>. QED  BY <1>2, <1>3, <1>4, Calmly

LEMMA RunFollowupKeeps == ASSUME IInv, RunFollowup PROVE IInv'
<1>1. Typed /\ Goto("ask") /\ "ask" \in Labels
  BY DEF IInv, RunFollowup, Labels
<1>2. worker' \in Workers /\ worker'.pc = "ask"
  BY <1>1, Going
<1>. QED  BY <1>2, Unbound, Clearing DEF RunFollowup

-----------------------------------------------------------------------------
(* The threads of the requests and of the calls.                           *)

LEMMA ThoughtsType ==
  ASSUME Typed, NEW r \in Requests
  PROVE  Thoughts(r) \in Texts
<1>1. req[r].thoughts \in Nat /\ r \in Nat
  BY TypeParts, Apart
<1>2. \A i \in 1..req[r].thoughts : <<r, i>> \in Nat \X Nat
  BY <1>1
<1>. QED  BY <1>1, <1>2 DEF Thoughts, Texts

\* A request that streams.
LEMMA Streaming ==
  ASSUME IInv, NEW r \in Requests, req[r].pc = "streaming"
  PROVE  Typed /\ r \in Threads /\ ~Asleep(r) /\ r # Worker /\ RunOf(r) = req[r].run
<1>. QED  BY Apart, Runs DEF IInv, Asleep

LEMMA ThinkKeeps == ASSUME IInv, NEW r \in Requests, Think(r) PROVE IInv'
<1>1. req[r].pc = "streaming" /\ UNCHANGED <<app, t, worker, tool, late>> /\ Emit(r, "delta", buffer')
      /\ req' = [req EXCEPT ![r].thoughts = @ + 1]
  BY DEF Think
<1>2. Typed /\ r \in Threads /\ ~Asleep(r) /\ req[r].thoughts \in Nat /\ r \in Nat
  BY <1>1, Streaming, TypeParts, Apart
<1>3. buffer' \in Texts
  <2>1. buffer \in Seq(Nat \X Nat)
    BY <1>2 DEF Typed, Texts
  <2>2. <<r, req[r].thoughts + 1>> \in Nat \X Nat
    BY <1>2
  <2>3. Append(buffer, <<r, req[r].thoughts + 1>>) \in Seq(Nat \X Nat)
    BY <2>1, <2>2, AppendProperties
  <2>. QED  BY <2>1, <2>3 DEF Think, Texts
<1>4. /\ req' \in [Requests -> Asked] /\ req'[r].pc = "streaming" /\ req'[r].run = req[r].run
      /\ \A x \in Requests : x # r => req'[x] = req[x]
  <2>1. req \in [Requests -> Asked] /\ req[r] \in Asked /\ req[r].thoughts + 1 \in Nat
    BY <1>2 DEF Typed
  <2>2. req' = [req EXCEPT ![r] = [req[r] EXCEPT !.thoughts = req[r].thoughts + 1]]
    BY <1>1, <2>1
  <2>3. [req[r] EXCEPT !.thoughts = req[r].thoughts + 1] \in Asked
    BY <2>1 DEF Asked
  <2>4. req'[r] = [req[r] EXCEPT !.thoughts = req[r].thoughts + 1]
    BY <2>1, <2>2
  <2>5. req'[r].pc = req[r].pc /\ req'[r].run = req[r].run
    BY <2>1, <2>4 DEF Asked
  <2>. QED  BY <1>1, <2>1, <2>2, <2>3, <2>5
<1>5. post' \in [Threads -> Seq(Posts)] /\ \A h \in Threads : Speaks(h)
  <2>1. "delta" \in Ops \ {"trace"}
    BY DEF Ops
  <2>2. \A of \in Texts : Emit(r, "delta", of) => 
          post' \in [Threads -> Seq(Posts)] /\ \A h \in Threads : Speaks(h)
    BY <1>2, <2>1, ThreadEmits
  <2>. QED  BY <1>1, <1>3, <2>2
<1>6. Typed'
  BY <1>1, <1>2, <1>3, <1>4, <1>5 DEF Typed
<1>7. Waiting'
  BY <1>1 DEF Waiting, IInv
<1>8. \A x \in Requests : /\ req'[x].run = req[x].run
                          /\ req'[x].pc = "none" => req[x].pc = "none"
                          /\ req[x].pc = "done" => req'[x] = req[x]
  BY <1>1, <1>4
<1>. QED  BY <1>1, <1>5, <1>6, <1>7, <1>8, Quiet

\* The trace that a request ends with is what it thought, all of it.
LEMMA CloseKeeps ==
  ASSUME IInv, NEW r \in Requests, NEW ok \in BOOLEAN, req[r].pc = "streaming", Close(r, ok),
         UNCHANGED <<app, t, worker, tool, late>>
  PROVE  IInv'
<1>1. req' = [req EXCEPT ![r].pc = "done", ![r].ok = ok] /\ Complete(r, Thoughts(r))
  BY DEF Close
<1>2. Typed /\ r \in Threads /\ ~Asleep(r) /\ RunOf(r) = req[r].run
  BY <1>1, Streaming
<1>3. /\ req' \in [Requests -> Asked] /\ req'[r].pc = "done" /\ req'[r].run = req[r].run
      /\ req'[r].thoughts = req[r].thoughts
      /\ \A x \in Requests : x # r => req'[x] = req[x]
  BY <1>1, <1>2 DEF Typed, Asked
<1>4. TraceOf(r, Thoughts(r))'
  BY <1>3 DEF TraceOf
<1>5. Thoughts(r)' = Thoughts(r) /\ Thoughts(r) \in Texts
  BY <1>2, <1>3, ThoughtsType DEF Thoughts
<1>6. buffer' \in Texts /\ post' \in [Threads -> Seq(Posts)] /\ \A h \in Threads : Speaks(h)
  <2>1. CASE req[r].thoughts > 0 /\ Active(req[r].run)
    <3>1. buffer' = <<>> /\ Post(r, "trace", Thoughts(r))
      BY <1>1, <2>1 DEF Complete
    <3>2. <<>> \in Texts /\ "trace" \in Ops
      BY EmptySeq DEF Texts, Ops
    <3>3. /\ post' \in [Threads -> Seq(Posts)]
          /\ \A g \in Threads : g # r => post'[g] = post[g]
          /\ post'[r][1].of = Thoughts(r)
      <4>1. \A of \in Texts : Post(r, "trace", of) =>
              /\ post' \in [Threads -> Seq(Posts)]
              /\ \A g \in Threads : g # r => post'[g] = post[g]
              /\ post'[r][1].of = of
        BY <1>2, <3>2, Posting
      <4>. QED  BY <1>5, <3>1, <4>1
    <3>4. TraceOf(r, post[r][1].of)'
      BY <1>4, <1>5, <3>3 DEF TraceOf
    <3>5. Speaks(r)
      BY <1>2, <2>1, <3>4 DEF Speaks
    <3>6. \A g \in Threads : g # r => Speaks(g)
      BY <3>3 DEF Speaks
    <3>. QED  BY <3>1, <3>2, <3>3, <3>5, <3>6
  <2>2. CASE ~(req[r].thoughts > 0 /\ Active(req[r].run))
    BY <1>1, <1>2, <2>2 DEF Complete, Speaks, Typed
  <2>. QED  BY <2>1, <2>2
<1>7. Typed'
  BY <1>2, <1>3, <1>6 DEF Typed
<1>8. Waiting'
  BY DEF Waiting, IInv
<1>9. \A x \in Requests : /\ req'[x].run = req[x].run
                          /\ req'[x].pc = "none" => req[x].pc = "none"
                          /\ req[x].pc = "done" => req'[x] = req[x]
  BY <1>3
<1>. QED  BY <1>6, <1>7, <1>8, <1>9, Quiet

LEMMA RequestKeeps == ASSUME IInv, NEW r \in Requests, Request(r) PROVE IInv'
<1>. QED  BY ThinkKeeps, CloseKeeps DEF Request, StreamEnds, RequestFails

LEMMA OutputKeeps == ASSUME IInv, NEW k \in Tools, Output(k) PROVE IInv'
<1>. DEFINE n    == tool[k].lines + 1
            line == <<k, n>>
<1>1. tool[k].pc = "running" /\ UNCHANGED <<app, t, buffer, req, late>> /\ tool[k].lines < MaxOutput
      /\ tool' = [tool EXCEPT ![k].lines = n] /\ Emit(k, "hold", <<line>>)
      /\ \/ worker' = worker
         \/ worker' = [worker EXCEPT !.stream[Fd(line)] = <<line>>]
  BY DEF Output
<1>2. /\ Typed /\ k \in Threads /\ ~Asleep(k) /\ tool[k].lines \in Nat /\ k \in Nat
      /\ worker \in Workers /\ worker.stream \in [Fds -> Texts]
  BY <1>1, TypeParts, Apart DEF IInv, Asleep, Typed
<1>3. n \in Nat /\ n \in 1..MaxOutput
  BY <1>1, <1>2, ChatDisplayAssumption
<1>. HIDE DEF n
<1>4. /\ tool' \in [Tools -> Called] /\ tool'[k].pc = "running" /\ tool'[k].run = tool[k].run
      /\ \A x \in Tools : x # k => tool'[x] = tool[x]
  BY <1>1, <1>2, <1>3 DEF Typed, Called
<1>5. <<line>> \in Texts /\ Fd(line) \in Fds
  BY <1>2, <1>3, FdAssumption DEF Texts
<1>. HIDE DEF line
<1>6. post' \in [Threads -> Seq(Posts)] /\ \A h \in Threads : Speaks(h)
  <2>1. "hold" \in Ops \ {"trace"}
    BY DEF Ops
  <2>. QED  BY <1>1, <1>2, <1>5, <2>1, ThreadEmits
<1>7. worker' \in Workers /\ worker'.pc = worker.pc /\ worker'.req = worker.req /\ worker'.tool = worker.tool
  <2>1. CASE worker' = worker
    BY <1>2, <2>1
  <2>2. CASE worker' = [worker EXCEPT !.stream[Fd(line)] = <<line>>]
    <3>1. [worker.stream EXCEPT ![Fd(line)] = <<line>>] \in [Fds -> Texts]
      BY <1>2, <1>5
    <3>2. worker' = [worker EXCEPT !.stream = [worker.stream EXCEPT ![Fd(line)] = <<line>>]]
      BY <1>2, <2>2 DEF Workers
    <3>3. \A x \in [Fds -> Texts] : [worker EXCEPT !.stream = x] \in Workers
      BY <1>2 DEF Workers
    <3>4. worker'.pc = worker.pc /\ worker'.req = worker.req /\ worker'.tool = worker.tool
      BY <1>2, <3>2 DEF Workers
    <3>. QED  BY <3>1, <3>2, <3>3, <3>4
  <2>. QED  BY <1>1, <2>1, <2>2
<1>8. Typed'
  BY <1>1, <1>2, <1>4, <1>6, <1>7 DEF Typed
<1>9. \A x \in Tools : /\ tool'[x].run = tool[x].run /\ tool'[x].pc = tool[x].pc
  BY <1>1, <1>4
<1>10. Waiting'
  BY <1>7, <1>9 DEF Waiting, IInv
<1>. QED  BY <1>1, <1>6, <1>8, <1>9, <1>10, Quiet

LEMMA ToolEndsKeeps == ASSUME IInv, NEW k \in Tools, ToolEnds(k) PROVE IInv'
<1>1. tool[k].pc = "running" /\ UNCHANGED <<app, t, buffer, worker, req, post, late>>
      /\ tool' = [tool EXCEPT ![k].pc = "done"]
  BY DEF ToolEnds
<1>2. /\ tool' \in [Tools -> Called] /\ tool'[k].pc = "done" /\ tool'[k].run = tool[k].run
      /\ \A x \in Tools : x # k => tool'[x] = tool[x]
  BY <1>1 DEF IInv, Typed, Called
<1>3. Typed'
  BY <1>1, <1>2 DEF IInv, Typed
<1>4. \A x \in Tools : /\ tool'[x].run = tool[x].run
                       /\ tool'[x].pc \in {"none", "shown"} => tool[x].pc \in {"none", "shown"}
  BY <1>2
<1>5. Waiting'
  BY <1>1, <1>2 DEF Waiting, IInv
<1>6. \A h \in Threads : Speaks(h)
  BY <1>1 DEF Speaks
<1>. QED  BY <1>1, <1>3, <1>4, <1>5, <1>6, Quiet

-----------------------------------------------------------------------------
(* The user, and the user interface's thread.                              *)

\* The screen changes under the threads.
LEMMA ScreenOnly ==
  ASSUME IInv, Moves(t, t', {}), UNCHANGED <<app, buffer, req, tool, post, late>>,
         worker' \in Workers, worker'.pc = worker.pc, worker'.req = worker.req,
         worker'.tool = worker.tool
  PROVE  IInv'
<1>1. Typed' /\ Waiting'
  BY DEF IInv, Typed, Waiting
<1>2. \A h \in Threads : Speaks(h) /\ Steady(h)
  BY SteadyAll DEF Speaks, IInv
<1>3. Sound(t)' /\ Lively(t)'
  <2>1. \A u : Moves(t, u, {}) => Sound(u) /\ Lively(u)
    BY DEF Moves
  <2>. QED  BY <2>1
<1>4. \A i \in DOMAIN t'.entries :
        Closed(t'.entries[i]) =>
          i \in DOMAIN t.entries /\ Closed(t.entries[i]) /\ t'.entries[i].text = t.entries[i].text
  BY DEF Moves, TracesFrom
<1>. QED  BY <1>1, <1>2, <1>3, <1>4, Calmly

LEMMA ClickRowKeeps == ASSUME HeightIsCount, IInv, NEW y, ClickRow(y) PROVE IInv' /\ Moves(t, t', {})
<1>1. t' = Click(t, y) /\ UNCHANGED <<app, buffer, worker, req, tool, post, late>>
  BY DEF ClickRow
<1>2. Moves(t, t', {})
  BY <1>1, ClickMoves DEF IInv
<1>. QED  BY <1>1, <1>2, ScreenOnly DEF IInv, Typed

LEMMA ResizeToKeeps ==
  ASSUME HeightIsCount, IInv, NEW w \in Widths, ResizeTo(w) PROVE IInv' /\ Moves(t, t', {})
<1>1. t' = Resize(t, w) /\ UNCHANGED <<app, buffer, worker, req, tool, post, late>>
  BY DEF ResizeTo
<1>2. Moves(t, t', {})
  BY <1>1, ResizeMoves DEF IInv
<1>. QED  BY <1>1, <1>2, ScreenOnly DEF IInv, Typed

LEMMA CancelKeeps == ASSUME IInv, Cancel PROVE IInv'
<1>1. UNCHANGED <<t, buffer, worker, req, tool, post, late>>
      /\ app' = [app EXCEPT !.cancelled = TRUE, !.hard = TRUE]
  BY DEF Cancel
<1>2. app' \in Apps /\ app'.run = app.run /\ app'.busy = app.busy /\ app'.cancelled = TRUE
  BY <1>1 DEF IInv, Typed, Apps
<1>3. Typed' /\ Waiting'
  BY <1>1, <1>2 DEF IInv, Typed, Waiting
<1>4. \A h \in Threads : Speaks(h)
  BY <1>1 DEF Speaks
<1>. QED  BY <1>1, <1>2, <1>3, <1>4, Quiet

\* An empty transcript, or a line more.
LEMMA Emptied ==
  ASSUME Sound(t)
  PROVE  /\ Sound(Empty(t.width)) /\ Lively(Empty(t.width))
         /\ Empty(t.width).entries = <<>> /\ Empty(t.width).log = <<>>
<1>1. t.width \in Widths
  BY LooseType DEF Sound
<1>. QED  BY <1>1, EmptySound

LEMMA NewChatKeeps == ASSUME IInv, NewChat PROVE IInv' /\ t'.log = <<>>
<1>1. UNCHANGED <<buffer, worker, req, tool, post, late>> /\ t' = Empty(t.width)
      /\ app' = [app EXCEPT !.talk = FALSE]
  BY DEF NewChat
<1>2. app' \in Apps /\ app'.run = app.run /\ app'.busy = app.busy /\ app'.cancelled = app.cancelled
  BY <1>1 DEF IInv, Typed, Apps
<1>3. Typed' /\ Waiting'
  BY <1>1, <1>2 DEF IInv, Typed, Waiting
<1>4. \A h \in Threads : Speaks(h)
  BY <1>1 DEF Speaks
<1>5. \A h \in Threads : Steady(h)
  BY <1>1, <1>2, SteadyAll DEF IInv
<1>6. Sound(t)' /\ Lively(t)' /\ t'.entries = <<>> /\ t'.log = <<>>
  <2>1. \A u : u = Empty(t.width) => Sound(u) /\ Lively(u) /\ u.entries = <<>> /\ u.log = <<>>
    BY Emptied DEF IInv
  <2>. QED  BY <1>1, <2>1
<1>7. DOMAIN <<>> = {}
  OBVIOUS
<1>. QED  BY <1>1, <1>3, <1>4, <1>5, <1>6, <1>7, Calmly

\* A worker that has not left joins its elders with what it has yet to show.
LEMMA EldersType == ASSUME IInv PROVE Elders \in Seq(Seniors)
<1>. DEFINE change == post[Worker][1]
            shown  == IF Ready(Worker) THEN <<>> ELSE <<Unchecked(change.op, change.of)>>
            elder  == [pc |-> worker.pc, todo |-> shown \o worker.todo]
<1>0. Typed /\ Worker \in Threads /\ Worker \notin Requests
  BY Apart DEF IInv, Threads
<1>1. /\ worker.pc \in Labels /\ worker.todo \in Seq(Todos) /\ worker.elders \in Seq(Seniors)
      /\ post[Worker] \in Seq(Posts)
  BY <1>0, TypeParts
<1>2. shown \in Seq(Todos)
  <2>1. CASE Ready(Worker)
    BY <2>1, EmptySeq
  <2>2. CASE ~Ready(Worker)
    <3>1. change \in Posts
      BY <1>1, <2>2 DEF Ready
    <3>2. change.op # "trace"
      BY <1>0, <2>2 DEF IInv, Owned, TraceOf
    <3>3. Unchecked(change.op, change.of) \in Todos
      BY <3>1, <3>2 DEF Unchecked, Todos, Posts
    <3>. HIDE DEF change
    <3>. QED  BY <2>2, <3>3
  <2>. QED  BY <2>1, <2>2
<1>. HIDE DEF shown
<1>3. shown \o worker.todo \in Seq(Todos)
  BY <1>1, <1>2, ConcatProperties
<1>4. elder \in Seniors
  BY <1>1, <1>3 DEF Seniors
<1>5. Elders = IF worker.pc = "idle" THEN worker.elders ELSE Append(worker.elders, elder)
  BY DEF Elders, shown
<1>. HIDE DEF elder
<1>6. Append(worker.elders, elder) \in Seq(Seniors)
  BY <1>1, <1>4, AppendProperties
<1>. QED  BY <1>1, <1>5, <1>6

LEMMA SubmitKeeps ==
  ASSUME HeightIsCount, IInv, Submit
  PROVE  IInv' /\ (t'.log = <<>> \/ Moves(t, t', {}))
<1>0. Typed /\ Silent /\ app.run \in Nat /\ app.prompts \in Nat
  BY TypeParts DEF IInv
<1>1. /\ UNCHANGED <<req, tool, late>> /\ buffer' = <<>> /\ post' = [post EXCEPT ![Worker] = <<>>]
      /\ app' = [app EXCEPT !.run = @ + 1, !.prompts = @ + 1, !.busy = TRUE, !.cancelled = FALSE,
                            !.hard = FALSE]
      /\ worker' = [pc |-> "ask", req |-> 0, tool |-> 0, todo |-> <<>>, stream |-> NoStream,
                    elders |-> Elders]
      /\ t' = IF app.talk THEN Write(t, Text(<<<<0, app.prompts + 1>>>>)) ELSE Empty(t.width)
  BY DEF Submit
<1>2. app' \in Apps /\ app'.run = app.run + 1
  <2>1. app \in Apps /\ app.run + 1 \in Nat /\ app.prompts + 1 \in Nat
    BY <1>0 DEF Typed
  <2>2. app'.run = app.run + 1
    BY <1>1, <2>1 DEF Apps
  <2>3. app' \in Apps
    <3>1. \A m, n \in Nat :
            [app EXCEPT !.run = m, !.prompts = n, !.busy = TRUE, !.cancelled = FALSE, !.hard = FALSE] \in Apps
      BY <2>1 DEF Apps
    <3>2. app' = [app EXCEPT !.run = app.run + 1, !.prompts = app.prompts + 1, !.busy = TRUE,
                            !.cancelled = FALSE, !.hard = FALSE]
      BY <1>1
    <3>. QED  BY <2>1, <3>1, <3>2
  <2>. QED  BY <2>2, <2>3
<1>3. worker' \in Workers /\ worker'.pc = "ask" /\ buffer' \in Texts
  <2>1. <<>> \in Seq(Todos)
    BY EmptySeq
  <2>2. \A x \in Seq(Seniors) : [pc |-> "ask", req |-> 0, tool |-> 0, todo |-> <<>>,
                                stream |-> NoStream, elders |-> x] \in Workers
    BY <2>1, Silence DEF Workers, Labels
  <2>. QED  BY <1>1, <2>2, EldersType, Silence
<1>8. /\ post' \in [Threads -> Seq(Posts)] /\ post'[Worker] = <<>>
      /\ \A h \in Threads : h # Worker => post'[h] = post[h]
  <2>1. <<>> \in Seq(Posts) /\ Worker \in Threads
    BY EmptySeq DEF Threads
  <2>. QED  BY <1>0, <1>1, <2>1 DEF Typed
<1>4. Typed' /\ Waiting'
  BY <1>0, <1>1, <1>2, <1>3, <1>8, Unbound DEF Typed
<1>5. ASSUME NEW h \in Threads PROVE Speaks(h) /\ Steady(h)
  <2>1. h # Worker => RunOf(h)' = RunOf(h) /\ RunOf(h) \in Nat
    <3>1. req' = req /\ tool' = tool
      BY <1>1
    <3>2. \A r \in Requests : RunOf(r)' = RunOf(r) /\ RunOf(r) \in Nat
      BY <1>0, <3>1, Runs, TypeParts
    <3>3. \A k \in Tools : RunOf(k)' = RunOf(k) /\ RunOf(k) \in Nat
      BY <1>0, <3>1, Runs, TypeParts
    <3>. QED  BY <3>2, <3>3, Apart
  <2>2. h # Worker => RunOf(h)' <= app'.run /\ RunOf(h)' # app'.run
    BY <1>0, <1>2, <2>1 DEF Silent
  <2>3. h # Worker => ~Active(RunOf(h))'
    BY <2>2 DEF Active
  <2>4. Asleep(h)' => Asleep(h)
    BY <1>1 DEF Asleep
  <2>5. Speaks(h)
    BY <1>8 DEF Speaks, Ready
  <2>. QED  BY <1>1, <2>2, <2>3, <2>4, <2>5 DEF Steady
<1>6. CASE app.talk
  <2>1. <<<<0, app.prompts + 1>>>> \in Texts
    BY <1>0 DEF Texts
  <2>2. Moves(t, t', {})
    BY <1>1, <1>6, <2>1, TextType, WriteMoves DEF IInv
  <2>3. Sound(t)' /\ Lively(t)'
    <3>1. \A u : Moves(t, u, {}) => Sound(u) /\ Lively(u)
      BY DEF Moves
    <3>. QED  BY <2>2, <3>1
  <2>4. \A i \in DOMAIN t'.entries :
          Closed(t'.entries[i]) =>
            i \in DOMAIN t.entries /\ Closed(t.entries[i]) /\ t'.entries[i].text = t.entries[i].text
    BY <2>2 DEF Moves, TracesFrom
  <2>. QED  BY <1>1, <1>4, <1>5, <2>2, <2>3, <2>4, Calmly
<1>7. CASE ~app.talk
  <2>1. Sound(t)' /\ Lively(t)' /\ t'.entries = <<>> /\ t'.log = <<>>
    <3>1. \A u : u = Empty(t.width) => Sound(u) /\ Lively(u) /\ u.entries = <<>> /\ u.log = <<>>
      BY Emptied DEF IInv
    <3>. QED  BY <1>1, <1>7, <3>1
  <2>2. DOMAIN <<>> = {}
    OBVIOUS
  <2>. QED  BY <1>1, <1>4, <1>5, <2>1, <2>2, Calmly
<1>. QED  BY <1>6, <1>7

\* A change is shown: the count of what a thread of a run given up did goes to one,
\* and the thread is free to look at its run again.
LEMMA ShowKeeps ==
  ASSUME HeightIsCount, IInv, NEW h \in Threads, Show(h)
  PROVE  IInv' /\ \E texts : Moves(t, t', texts)
<1>. DEFINE op == post[h][1].op
            of == post[h][1].of
            texts == IF op = "trace" THEN {of} ELSE {}
<1>0. Typed /\ Silent /\ Unstarted /\ Owned
  BY DEF IInv
<1>1. /\ ~Ready(h) /\ t' = Change(op, of) /\ post' = [post EXCEPT ![h] = <<>>]
      /\ late' = IF h # Worker /\ ~Active(RunOf(h)) THEN [late EXCEPT ![h] = @ + 1] ELSE late
      /\ UNCHANGED <<app, buffer, worker, req, tool>>
  BY DEF Show
<1>2. op \in Ops /\ of \in Texts
  <2>1. post[h] \in Seq(Posts) /\ post[h] # <<>>
    BY <1>0, <1>1, TypeParts DEF Ready
  <2>2. post[h][1] \in Posts
    BY <2>1
  <2>. QED  BY <2>2 DEF Posts
<1>. HIDE DEF op, of
<1>3. Moves(t, t', texts)
  BY <1>1, <1>2, ChangeMoves DEF IInv
<1>4. /\ post' \in [Threads -> Seq(Posts)] /\ post'[h] = <<>>
      /\ \A g \in Threads : g # h => post'[g] = post[g]
  <2>1. <<>> \in Seq(Posts)
    BY EmptySeq
  <2>. QED  BY <1>0, <1>1, <2>1 DEF Typed
<1>5. /\ late' \in [Threads -> Nat] /\ \A g \in Threads : g # h => late'[g] = late[g]
      /\ late'[h] = IF h # Worker /\ ~Active(RunOf(h)) THEN late[h] + 1 ELSE late[h]
  BY <1>0, <1>1 DEF Typed
<1>6. Typed' /\ Waiting'
  BY <1>0, <1>1, <1>4, <1>5 DEF Typed, Waiting, IInv
<1>7. \A g \in Threads : RunOf(g)' = RunOf(g) /\ (Asleep(g)' <=> Asleep(g))
                         /\ (Active(RunOf(g))' <=> Active(RunOf(g)))
  BY <1>1 DEF RunOf, Asleep, Active
<1>8. Silent'
  <2>. SUFFICES ASSUME NEW g \in Threads \ {Worker}
                PROVE  /\ RunOf(g)' <= app'.run
                       /\ Active(RunOf(g))' => late'[g] = 0
                       /\ late'[g] <= 1 /\ (late'[g] = 1 => Ready(g)')
    BY DEF Silent
  <2>1. /\ RunOf(g) <= app.run /\ (Active(RunOf(g)) => late[g] = 0)
        /\ late[g] <= 1 /\ (late[g] = 1 => Ready(g))
    BY <1>0 DEF Silent
  <2>2. CASE g # h
    <3>1. Ready(g) => Ready(g)'
      BY <1>4, <2>2 DEF Ready
    <3>. QED  BY <1>1, <1>5, <1>7, <2>1, <2>2, <3>1
  <2>3. CASE g = h
    <3>1. late[h] \in Nat /\ late[h] # 1
      BY <1>0, <1>1, <2>1, <2>3, TypeParts
    <3>2. late[h] = 0
      BY <2>1, <2>3, <3>1
    <3>3. late'[h] <= 1 /\ (Active(RunOf(h)) => late'[h] = 0)
      BY <1>5, <3>2
    <3>4. Ready(h)'
      BY <1>4 DEF Ready
    <3>. QED  BY <1>1, <1>7, <2>1, <2>3, <3>3, <3>4
  <2>. QED  BY <2>2, <2>3
<1>9. Unstarted'
  <2>. SUFFICES ASSUME NEW g \in Threads, Asleep(g)
                PROVE  late'[g] = 0 /\ Ready(g)'
    BY <1>7 DEF Unstarted
  <2>1. late[g] = 0 /\ Ready(g)
    BY <1>0 DEF Unstarted
  <2>2. g # h
    BY <1>1, <2>1
  <2>. QED  BY <1>4, <1>5, <2>1, <2>2 DEF Ready
<1>10. \A r \in Requests : \A x : TraceOf(r, x)' <=> TraceOf(r, x)
  BY <1>1 DEF TraceOf, Thoughts
<1>11. Owned'
  <2>1. ASSUME NEW i \in DOMAIN t'.entries, Closed(t'.entries[i])
        PROVE  \E r \in Requests : TraceOf(r, t'.entries[i].text)
    <3>1. \/ t'.entries[i].text \in texts
          \/ i \in DOMAIN t.entries /\ Closed(t.entries[i]) /\ t'.entries[i].text = t.entries[i].text
      BY <1>3, <2>1 DEF Moves, TracesFrom
    <3>2. CASE t'.entries[i].text \in texts
      <4>1. op = "trace" /\ t'.entries[i].text = of
        BY <3>2
      <4>2. TraceOf(h, of)
        BY <1>0, <1>1, <4>1 DEF Owned, op, of
      <4>. QED  BY <4>1, <4>2 DEF TraceOf
    <3>3. CASE i \in DOMAIN t.entries /\ Closed(t.entries[i]) /\ t'.entries[i].text = t.entries[i].text
      BY <1>0, <3>3 DEF Owned
    <3>. QED  BY <3>1, <3>2, <3>3
  <2>2. ASSUME NEW g \in Threads, ~Ready(g)', post'[g][1].op = "trace"
        PROVE  TraceOf(g, post[g][1].of)'
    <3>1. g # h /\ post'[g] = post[g]
      BY <1>4, <2>2 DEF Ready
    <3>2. TraceOf(g, post[g][1].of)
      BY <1>0, <2>2, <3>1 DEF Owned, Ready
    <3>. QED  BY <1>1, <3>1, <3>2 DEF TraceOf, Thoughts
  <2>3. ASSUME NEW i \in DOMAIN t'.entries, Closed(t'.entries[i])
        PROVE  \E r \in Requests : TraceOf(r, t.entries[i].text)'
    <3>1. PICK r \in Requests : TraceOf(r, t'.entries[i].text)
      BY <2>1, <2>3
    <3>. QED  BY <1>1, <3>1 DEF TraceOf, Thoughts
  <2>. QED  BY <2>2, <2>3 DEF Owned, Closed
<1>12. Sound(t)' /\ Lively(t)'
  <2>1. \A u : Moves(t, u, texts) => Sound(u) /\ Lively(u)
    BY DEF Moves
  <2>. QED  BY <1>3, <2>1
<1>. QED  BY <1>3, <1>6, <1>8, <1>9, <1>11, <1>12 DEF IInv

-----------------------------------------------------------------------------
(* The elders.                                                             *)

LEMMA ElderParts ==
  ASSUME Typed, NEW i \in DOMAIN worker.elders
  PROVE  /\ worker.elders[i] \in Seniors /\ worker.elders[i].pc \in Labels
         /\ worker.elders[i].todo \in Seq(Todos)
<1>1. worker.elders \in Seq(Seniors)
  BY TypeParts
<1>2. worker.elders[i] \in Seniors
  BY <1>1
<1>. QED  BY <1>2 DEF Seniors

\* What an elder does leaves the worker where it is.
LEMMA ElderGoes ==
  ASSUME Typed, NEW i \in DOMAIN worker.elders, NEW e \in Seniors,
         worker' = [worker EXCEPT !.elders = [worker.elders EXCEPT ![i] = e]]
  PROVE  /\ worker' \in Workers /\ worker'.pc = worker.pc /\ worker'.req = worker.req
         /\ worker'.tool = worker.tool
<1>. DEFINE elders == [worker.elders EXCEPT ![i] = e]
<1>1. worker \in Workers /\ worker.elders \in Seq(Seniors)
  BY TypeParts DEF Typed
<1>2. elders \in Seq(Seniors)
  BY <1>1, ExceptSeq
<1>. HIDE DEF elders
<1>3. \A x \in Seq(Seniors) : [worker EXCEPT !.elders = x] \in Workers
  BY <1>1 DEF Workers
<1>4. worker' = [worker EXCEPT !.elders = elders]
  BY DEF elders
<1>. QED  BY <1>1, <1>2, <1>3, <1>4 DEF Workers

LEMMA ElderShowsKeeps ==
  ASSUME HeightIsCount, IInv, NEW i \in DOMAIN worker.elders, ElderShows(i)
  PROVE  IInv' /\ Moves(t, t', {})
<1>. DEFINE todo == Head(worker.elders[i].todo)
            e    == [worker.elders[i] EXCEPT !.todo = Tail(worker.elders[i].todo)]
<1>0. Typed /\ worker \in Workers /\ worker.elders \in Seq(Seniors)
  BY TypeParts DEF IInv, Typed
<1>1. worker.elders[i] \in Seniors /\ worker.elders[i].todo \in Seq(Todos)
  BY <1>0, ElderParts
<1>2. todo \in Todos /\ Tail(worker.elders[i].todo) \in Seq(Todos)
  BY <1>1, HeadTailProperties DEF ElderShows
<1>3. e \in Seniors
  BY <1>1, <1>2 DEF Seniors
<1>4. worker' = [worker EXCEPT !.elders = [worker.elders EXCEPT ![i] = e]]
  BY <1>0, <1>1 DEF ElderShows, Workers, Seniors
<1>. HIDE DEF e
<1>5. /\ worker' \in Workers /\ worker'.pc = worker.pc /\ worker'.req = worker.req
      /\ worker'.tool = worker.tool
  BY <1>0, <1>3, <1>4, ElderGoes
<1>6. todo.op \in Ops /\ todo.op # "trace" /\ todo.of \in Texts
  BY <1>2 DEF Todos
<1>7. t' = (IF todo.checked THEN t ELSE Change(todo.op, todo.of))
      /\ UNCHANGED <<app, buffer, req, tool, post, late>>
  BY DEF ElderShows
<1>. HIDE DEF todo
<1>8. Moves(t, t', {})
  <2>1. CASE todo.checked
    BY <1>7, <2>1, SelfMoves DEF IInv
  <2>2. CASE ~todo.checked
    BY <1>6, <1>7, <2>2, ChangeMoves DEF IInv
  <2>. QED  BY <2>1, <2>2
<1>. QED  BY <1>5, <1>7, <1>8, ScreenOnly

\* An elder that goes on to another place.
LEMMA ElderTo ==
  ASSUME IInv, NEW i \in DOMAIN worker.elders, NEW label \in Labels,
         worker' = [worker EXCEPT !.elders[i].pc = label], UNCHANGED tool
  PROVE  worker' \in Workers /\ Waiting'
<1>. DEFINE e == [worker.elders[i] EXCEPT !.pc = label]
<1>0. Typed /\ worker \in Workers /\ worker.elders \in Seq(Seniors)
  BY TypeParts DEF IInv, Typed
<1>1. worker.elders[i] \in Seniors
  BY <1>0, ElderParts
<1>2. e \in Seniors
  BY <1>1 DEF Seniors
<1>3. worker' = [worker EXCEPT !.elders = [worker.elders EXCEPT ![i] = e]]
  BY <1>0, <1>1 DEF Workers, Seniors
<1>. HIDE DEF e
<1>4. /\ worker' \in Workers /\ worker'.pc = worker.pc /\ worker'.req = worker.req
      /\ worker'.tool = worker.tool
  BY <1>0, <1>2, <1>3, ElderGoes
<1>. QED  BY <1>4 DEF IInv, Waiting

LEMMA ElderRunsKeeps == ASSUME IInv, NEW i \in DOMAIN worker.elders, ElderRuns(i) PROVE IInv'
<1>1. "ask" \in Labels /\ worker' = [worker EXCEPT !.elders[i].pc = "ask"] /\ UNCHANGED tool
  BY DEF Labels, ElderRuns
<1>2. worker' \in Workers /\ Waiting'
  BY <1>1, ElderTo
<1>. QED  BY <1>2, Clearing DEF ElderRuns

LEMMA ElderLeavesKeeps == ASSUME IInv, NEW i \in DOMAIN worker.elders, ElderLeaves(i) PROVE IInv'
<1>0. Typed /\ app \in Apps
  BY DEF IInv, Typed
<1>1. "idle" \in Labels /\ worker' = [worker EXCEPT !.elders[i].pc = "idle"] /\ UNCHANGED tool
  BY DEF Labels, ElderLeaves
<1>2. worker' \in Workers /\ Waiting'
  BY <1>1, ElderTo
<1>3. app' = app \/ app' = [app EXCEPT !.talk = TRUE]
  BY DEF ElderLeaves
<1>4. app' \in Apps /\ app'.run = app.run /\ app'.busy = app.busy /\ app'.cancelled = app.cancelled
  BY <1>0, <1>3, Talking
<1>. QED  BY <1>2, <1>4, Freeing DEF ElderLeaves

-----------------------------------------------------------------------------
(* The invariant holds.                                                    *)

LEMMA InitInv == Init => IInv
<1>. SUFFICES ASSUME Init PROVE IInv
  OBVIOUS
<1>1. \A S : <<>> \in Seq(S)
  BY EmptySeq
<1>2. Typed
  <2>1. app \in Apps /\ buffer \in Texts
    BY <1>1 DEF Init, Apps, Texts
  <2>2. worker \in Workers
    BY <1>1, Silence DEF Init, Workers, Labels
  <2>3. req \in [Requests -> Asked] /\ tool \in [Tools -> Called]
    BY DEF Init, Asked, Called
  <2>4. post \in [Threads -> Seq(Posts)] /\ late \in [Threads -> Nat]
    BY <1>1 DEF Init
  <2>. QED  BY <2>1, <2>2, <2>3, <2>4 DEF Typed
<1>3. Sound(t) /\ Lively(t) /\ t.entries = <<>>
  BY EmptySound, ChatDisplayAssumption DEF Init
<1>4. Waiting
  BY DEF Init, Waiting
<1>5. \A h \in Threads : Ready(h) /\ late[h] = 0
  BY DEF Init, Ready
<1>6. Unstarted
  BY <1>5 DEF Unstarted
<1>7. Owned
  <2>1. DOMAIN <<>> = {}
    OBVIOUS
  <2>. QED  BY <1>3, <1>5, <2>1 DEF Owned
<1>8. Silent
  <2>1. \A h \in Threads \ {Worker} : RunOf(h) = 0
    <3>1. \A r \in Requests : req[r].run = 0
      BY DEF Init
    <3>2. \A k \in Tools : tool[k].run = 0
      BY DEF Init
    <3>. QED  BY <3>1, <3>2, Runs, Apart
  <2>2. app.run = 0
    BY DEF Init
  <2>. QED  BY <1>5, <2>1, <2>2 DEF Silent
<1>. QED  BY <1>2, <1>3, <1>4, <1>6, <1>7, <1>8 DEF IInv

LEMMA WorkKeeps == ASSUME IInv, Work PROVE IInv'
<1>. QED  BY AskKeeps, AbortKeeps, TakeReplyKeeps, CallToolKeeps, DispatchKeeps, AskToWaitKeeps,
             TakeDecisionKeeps, TakeResultKeeps, CommitStreamKeeps, TellKeeps, ResultShownKeeps,
             PopFollowupKeeps, RunFollowupKeeps, ReportKeeps, UnheardKeeps, FreeKeeps DEF Work

LEMMA UserKeeps == ASSUME HeightIsCount, IInv, User PROVE IInv'
<1>. QED  BY SubmitKeeps, NewChatKeeps, CancelKeeps, ClickRowKeeps, ResizeToKeeps DEF User

LEMMA StutterKeeps == ASSUME IInv, UNCHANGED vars PROVE IInv'
<1>1. worker' \in Workers /\ UNCHANGED <<app, t, buffer, req, tool, post, late>>
  BY DEF vars, IInv, Typed
<1>2. Waiting'
  BY DEF vars, IInv, Waiting
<1>. QED  BY <1>1, <1>2, WorkerOnly

LEMMA Step == ASSUME HeightIsCount PROVE IInv /\ [Next]_vars => IInv'
<1>. SUFFICES ASSUME IInv, [Next]_vars
              PROVE  IInv'
  OBVIOUS
<1>1. CASE User \/ Work \/ SetBusy
  BY <1>1, UserKeeps, WorkKeeps, SetBusyKeeps
<1>2. CASE \E h \in Threads : Show(h)
  BY <1>2, ShowKeeps
<1>3. CASE \E r \in Requests : Request(r)
  BY <1>3, RequestKeeps
<1>4. CASE \E k \in Tools : Output(k) \/ ToolEnds(k)
  BY <1>4, OutputKeeps, ToolEndsKeeps
<1>5. CASE UNCHANGED vars
  BY <1>5, StutterKeeps
<1>6. CASE \E i \in DOMAIN worker.elders : Elder(i)
  BY <1>6, ElderShowsKeeps, ElderRunsKeeps, ElderLeavesKeeps DEF Elder
<1>. QED  BY <1>1, <1>2, <1>3, <1>4, <1>5, <1>6 DEF Next

LEMMA Invariance == ASSUME HeightIsCount PROVE Spec => []IInv
<1>. QED  BY InitInv, Step, PTL DEF Spec

\* What a step does to what is written.
LEMMA StepStays ==
  ASSUME HeightIsCount, IInv, [Next]_vars
  PROVE  \/ t'.log = <<>>
         \/ LogStays(t, t') /\ EntriesStay(t, t')
         \/ t' = t
<1>1. \A u, v, texts : Moves(u, v, texts) => LogStays(u, v) /\ EntriesStay(u, v)
  BY DEF Moves
<1>2. CASE User
  <2>1. CASE Submit
    BY <1>1, <2>1, SubmitKeeps
  <2>2. CASE NewChat
    BY <2>2, NewChatKeeps
  <2>3. CASE Cancel
    BY <2>3 DEF Cancel
  <2>4. CASE \E y \in 1..Len(t.lines) : ClickRow(y)
    BY <1>1, <2>4, ClickRowKeeps
  <2>5. CASE \E w \in Widths : ResizeTo(w)
    BY <1>1, <2>5, ResizeToKeeps
  <2>. QED  BY <1>2, <2>1, <2>2, <2>3, <2>4, <2>5 DEF User
<1>3. CASE Work \/ SetBusy
  BY <1>3 DEF Work, Ask, Abort, TakeReply, CallTool, Dispatch, AskToWait, TakeDecision, TakeResult,
              CommitStream, Tell, ResultShown, PopFollowup, RunFollowup, Report, Unheard, Free,
              SetBusy
<1>4. CASE \E h \in Threads : Show(h)
  BY <1>1, <1>4, ShowKeeps
<1>5. CASE \E r \in Requests : Request(r)
  BY <1>5 DEF Request, Think, StreamEnds, RequestFails
<1>6. CASE \E k \in Tools : Output(k) \/ ToolEnds(k)
  BY <1>6 DEF Output, ToolEnds
<1>7. CASE UNCHANGED vars
  BY <1>7 DEF vars
<1>8. ASSUME NEW i \in DOMAIN worker.elders, Elder(i)
      PROVE  t' = t \/ Moves(t, t', {})
  BY <1>8, ElderShowsKeeps DEF Elder, ElderRuns, ElderLeaves
<1>. QED  BY <1>1, <1>2, <1>3, <1>4, <1>5, <1>6, <1>7, <1>8 DEF Next

-----------------------------------------------------------------------------
(* The bounds, which are what TypeOK says beyond Typed.                    *)

PromptsCounted == app.run <= app.prompts /\ app.prompts <= MaxPrompts
ThoughtsCounted == \A r \in Requests : req[r].thoughts <= MaxThoughts

\* A thread waits for one change at a time.
OneEach == \A h \in Threads : Len(post[h]) <= 1

Bounded == PromptsCounted /\ ThoughtsCounted /\ OneEach /\ gestures \in 0..MaxGestures

LEMMA StepPrompts == ASSUME Typed, PromptsCounted, [Next]_vars PROVE PromptsCounted'
<1>1. app \in Apps
  BY DEF Typed
<1>2. CASE Submit \/ PopFollowup
  <2>1. /\ app.prompts < MaxPrompts /\ app'.prompts = app.prompts + 1
        /\ app'.run = app.run + 1 \/ app'.run = app.run
    BY <1>1, <1>2 DEF Submit, PopFollowup, Apps
  <2>2. app.run \in Nat /\ app.prompts \in Nat /\ MaxPrompts \in Nat
    BY <1>1, ChatDisplayAssumption DEF Apps
  <2>. QED  BY <2>1, <2>2 DEF PromptsCounted
<1>3. CASE \/ NewChat \/ Cancel \/ RunFollowup \/ Report \/ Unheard \/ Free \/ SetBusy
         \/ \E i \in DOMAIN worker.elders : ElderRuns(i) \/ ElderLeaves(i)
  <2>1. app'.prompts = app.prompts /\ app'.run = app.run
    BY <1>1, <1>3 DEF NewChat, Cancel, RunFollowup, Report, Unheard, Free, SetBusy, ElderRuns,
                      ElderLeaves, Apps
  <2>. QED  BY <2>1 DEF PromptsCounted
<1>4. CASE app' = app
  BY <1>4 DEF PromptsCounted
<1>5. \/ Submit \/ PopFollowup \/ NewChat \/ Cancel \/ RunFollowup \/ Report \/ Unheard \/ Free
      \/ SetBusy \/ (\E i \in DOMAIN worker.elders : ElderRuns(i) \/ ElderLeaves(i)) \/ app' = app
  BY DEF Next, User, ClickRow, ResizeTo, Work, Ask, Abort, TakeReply, CallTool, Dispatch, AskToWait,
         TakeDecision, TakeResult, CommitStream, Tell, ResultShown, Elder, ElderShows, Show, Request,
         Think, StreamEnds, RequestFails, Output, ToolEnds, vars
<1>. QED  BY <1>2, <1>3, <1>4, <1>5

AllThoughts == MapThenSumSet(LAMBDA x : req[x].thoughts, Requests)

\* A request thinks no more than all of them together.
LEMMA ThoughtsSum ==
  ASSUME Typed
  PROVE  AllThoughts \in Nat /\ \A r \in Requests : req[r].thoughts <= AllThoughts
<1>. DEFINE v == [r \in Requests |-> req[r].thoughts]
            f == CHOOSE h : h = [s \in SUBSET Requests |->
                   IF s = {} THEN 0
                   ELSE LET x == CHOOSE y \in s : TRUE IN req[x].thoughts + h[s \ {x}]]
            m == Cardinality(Requests)
<1>1. AllThoughts = f[Requests]
  BY DEF AllThoughts, MapThenSumSet, MapThenFoldSet
<1>2. v \in [Requests -> Nat] /\ \A r \in Requests : v[r] = req[r].thoughts
  BY DEF Typed, Asked
<1>3. IsFiniteSet(Requests) /\ m \in Nat
  BY ChatDisplayAssumption, FS_Interval, FS_CardinalityType DEF Requests
<1>4. UpTo(Requests, m) = SUBSET Requests
  BY <1>3, FS_Subset DEF UpTo
<1>. HIDE DEF m, v
<1>5. PICK h : Sums(h, v, SUBSET Requests)
  <2>1. \E h : Sums(h, v, UpTo(Requests, m))
    BY <1>3, SumsExist
  <2>. QED  BY <1>4, <2>1
<1>6. \A s \in SUBSET Requests : s # {} =>
        v[CHOOSE y \in s : TRUE] = req[CHOOSE y \in s : TRUE].thoughts
  BY <1>2
<1>7. h = [s \in SUBSET Requests |->
            IF s = {} THEN 0
            ELSE LET x == CHOOSE y \in s : TRUE IN req[x].thoughts + h[s \ {x}]]
  BY <1>5, <1>6 DEF Sums
<1>8. f = [s \in SUBSET Requests |->
            IF s = {} THEN 0
            ELSE LET x == CHOOSE y \in s : TRUE IN req[x].thoughts + f[s \ {x}]]
  BY <1>7
<1>. HIDE DEF f
<1>9. Sums(f, v, SUBSET Requests)
  BY <1>6, <1>8 DEF Sums
<1>10. f[Requests] \in Nat /\ \A r \in Requests : v[r] <= f[Requests]
  BY <1>2, <1>3, <1>4, <1>9, SumsBound
<1>. QED  BY <1>1, <1>2, <1>10

LEMMA StepThoughts == ASSUME Typed, ThoughtsCounted, [Next]_vars PROVE ThoughtsCounted'
<1>1. req \in [Requests -> Asked] /\ MaxThoughts \in Nat
  BY ChatDisplayAssumption DEF Typed
<1>2. ASSUME NEW r \in Requests, Think(r) PROVE ThoughtsCounted'
  <2>1. req[r].thoughts \in Nat
    BY <1>1 DEF Asked
  <2>2. AllThoughts < MaxThoughts
    BY <1>2 DEF Think, AllThoughts
  <2>3. req[r].thoughts < MaxThoughts
    BY <1>1, <2>1, <2>2, ThoughtsSum
  <2>4. /\ req'[r].thoughts = req[r].thoughts + 1
        /\ \A x \in Requests : x # r => req'[x] = req[x]
    BY <1>1, <1>2 DEF Think, Asked
  <2>. QED  BY <1>1, <2>1, <2>3, <2>4 DEF ThoughtsCounted
<1>3. CASE \A x \in Requests : req'[x].thoughts = req[x].thoughts
  BY <1>3 DEF ThoughtsCounted
<1>4. ASSUME NEW r \in Requests, StreamEnds(r) \/ RequestFails(r)
      PROVE  \A x \in Requests : req'[x].thoughts = req[x].thoughts
  BY <1>1, <1>4 DEF StreamEnds, RequestFails, Close, Asked
<1>5. ASSUME Ask \/ AskToWait PROVE \A x \in Requests : req'[x].thoughts = req[x].thoughts
  <2>1. req' = req \/ \E r : req' = [req EXCEPT ![r].pc = "streaming", ![r].run = app.run]
    BY <1>5 DEF Ask, AskToWait, StartRequest
  <2>2. ASSUME NEW r, req' = [req EXCEPT ![r].pc = "streaming", ![r].run = app.run],
               NEW x \in Requests
        PROVE  req'[x].thoughts = req[x].thoughts
    <3>1. CASE x = r
      BY <1>1, <2>2, <3>1 DEF Asked
    <3>2. CASE x # r
      BY <1>1, <2>2, <3>2
    <3>. QED  BY <3>1, <3>2
  <2>. QED  BY <2>1, <2>2
<1>6. \/ \E r \in Requests : Think(r) \/ StreamEnds(r) \/ RequestFails(r)
      \/ Ask \/ AskToWait \/ req' = req
  BY DEF Next, User, Submit, NewChat, Cancel, ClickRow, ResizeTo, Work, Abort, TakeReply, CallTool,
         Dispatch, TakeDecision, TakeResult, CommitStream, Tell, ResultShown, PopFollowup,
         RunFollowup, Report, Unheard, Free, SetBusy, Elder, ElderShows, ElderRuns, ElderLeaves,
         Show, Request, Output, ToolEnds, vars
<1>. QED  BY <1>2, <1>3, <1>4, <1>5, <1>6

\* What a thread posts is one change.
LEMMA PostIsOne ==
  ASSUME Typed, OneEach, NEW h \in Threads, NEW op, NEW of,
         Post(h, op, of) \/ Emit(h, op, of) \/ UNCHANGED post
  PROVE  OneEach'
<1>. DEFINE one == <<[op |-> op, of |-> of]>>
<1>1. \A g \in Threads : post'[g] = post[g] \/ post'[g] = one
  BY DEF Post, Emit, Typed
<1>2. Len(one) = 1
  OBVIOUS
<1>. HIDE DEF one
<1>3. ASSUME NEW g \in Threads PROVE Len(post'[g]) <= 1
  <2>1. CASE post'[g] = post[g]
    BY <2>1 DEF OneEach
  <2>2. CASE post'[g] = one
    <3>1. Len(post'[g]) = 1
      BY <1>2, <2>2, Zenon
    <3>. QED  BY <3>1
  <2>. QED  BY <1>1, <2>1, <2>2
<1>. QED  BY <1>3 DEF OneEach

LEMMA StepPosts == ASSUME Typed, OneEach, [Next]_vars PROVE OneEach'
<1>1. Worker \in Threads /\ Requests \subseteq Threads /\ Tools \subseteq Threads
  BY DEF Threads
<1>2. ASSUME NEW h \in Threads, Show(h) PROVE OneEach'
  <2>1. \A g \in Threads : post'[g] = post[g] \/ post'[g] = <<>>
    BY <1>2 DEF Show, Typed
  <2>. QED  BY <2>1 DEF OneEach
<1>3. ASSUME NEW r \in Requests, Request(r) PROVE OneEach'
  <2>1. Emit(r, "delta", buffer') \/ Post(r, "trace", Thoughts(r)) \/ UNCHANGED post
    BY <1>3 DEF Request, Think, StreamEnds, RequestFails, Close, Complete
  <2>. QED  BY <1>1, <2>1, PostIsOne
<1>4. CASE CallTool
  BY <1>1, <1>4, PostIsOne DEF CallTool
<1>5. ASSUME NEW k \in Tools, Output(k) PROVE OneEach'
  BY <1>1, <1>5, PostIsOne DEF Output
<1>6. CASE Tell \/ CommitStream
  BY <1>1, <1>6, PostIsOne DEF Tell, CommitStream
<1>10. CASE Submit
  <2>1. \A g \in Threads : post'[g] = post[g] \/ post'[g] = <<>>
    BY <1>10 DEF Submit, Typed
  <2>. QED  BY <2>1 DEF OneEach
<1>7. CASE PopFollowup
  BY <1>1, <1>7, PostIsOne DEF PopFollowup
<1>8. CASE UNCHANGED post
  BY <1>8 DEF OneEach
<1>9. \/ \E h \in Threads : Show(h)
      \/ \E r \in Requests : Request(r)
      \/ \E k \in Tools : Output(k)
      \/ CallTool \/ Tell \/ CommitStream \/ PopFollowup \/ Submit \/ UNCHANGED post
  BY DEF Next, User, NewChat, Cancel, ClickRow, ResizeTo, Work, Ask, Abort, TakeReply,
         Dispatch, AskToWait, TakeDecision, TakeResult, ResultShown, RunFollowup, Report, Unheard,
         Free, SetBusy, Elder, ElderShows, ElderRuns, ElderLeaves, ToolEnds, vars
<1>. QED  BY <1>2, <1>3, <1>4, <1>5, <1>6, <1>7, <1>8, <1>9, <1>10

LEMMA StepBounded == IInv /\ Bounded /\ [Next]_vars => Bounded'
<1>. SUFFICES ASSUME IInv, Bounded, [Next]_vars PROVE Bounded'
  OBVIOUS
<1>1. PromptsCounted' /\ ThoughtsCounted' /\ OneEach'
  BY StepPrompts, StepThoughts, StepPosts DEF IInv, Bounded
<1>2. gestures' = gestures \/ (gestures < MaxGestures /\ gestures' = gestures + 1)
  BY DEF Next, User, Submit, NewChat, Cancel, ClickRow, ResizeTo, Gesture, Work, Ask, Abort,
         TakeReply, CallTool, Dispatch, AskToWait, TakeDecision, TakeResult, CommitStream, Tell,
         ResultShown, PopFollowup, RunFollowup, Report, Unheard, Free, SetBusy, Elder, ElderShows,
         ElderRuns, ElderLeaves, Show, Request, Think, StreamEnds, RequestFails, Output, ToolEnds,
         vars
<1>3. gestures' \in 0..MaxGestures
  BY <1>2, ChatDisplayAssumption DEF Bounded
<1>. QED  BY <1>1, <1>3 DEF Bounded

LEMMA BoundedAtFirst == Init => Bounded
<1>. SUFFICES ASSUME Init PROVE Bounded
  OBVIOUS
<1>1. PromptsCounted /\ gestures \in 0..MaxGestures
  BY ChatDisplayAssumption DEF Init, PromptsCounted
<1>2. ThoughtsCounted
  BY ChatDisplayAssumption DEF Init, ThoughtsCounted
<1>3. OneEach
  BY DEF Init, OneEach
<1>. QED  BY <1>1, <1>2, <1>3 DEF Bounded

LEMMA BoundedIsTypeOK == IInv /\ Bounded => TypeOK
<1>. SUFFICES ASSUME IInv, Bounded PROVE TypeOK
  OBVIOUS
<1>1. app \in [run: 0..MaxPrompts, busy: BOOLEAN, cancelled: BOOLEAN, hard: BOOLEAN,
               talk: BOOLEAN, prompts: 0..MaxPrompts, freed: Nat]
  <2>1. app \in Apps /\ MaxPrompts \in Nat /\ app.run <= app.prompts /\ app.prompts <= MaxPrompts
    BY ChatDisplayAssumption DEF IInv, Typed, Bounded, PromptsCounted
  <2>2. app.run \in 0..MaxPrompts /\ app.prompts \in 0..MaxPrompts
    BY <2>1 DEF Apps
  <2>. QED  BY <2>1, <2>2 DEF Apps
<1>2. /\ worker.pc \in Labels /\ worker.req \in {0} \cup Requests
      /\ worker.tool \in {0} \cup Tools
  BY DEF IInv, Typed, Workers
<1>3. ASSUME NEW r \in Requests
      PROVE  req[r].pc \in {"none", "streaming", "done"} /\ req[r].thoughts \in 0..MaxThoughts
  <2>1. req[r] \in Asked /\ req[r].thoughts <= MaxThoughts /\ MaxThoughts \in Nat
    BY ChatDisplayAssumption DEF IInv, Typed, Bounded, ThoughtsCounted
  <2>. QED  BY <2>1 DEF Asked
<1>4. \A k \in Tools : tool[k].pc \in {"none", "shown", "running", "done"}
  BY DEF IInv, Typed, Called
<1>5. \A h \in Threads : Len(post[h]) <= 1 /\ late[h] \in Nat
  BY DEF IInv, Typed, Bounded, OneEach
<1>6. t.live \in 0..Len(t.entries) /\ t.width \in Widths /\ gestures \in 0..MaxGestures
  BY DEF IInv, Sound, Loose, Transcripts, Lively, Bounded
<1>. QED  BY <1>1, <1>2, <1>3, <1>4, <1>5, <1>6 DEF TypeOK, Labels

-----------------------------------------------------------------------------
(* The theorems.  Height, which is the layout of the terminal library, is  *)
(* any function to numbers.                                                *)

\* The variables keep their types: a run, a prompt and a chunk of thinking for each that
\* was counted, and one change at a time that a thread waits for.
THEOREM TypeCorrect ==
  ASSUME HeightIsCount
  PROVE  Spec => []TypeOK
BY BoundedAtFirst, StepBounded, BoundedIsTypeOK, Invariance, PTL DEF Spec

\* The rows on screen and the counts by which a click finds its entry are those of
\* what was written, whatever was streamed, held, committed, discarded, clicked and
\* resized, in whatever order the threads did it.
THEOREM FaithfulScreen ==
  ASSUME HeightIsCount
  PROVE  Spec => []ScreenIsFaithful
<1>1. IInv => ScreenIsFaithful
  BY DEF IInv, Sound, ScreenIsFaithful
<1>. QED  BY <1>1, Invariance, PTL

\* A trace that is closed is all the thinking of one request, for any number of
\* requests that stream into the handlers of any number of runs.
THEOREM OwnTraces ==
  ASSUME HeightIsCount
  PROVE  Spec => []TracesAreOwn
<1>1. IInv => TracesAreOwn
  BY DEF IInv, Owned, TraceOf, Closed, TracesAreOwn
<1>. QED  BY <1>1, Invariance, PTL

\* A thread that a run leaves behind changes the transcript at most once more.
THEOREM Silenced ==
  ASSUME HeightIsCount
  PROVE  Spec => []CancelSilences
<1>1. IInv => CancelSilences
  BY DEF IInv, Silent, CancelSilences
<1>. QED  BY <1>1, Invariance, PTL

\* What is written keeps its place and its text until the transcript is emptied.
THEOREM Stays ==
  ASSUME HeightIsCount
  PROVE  Spec => WrittenStays
<1>. DEFINE A == \/ t'.log = <<>>
                 \/ /\ Len(t'.log) >= Len(t.log)
                    /\ \A i \in DOMAIN t.log :
                         /\ t'.log[i].id = t.log[i].id
                         /\ t.log[i].id = 0 => t'.log[i].shown = t.log[i].shown
                    /\ \A i \in DOMAIN t.entries :
                         ~t.entries[i].live => t'.entries[i].text = t.entries[i].text
<1>1. IInv /\ [Next]_vars => [A]_vars
  <2>. SUFFICES ASSUME IInv, [Next]_vars
                PROVE  A
    OBVIOUS
  <2>1. CASE t'.log = <<>>
    BY <2>1
  <2>2. CASE LogStays(t, t') /\ EntriesStay(t, t')
    BY <2>2 DEF LogStays, EntriesStay
  <2>3. CASE t' = t
    <3>1. Len(t.log) \in Nat
      BY LooseType DEF IInv, Sound
    <3>. QED  BY <2>3, <3>1
  <2>. QED  BY <2>1, <2>2, <2>3, StepStays
<1>. QED  BY <1>1, Invariance, PTL DEF Spec, WrittenStays

=================================================================================

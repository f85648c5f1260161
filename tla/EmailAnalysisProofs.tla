------------------------- MODULE EmailAnalysisProofs -------------------------
(***************************************************************************)
(* The invariants of EmailAnalysis for messages of any size.  Each loop of *)
(* the code is a function of the number of steps taken; what it computes   *)
(* is proved by induction on that number, which rests on the fact that <   *)
(* on Nat is well-founded.                                                 *)
(***************************************************************************)
EXTENDS EmailAnalysis, FiniteSetTheorems, SequenceTheorems, TLAPS

-----------------------------------------------------------------------------
\* Induction over the steps of a loop.

LEMMA StepByStep ==
  ASSUME NEW n \in Nat, NEW S, 0 \in S, \A i \in 1..n : i - 1 \in S => i \in S
  PROVE  \A i \in 0..n : i \in S
<1> DEFINE Left == 0..n \ S
           Less == OpToRel(<, Nat)
<1>1. SUFFICES ASSUME Left # {} PROVE FALSE
  OBVIOUS
<1>2. PICK i \in Left : \A j \in Left : <<j, i>> \notin Less
  <2>1. IsWellFoundedOn(Less, Nat)
    BY NatLessThanWellFounded
  <2>2. Left \subseteq Nat
    OBVIOUS
  <2> HIDE DEF Less, Left
  <2> QED
    BY <1>1, <2>1, <2>2, WFMin
<1>3. i \in 1..n
  <2>1. i \in 0..n /\ i # 0
    BY <1>2
  <2> QED
    BY <2>1
<1>4. <<i - 1, i>> \in Less
  BY <1>3 DEF OpToRel
<1>5. i - 1 \in 0..n
  BY <1>3
<1>6. i - 1 \in S
  BY <1>2, <1>4, <1>5
<1> QED
  BY <1>2, <1>3, <1>6

\* A loop of n steps over the states T, and a run of it from b.
Steps(n, T) == [1..n -> [T -> T]]

Run(f, n, T, b, step) ==
  f \in [0..n -> T] /\ f[0] = b /\ \A i \in 1..n : f[i] = step[i][f[i - 1]]

\* Every loop has a run.
LEMMA LoopRuns ==
  ASSUME NEW n \in Nat, NEW T, NEW b \in T, NEW step \in Steps(n, T)
  PROVE  \E f : Run(f, n, T, b, step)
<1> USE DEF Steps, Run
<1> DEFINE Runs(f, k) == /\ f \in [0..k -> T] /\ f[0] = b
                         /\ \A i \in 1..k : f[i] = step[i][f[i - 1]]
           S == {k \in 0..n : \E f : Runs(f, k)}
<1>1. 0 \in S
  <2>1. Runs([i \in 0..0 |-> b], 0)
    OBVIOUS
  <2> HIDE DEF Runs
  <2> QED
    BY <2>1
<1>2. ASSUME NEW k \in 1..n, k - 1 \in S PROVE k \in S
  <2>1. PICK f : Runs(f, k - 1)
    BY <1>2
  <2> DEFINE e == step[k][f[k - 1]]
             g == [i \in 0..k |-> IF i = k THEN e ELSE f[i]]
  <2>2. f[k - 1] \in T /\ k - 1 \in 0..(k - 1)
    BY <2>1
  <2>3. e \in T
    BY <2>2
  <2>4. g \in [0..k -> T] /\ g[0] = b
    BY <2>1, <2>3
  <2>5. ASSUME NEW i \in 1..k PROVE g[i] = step[i][g[i - 1]]
    <3>1. CASE i = k
      <4>1. i \in 0..k /\ i - 1 \in 0..k /\ i - 1 # k
        BY <3>1
      <4> QED
        BY <3>1, <4>1
    <3>2. CASE i # k
      <4>1. i \in 1..(k - 1) /\ i - 1 \in 0..k /\ i - 1 # k
        BY <3>2
      <4> QED
        BY <4>1, <2>1
    <3> QED
      BY <3>1, <3>2
  <2>6. Runs(g, k)
    BY <2>4, <2>5
  <2> HIDE DEF Runs
  <2> QED
    BY <2>6
<1>3. \A k \in 0..n : k \in S
  <2> HIDE DEF S
  <2> QED
    BY <1>1, <1>2, StepByStep
<1>4. n \in S
  BY <1>3
<1> QED
  BY <1>4

-----------------------------------------------------------------------------
\* The loops of the code run through, and what they hold is of its type.

OnlyRun(f, s, S, T) ==
  /\ f \in [0..Len(s) -> Seq(T)]
  /\ f[0] = <<>> /\ Only(s, S) = f[Len(s)]
  /\ \A i \in 1..Len(s) :
        f[i] = IF s[i] \in S THEN Append(f[i - 1], s[i]) ELSE f[i - 1]

LEMMA OnlyRuns ==
  ASSUME NEW T, NEW s \in Seq(T), NEW S
  PROVE  \E f : OnlyRun(f, s, S, T)
<1> DEFINE n == Len(s)
           V == Seq(T)
           After(x, i) == IF s[i] \in S THEN Append(x, s[i]) ELSE x
           step == [i \in 1..n |-> [x \in V |-> After(x, i)]]
           b == <<>>
           Def(g) == [i \in 0..n |-> IF i = 0 THEN b ELSE After(g[i - 1], i)]
           only == CHOOSE g : g = Def(g)
<1>1. n \in Nat
  OBVIOUS
<1>2. b \in V
  OBVIOUS
<1>3. \A i \in 1..n, x \in V : After(x, i) \in V
  <2>1. ASSUME NEW i \in 1..n PROVE s[i] \in T
    OBVIOUS
  <2>2. ASSUME NEW x \in Seq(T), NEW i \in 1..n PROVE Append(x, s[i]) \in Seq(T)
    BY <2>1
  <2> QED
    BY <2>2
<1> HIDE DEF V, b, n, After
<1>4. step \in Steps(n, V)
  BY <1>3 DEF Steps
<1>5. PICK f : Run(f, n, V, b, step)
  <2> HIDE DEF step
  <2> QED
    BY <1>1, <1>2, <1>4, LoopRuns
<1>6. f = Def(f)
  <2>1. \A i \in 1..n : step[i][f[i - 1]] = After(f[i - 1], i)
    <3>1. ASSUME NEW i \in 1..n PROVE f[i - 1] \in V
      BY <1>1, <1>5 DEF Run
    <3> QED
      BY <3>1
  <2>2. f \in [0..n -> V] /\ f[0] = b /\ \A i \in 1..n : f[i] = After(f[i - 1], i)
    BY <1>5, <2>1 DEF Run
  <2> HIDE DEF step
  <2>3. \A i \in 0..n : f[i] = IF i = 0 THEN b ELSE After(f[i - 1], i)
    BY <1>1, <2>2
  <2> QED
    BY <2>2, <2>3
<1>7. only = Def(only)
  <2> HIDE DEF Def
  <2> QED
    BY <1>6
<1>8. Only(s, S) = only[n]
  BY DEF Only, After, n, b
<1> HIDE DEF only
<1>9. \A i \in 0..n : only[i] \in V
  <2> DEFINE R == {i \in 0..n : only[i] \in V}
  <2>1. 0 \in R
    BY <1>1, <1>2, <1>7
  <2>2. \A i \in 1..n : i - 1 \in R => i \in R
    BY <1>1, <1>3, <1>7
  <2>3. \A i \in 0..n : i \in R
    <3> HIDE DEF R
    <3> QED
      BY <1>1, <2>1, <2>2, StepByStep
  <2> QED
    BY <2>3
<1>10. only \in [0..n -> V]
  BY <1>7, <1>9
<1>11. only[0] = b /\ \A i \in 1..n : only[i] = After(only[i - 1], i)
  BY <1>1, <1>7
<1> QED
  BY <1>8, <1>10, <1>11 DEF n, V, b, After, OnlyRun

Walks(n) == [text : 0..n, html : 0..n, attachments : Seq(1..n)]

WalkRun(f, parts) ==
  /\ f \in [0..Len(parts) -> Walks(Len(parts))]
  /\ f[0] = EmptyWalk /\ Walk(parts) = f[Len(parts)]
  /\ \A i \in 1..Len(parts) : f[i] = Take(parts, f[i - 1], i)

LEMMA WalkRuns ==
  ASSUME NEW parts \in Seq(Leaf)
  PROVE  \E f : WalkRun(f, parts)
<1> USE DEF Walks
<1> DEFINE n == Len(parts)
           V == Walks(n)
           b == EmptyWalk
           After(x, i) == Take(parts, x, i)
           step == [i \in 1..n |-> [x \in V |-> After(x, i)]]
           Def(g) == [i \in 0..n |-> IF i = 0 THEN b ELSE After(g[i - 1], i)]
           walk == CHOOSE g : g = Def(g)
<1>1. n \in Nat
  OBVIOUS
<1>2. b \in V
  BY DEF EmptyWalk
<1>3. \A i \in 1..n, x \in V : After(x, i) \in V
  <2> SUFFICES ASSUME NEW i \in 1..n, NEW x \in V PROVE Take(parts, x, i) \in V
    OBVIOUS
  <2>1. Append(x.attachments, i) \in Seq(1..n)
    OBVIOUS
  <2>2. i \in 0..n /\ 0 \in 0..n
    OBVIOUS
  <2> QED
    BY <2>1, <2>2 DEF Take
<1> HIDE DEF V, b, n, After
<1>4. step \in Steps(n, V)
  BY <1>3 DEF Steps
<1>5. PICK f : Run(f, n, V, b, step)
  <2> HIDE DEF step
  <2> QED
    BY <1>1, <1>2, <1>4, LoopRuns
<1>6. f = Def(f)
  <2>1. \A i \in 1..n : step[i][f[i - 1]] = After(f[i - 1], i)
    <3>1. ASSUME NEW i \in 1..n PROVE f[i - 1] \in V
      BY <1>1, <1>5 DEF Run
    <3> QED
      BY <3>1
  <2>2. f \in [0..n -> V] /\ f[0] = b /\ \A i \in 1..n : f[i] = After(f[i - 1], i)
    BY <1>5, <2>1 DEF Run
  <2> HIDE DEF step
  <2>3. \A i \in 0..n : f[i] = IF i = 0 THEN b ELSE After(f[i - 1], i)
    BY <1>1, <2>2
  <2> QED
    BY <2>2, <2>3
<1>7. walk = Def(walk)
  <2> HIDE DEF Def
  <2> QED
    BY <1>6
<1>8. Walk(parts) = walk[n]
  BY DEF Walk, After, n, b
<1> HIDE DEF walk
<1>9. \A i \in 0..n : walk[i] \in V
  <2> DEFINE R == {i \in 0..n : walk[i] \in V}
  <2>1. 0 \in R
    BY <1>1, <1>2, <1>7
  <2>2. \A i \in 1..n : i - 1 \in R => i \in R
    BY <1>1, <1>3, <1>7
  <2>3. \A i \in 0..n : i \in R
    <3> HIDE DEF R
    <3> QED
      BY <1>1, <2>1, <2>2, StepByStep
  <2> QED
    BY <2>3
<1>10. walk \in [0..n -> V]
  BY <1>7, <1>9
<1>11. walk[0] = b /\ \A i \in 1..n : walk[i] = After(walk[i - 1], i)
  BY <1>1, <1>7
<1> QED
  BY <1>8, <1>10, <1>11 DEF n, V, b, After, WalkRun

Hrefs == Target \cup {NoHref}

Texts == Seq(Seq(STRING))

Anchor == [href : Hrefs, text : Texts]

Extractor == [href : Hrefs, text : Texts, links : Seq(Anchor)]

\* A token the HTML parser does not trip over.
Readable == [tag : {"open", "data", "close"}, href : Target, data : Seq(STRING)]

ExtractRun(f, tokens) ==
  /\ f \in [0..Len(tokens) -> Extractor]
  /\ f[0] = NoAnchor /\ Extract(tokens) = f[Len(tokens)].links
  /\ \A i \in 1..Len(tokens) : f[i] = Feed(f[i - 1], tokens[i])

LEMMA ExtractRuns ==
  ASSUME NEW tokens \in Seq(Readable)
  PROVE  \E f : ExtractRun(f, tokens)
<1> USE DEF Extractor
<1> DEFINE n == Len(tokens)
           V == Extractor
           b == NoAnchor
           After(x, i) == Feed(x, tokens[i])
           step == [i \in 1..n |-> [x \in V |-> After(x, i)]]
           Def(g) == [i \in 0..n |-> IF i = 0 THEN b ELSE After(g[i - 1], i)]
           fed == CHOOSE g : g = Def(g)
<1>1. n \in Nat
  OBVIOUS
<1>2. b \in V
  BY DEF NoAnchor, Hrefs, Texts
<1>3. \A i \in 1..n, x \in V : After(x, i) \in V
  <2> SUFFICES ASSUME NEW i \in 1..n, NEW x \in V PROVE Feed(x, tokens[i]) \in V
    OBVIOUS
  <2> DEFINE t == tokens[i]
  <2>1. t \in Readable
    OBVIOUS
  <2>2. t.href \in Hrefs /\ t.data \in Seq(STRING)
    BY <2>1 DEF Readable, Hrefs
  <2>3. Append(x.text, t.data) \in Texts /\ <<>> \in Texts
    BY <2>2 DEF Texts
  <2>4. Recorded(x) \in Seq(Anchor)
    BY DEF Recorded, Anchor
  <2>5. NoHref \in Hrefs
    BY DEF Hrefs
  <2> HIDE DEF t
  <2>6. [x EXCEPT !.href = t.href, !.text = <<>>] \in V
    BY <2>2, <2>3
  <2>7. [x EXCEPT !.text = Append(@, t.data)] \in V
    BY <2>3
  <2>8. [x EXCEPT !.href = NoHref, !.text = <<>>, !.links = Recorded(x)] \in V
    BY <2>3, <2>4, <2>5
  <2>9. Feed(x, t) \in V
    <3> HIDE DEF V
    <3> QED
      BY <2>6, <2>7, <2>8 DEF Feed
  <2> QED
    BY <2>9 DEF t
<1> HIDE DEF V, b, n, After
<1>4. step \in Steps(n, V)
  BY <1>3 DEF Steps
<1>5. PICK f : Run(f, n, V, b, step)
  <2> HIDE DEF step
  <2> QED
    BY <1>1, <1>2, <1>4, LoopRuns
<1>6. f = Def(f)
  <2>1. \A i \in 1..n : step[i][f[i - 1]] = After(f[i - 1], i)
    <3>1. ASSUME NEW i \in 1..n PROVE f[i - 1] \in V
      BY <1>1, <1>5 DEF Run
    <3> QED
      BY <3>1
  <2>2. f \in [0..n -> V] /\ f[0] = b /\ \A i \in 1..n : f[i] = After(f[i - 1], i)
    BY <1>5, <2>1 DEF Run
  <2> HIDE DEF step
  <2>3. \A i \in 0..n : f[i] = IF i = 0 THEN b ELSE After(f[i - 1], i)
    BY <1>1, <2>2
  <2> QED
    BY <2>2, <2>3
<1>7. fed = Def(fed)
  <2> HIDE DEF Def
  <2> QED
    BY <1>6
<1>8. Extract(tokens) = fed[n].links
  <2>1. ~Trips(tokens)
    <3>1. \A i \in DOMAIN tokens : tokens[i] \in Readable
      OBVIOUS
    <3> QED
      BY <3>1 DEF Trips, Readable
  <2> QED
    BY <2>1 DEF Extract, After, n, b
<1> HIDE DEF fed
<1>9. \A i \in 0..n : fed[i] \in V
  <2> DEFINE R == {i \in 0..n : fed[i] \in V}
  <2>1. 0 \in R
    BY <1>1, <1>2, <1>7
  <2>2. \A i \in 1..n : i - 1 \in R => i \in R
    BY <1>1, <1>3, <1>7
  <2>3. \A i \in 0..n : i \in R
    <3> HIDE DEF R
    <3> QED
      BY <1>1, <2>1, <2>2, StepByStep
  <2> QED
    BY <2>3
<1>10. fed \in [0..n -> V]
  BY <1>7, <1>9
<1>11. fed[0] = b /\ \A i \in 1..n : fed[i] = After(fed[i - 1], i)
  BY <1>1, <1>7
<1> QED
  BY <1>8, <1>10, <1>11 DEF n, V, b, After, ExtractRun

-----------------------------------------------------------------------------
\* What Only returns.

Increasing(e, p) == \A j, k \in 1..p : j < k => e[j] < e[k]

\* o is what s has in S among its first n elements; e says where.
Selects(e, o, s, S, n) ==
  /\ e \in [1..Len(o) -> 1..n] /\ Increasing(e, Len(o))
  /\ \A k \in 1..Len(o) : o[k] = s[e[k]]
  /\ \A i \in 1..n : s[i] \in S <=> \E k \in 1..Len(o) : e[k] = i

LEMMA OnlySelects ==
  ASSUME NEW T, NEW s \in Seq(T), NEW S
  PROVE  Only(s, S) \in Seq(T) /\ \E e : Selects(e, Only(s, S), s, S, Len(s))
<1>a. PICK f : OnlyRun(f, s, S, T)
  BY OnlyRuns
<1>1. /\ f \in [0..Len(s) -> Seq(T)]
      /\ f[0] = <<>> /\ Only(s, S) = f[Len(s)]
      /\ \A i \in 1..Len(s) :
            f[i] = IF s[i] \in S THEN Append(f[i - 1], s[i]) ELSE f[i - 1]
  BY <1>a DEF OnlyRun
<1> DEFINE n == Len(s)
           R == {i \in 0..n : \E e : Selects(e, f[i], s, S, i)}
<1>2. n \in Nat /\ n \in 0..n /\ 0 \in 0..n
  OBVIOUS
<1>3. 0 \in R
  <2>1. Selects(<<>>, <<>>, s, S, 0)
    BY DEF Selects, Increasing
  <2> QED
    BY <1>1, <1>2, <2>1
<1>4. ASSUME NEW i \in 1..n, i - 1 \in R PROVE i \in R
  <2>1. PICK e : Selects(e, f[i - 1], s, S, i - 1)
    BY <1>4
  <2> DEFINE x == f[i - 1]
             m == Len(x)
  <2>2. x \in Seq(T) /\ m \in Nat /\ m = Len(x) /\ s[i] \in T /\ i \in 0..n /\ i \in Nat /\ i - 1 \in Nat
    <3>1. i - 1 \in 0..n
      OBVIOUS
    <3> QED
      BY <1>1, <3>1
  <2>3. /\ e \in [1..m -> 1..(i - 1)] /\ Increasing(e, m)
        /\ \A k \in 1..m : x[k] = s[e[k]]
        /\ \A j \in 1..(i - 1) : s[j] \in S <=> \E k \in 1..m : e[k] = j
    BY <2>1 DEF Selects
  <2>a. f[i] = IF s[i] \in S THEN Append(x, s[i]) ELSE x
    BY <1>1
  <2> HIDE DEF x, m
  <2>4. CASE s[i] \in S
    <3> DEFINE y == Append(x, s[i])
               g == [k \in 1..(m + 1) |-> IF k = m + 1 THEN i ELSE e[k]]
    <3>1. f[i] = y /\ Len(y) = m + 1 /\ y[m + 1] = s[i] /\ \A k \in 1..m : y[k] = x[k]
      BY <2>a, <2>2, <2>4
    <3>2. g \in [1..(m + 1) -> 1..i]
      BY <2>2, <2>3
    <3>3. Increasing(g, m + 1)
      <4> SUFFICES ASSUME NEW j \in 1..(m + 1), NEW k \in 1..(m + 1), j < k PROVE g[j] < g[k]
        BY DEF Increasing
      <4>0. j \in 1..m /\ j # m + 1
        BY <2>2
      <4>1. j \in 1..m /\ g[j] = e[j] /\ e[j] \in 1..(i - 1)
        BY <2>3, <4>0
      <4>2. CASE k = m + 1
        BY <2>2, <4>1, <4>2
      <4>3. CASE k # m + 1
        <5>1. k \in 1..m /\ g[k] = e[k]
          BY <2>2, <4>3
        <5> QED
          BY <2>3, <4>1, <5>1 DEF Increasing
      <4> QED
        BY <4>2, <4>3
    <3>4. \A k \in 1..(m + 1) : y[k] = s[g[k]]
      <4> SUFFICES ASSUME NEW k \in 1..(m + 1) PROVE y[k] = s[g[k]]
        OBVIOUS
      <4>1. CASE k = m + 1
        BY <3>1, <4>1
      <4>2. CASE k # m + 1
        <5>1. k \in 1..m
          BY <2>2, <4>2
        <5> QED
          BY <2>3, <3>1, <4>2, <5>1
      <4> QED
        BY <4>1, <4>2
    <3>5. ASSUME NEW j \in 1..i
          PROVE  s[j] \in S <=> \E k \in 1..(m + 1) : g[k] = j
      <4>1. CASE j = i
        <5>1. m + 1 \in 1..(m + 1) /\ g[m + 1] = i
          BY <2>2
        <5> QED
          BY <2>4, <4>1, <5>1
      <4>2. CASE j # i
        <5>1. j \in 1..(i - 1)
          BY <2>2, <4>2
        <5>2. (\E k \in 1..m : e[k] = j) <=> \E k \in 1..(m + 1) : g[k] = j
          <6>1. \A k \in 1..m : k \in 1..(m + 1) /\ g[k] = e[k]
            BY <2>2
          <6>2. \A k \in 1..(m + 1) : g[k] = j => k \in 1..m
            BY <2>2, <4>2
          <6> HIDE DEF g
          <6> QED
            BY <6>1, <6>2
        <5> QED
          BY <2>3, <5>1, <5>2
      <4> QED
        BY <4>1, <4>2
    <3>6. Selects(g, f[i], s, S, i)
      <4> HIDE DEF g, y
      <4> QED
        BY <3>1, <3>2, <3>3, <3>4, <3>5 DEF Selects
    <3> QED
      BY <2>2, <3>6
  <2>5. CASE s[i] \notin S
    <3>1. f[i] = x
      BY <2>a, <2>5
    <3>2. e \in [1..m -> 1..i]
      BY <2>2, <2>3
    <3>3. ASSUME NEW j \in 1..i PROVE s[j] \in S <=> \E k \in 1..m : e[k] = j
      <4>1. CASE j = i
        <5>1. \A k \in 1..m : e[k] # i
          BY <2>2, <2>3
        <5> QED
          BY <2>5, <4>1, <5>1
      <4>2. CASE j # i
        <5>1. j \in 1..(i - 1)
          BY <2>2, <4>2
        <5> QED
          BY <2>3, <5>1
      <4> QED
        BY <4>1, <4>2
    <3>4. Selects(e, f[i], s, S, i)
      <4> QED
        BY <2>2, <2>3, <3>1, <3>2, <3>3 DEF Selects
    <3> QED
      BY <2>2, <3>4
  <2> QED
    BY <2>4, <2>5
<1>5. \A i \in 0..n : i \in R
  <2> HIDE DEF R
  <2> QED
    BY <1>2, <1>3, <1>4, StepByStep
<1>6. n \in R
  BY <1>2, <1>5
<1> QED
  BY <1>1, <1>2, <1>6

\* No element of s is there twice.
Distinct(s) == \A j, k \in 1..Len(s) : s[j] = s[k] => j = k

LEMMA UpToCounts ==
  ASSUME NEW n \in Nat
  PROVE  IsFiniteSet(1..n) /\ Cardinality(1..n) = n
BY FS_Interval

LEMMA OnceCounts ==
  ASSUME NEW T, NEW s \in Seq(T), \A j, k \in 1..Len(s) : s[j] = s[k] => j = k
  PROVE  Cardinality(Range(s)) = Len(s)
<1>1. Len(s) \in Nat /\ DOMAIN s = 1..Len(s)
  OBVIOUS
<1>2. s \in [1..Len(s) -> Range(s)] /\ \A v \in Range(s) : \E k \in 1..Len(s) : s[k] = v
  BY <1>1 DEF Range
<1>3. s \in Bijection(1..Len(s), Range(s))
  BY <1>2 DEF Bijection, Injection, IsInjective, Surjection
<1>4. ExistsBijection(1..Len(s), Range(s))
  BY <1>3 DEF ExistsBijection
<1> QED
  BY <1>1, <1>4, UpToCounts, FS_Bijection

\* The n-th of an increasing enumeration has n of its values up to it.
Enumerates(e, p, N) == e \in [1..p -> 1..N] /\ Increasing(e, p)

Counts(e, p) ==
  LET P == {e[k] : k \in 1..p} IN
  /\ IsFiniteSet(P) /\ Cardinality(P) = p
  /\ \A n \in 1..p : Cardinality({k \in P : k <= e[n]}) = n

LEMMA EnumerationCounts ==
  ASSUME NEW p \in Nat, NEW N \in Nat, NEW e, Enumerates(e, p, N)
  PROVE  Counts(e, p)
<1> DEFINE First(n) == {e[k] : k \in 1..n}
           P == First(p)
<1>0. e \in [1..p -> 1..N]
  BY DEF Enumerates
<1>1. \A j, k \in 1..p : (e[j] = e[k] => j = k) /\ (e[j] <= e[k] <=> j <= k)
  BY <1>0 DEF Increasing, Enumerates
<1>2. ASSUME NEW n \in 0..p PROVE IsFiniteSet(First(n)) /\ Cardinality(First(n)) = n
  <2> DEFINE g == [k \in 1..n |-> e[k]]
  <2>1. 1..n \subseteq 1..p
    OBVIOUS
  <2>2. g \in Bijection(1..n, First(n))
    <3>1. g \in Injection(1..n, First(n))
      BY <1>0, <1>1, <2>1 DEF Injection, IsInjective
    <3>2. g \in Surjection(1..n, First(n))
      BY DEF Surjection
    <3> QED
      BY <3>1, <3>2 DEF Bijection
  <2>3. ExistsBijection(1..n, First(n))
    BY <2>2 DEF ExistsBijection
  <2>4. IsFiniteSet(1..n) /\ Cardinality(1..n) = n
    BY UpToCounts
  <2> HIDE DEF First
  <2> QED
    BY <2>3, <2>4, FS_Bijection
<1>3. ASSUME NEW n \in 1..p PROVE {x \in P : x <= e[n]} = First(n)
  <2>1. 1..n \subseteq 1..p
    OBVIOUS
  <2>2. ASSUME NEW k \in 1..p PROVE e[k] <= e[n] <=> k \in 1..n
    BY <1>0, <1>1
  <2> QED
    BY <1>0, <2>1, <2>2
<1>4. p \in 0..p /\ \A n \in 1..p : n \in 0..p
  OBVIOUS
<1> HIDE DEF First
<1>5. /\ IsFiniteSet(P) /\ Cardinality(P) = p
      /\ \A n \in 1..p : Cardinality({k \in P : k <= e[n]}) = n
  BY <1>2, <1>3, <1>4
<1> QED
  BY <1>5 DEF First, Counts

LEMMA FlattenHas ==
  ASSUME NEW T, NEW ss \in Seq(Seq(T))
  PROVE  /\ FlattenSeq(ss) \in Seq(T)
         /\ Range(FlattenSeq(ss)) = UNION {Range(ss[i]) : i \in DOMAIN ss}
<1> DEFINE n == Len(ss)
           V == Seq(T)
           b == <<>>
           step == [i \in 1..n |-> [x \in V |-> x \o ss[i]]]
           Def(g) == [i \in 1..n |-> IF i = 1 THEN ss[i] ELSE g[i - 1] \o ss[i]]
           flatten == CHOOSE g : g = Def(g)
           Upto(i) == UNION {Range(ss[j]) : j \in 1..i}
<1>1. n \in Nat /\ b \in V /\ DOMAIN ss = 1..n /\ \A i \in 1..n : ss[i] \in V
  OBVIOUS
<1>2. \A i \in 1..n, x \in V : x \o ss[i] \in V
  OBVIOUS
<1>3. \A x \in V : b \o x = x
  OBVIOUS
<1>4. \A x, y \in V : Range(x \o y) = Range(x) \cup Range(y)
  BY RangeConcatenation
<1>5. CASE n = 0
  <2>1. ss = <<>> /\ FlattenSeq(ss) = ss
    BY <1>5 DEF FlattenSeq
  <2>2. DOMAIN ss = {} /\ ss \in Seq(T)
    BY <1>1, <1>5, <2>1
  <2>3. Range(ss) = {}
    BY <2>2 DEF Range
  <2> QED
    BY <2>1, <2>2, <2>3
<1>6. CASE n # 0
  <2>1. FlattenSeq(ss) = flatten[n]
    BY <1>6 DEF FlattenSeq
  <2> HIDE DEF V, b, n
  <2>2. step \in Steps(n, V)
    BY <1>2 DEF Steps
  <2>3. PICK f : Run(f, n, V, b, step)
    <3> HIDE DEF step
    <3> QED
      BY <1>1, <2>2, LoopRuns
  <2>4. \A i \in 0..n : f[i] \in V
    BY <2>3 DEF Run
  <2>5. f[0] = b /\ \A i \in 1..n : f[i] = f[i - 1] \o ss[i]
    <3>1. \A i \in 1..n : i - 1 \in 0..n
      BY <1>1
    <3> QED
      BY <2>3, <2>4, <3>1 DEF Run
  <2> HIDE DEF step
  <2>6. [i \in 1..n |-> f[i]] = Def([i \in 1..n |-> f[i]])
    <3> DEFINE h == [i \in 1..n |-> f[i]]
    <3>1. ASSUME NEW i \in 1..n PROVE h[i] = IF i = 1 THEN ss[i] ELSE h[i - 1] \o ss[i]
      <4>1. CASE i = 1
        <5>1. f[i] = f[i - 1] \o ss[i]
          BY <2>5
        <5>2. f[i - 1] = b
          <6>1. i - 1 = 0
            BY <4>1
          <6> QED
            BY <2>5, <6>1
        <5>3. b \o ss[i] = ss[i]
          BY <1>1, <1>3
        <5>4. h[i] = f[i]
          OBVIOUS
        <5> HIDE DEF h
        <5> QED
          BY <4>1, <5>1, <5>2, <5>3, <5>4
      <4>2. CASE i # 1
        <5>1. i - 1 \in 1..n
          BY <1>1, <4>2
        <5> QED
          BY <2>5, <4>2, <5>1
      <4> QED
        BY <4>1, <4>2
    <3> HIDE DEF h
    <3>2. h = [i \in 1..n |-> h[i]]
      BY DEF h
    <3>3. h = Def(h)
      BY <3>1, <3>2
    <3> QED
      BY <3>3 DEF h
  <2>7. flatten = Def(flatten)
    <3> HIDE DEF Def
    <3> QED
      BY <2>6
  <2> HIDE DEF flatten
  <2>8. \A i \in 1..n : flatten[i] = IF i = 1 THEN ss[i] ELSE flatten[i - 1] \o ss[i]
    BY <2>7
  <2> DEFINE R == {i \in 0..n : i # 0 => flatten[i] \in V /\ Range(flatten[i]) = Upto(i)}
  <2>9. 0 \in R
    BY <1>1
  <2>10. ASSUME NEW i \in 1..n, i - 1 \in R PROVE i \in R
    <3>1. CASE i = 1
      <4>1. 1..1 = {1}
        OBVIOUS
      <4>2. Upto(1) = Range(ss[1])
        BY <4>1
      <4> HIDE DEF Upto
      <4> QED
        BY <1>1, <2>8, <3>1, <4>2
    <3>2. CASE i # 1
      <4>1. i - 1 # 0 /\ i - 1 \in 1..n /\ 1..i = (1..(i - 1)) \cup {i} /\ i \in 0..n
        BY <1>1, <3>2
      <4>2. Upto(i) = Upto(i - 1) \cup Range(ss[i])
        BY <4>1
      <4>3. flatten[i - 1] \in V /\ Range(flatten[i - 1]) = Upto(i - 1)
        BY <2>10, <4>1
      <4> HIDE DEF Upto
      <4>4. flatten[i] = flatten[i - 1] \o ss[i]
        BY <2>8, <3>2
      <4>5. ss[i] \in V
        BY <1>1
      <4>6. flatten[i] \in V
        BY <1>2, <4>3, <4>4
      <4>7. Range(flatten[i]) = Upto(i)
        BY <1>4, <4>2, <4>3, <4>4, <4>5
      <4> QED
        BY <4>1, <4>6, <4>7
    <3> QED
      BY <3>1, <3>2
  <2>11. \A i \in 0..n : i \in R
    <3> HIDE DEF R
    <3> QED
      BY <1>1, <2>9, <2>10, StepByStep
  <2>12. n \in R
    <3>1. n \in 0..n
      BY <1>1
    <3> HIDE DEF R
    <3> QED
      BY <2>11, <3>1
  <2> QED
    BY <1>1, <1>6, <2>1, <2>12 DEF V
<1> QED
  BY <1>5, <1>6

-----------------------------------------------------------------------------
\* The MIME walk.

Body(parts, type, i) ==
  parts[i].type = type /\ ~parts[i].empty /\ ~IsAttachment(parts[i])

\* v is the first body of a type among the first i leaves, 0 if there is none.
FirstBody(parts, type, v, i) ==
  \/ v = 0 /\ \A j \in 1..i : ~Body(parts, type, j)
  \/ v \in 1..i /\ Body(parts, type, v) /\ \A j \in 1..i : Body(parts, type, j) => v <= j

Walked(w, parts, i) ==
  /\ FirstBody(parts, "text", w.text, i) /\ FirstBody(parts, "html", w.html, i)
  /\ Distinct(w.attachments)
  /\ Range(w.attachments) \subseteq 1..i
  /\ w.text \notin Range(w.attachments) /\ w.html \notin Range(w.attachments)
  /\ \A j \in 1..i : parts[j].name # <<>> /\ ~parts[j].empty =>
        j \in Range(w.attachments) \cup {w.text, w.html}

LEMMA FirstBodyStays ==
  ASSUME NEW parts, NEW type, NEW i \in Nat \ {0}, NEW v \in Nat,
         FirstBody(parts, type, v, i - 1), v = 0 => ~Body(parts, type, i)
  PROVE  FirstBody(parts, type, v, i)
<1>1. 1..i = (1..(i - 1)) \cup {i}
  OBVIOUS
<1>2. v \in 1..(i - 1) => v <= i
  OBVIOUS
<1> QED
  BY <1>1, <1>2 DEF FirstBody

LEMMA FirstBodyFound ==
  ASSUME NEW parts, NEW type, NEW i \in Nat \ {0},
         FirstBody(parts, type, 0, i - 1), Body(parts, type, i)
  PROVE  FirstBody(parts, type, i, i)
<1>1. 1..i = (1..(i - 1)) \cup {i} /\ i \in 1..i /\ i <= i /\ 0 \notin 1..(i - 1)
  OBVIOUS
<1> QED
  BY <1>1 DEF FirstBody

LEMMA AttachmentsGrow ==
  ASSUME NEW n \in Nat, NEW i \in 1..n, NEW a \in Seq(1..n), Distinct(a),
         Range(a) \subseteq 1..(i - 1)
  PROVE  LET x == Append(a, i) IN
         Distinct(x) /\ Range(x) = Range(a) \cup {i}
<1> DEFINE x == Append(a, i)
           m == Len(a)
<1>1. /\ m \in Nat /\ Len(x) = m + 1 /\ x[m + 1] = i /\ \A k \in 1..m : x[k] = a[k]
      /\ DOMAIN a = 1..m /\ DOMAIN x = 1..(m + 1) /\ m = Len(a)
  OBVIOUS
<1>2. \A k \in 1..m : a[k] # i
  <2>1. i \notin 1..(i - 1)
    OBVIOUS
  <2>2. \A k \in 1..m : a[k] \in Range(a)
    BY <1>1 DEF Range
  <2> QED
    BY <2>1, <2>2
<1>3. \A j, k \in 1..m : a[j] = a[k] => j = k
  BY DEF Distinct
<1> HIDE DEF x, m
<1>4. 1..(m + 1) = (1..m) \cup {m + 1}
  BY <1>1
<1>5. ASSUME NEW j \in 1..(m + 1), NEW k \in 1..(m + 1), x[j] = x[k] PROVE j = k
  BY <1>1, <1>2, <1>3, <1>4, <1>5
<1>6. Range(x) = Range(a) \cup {i}
  BY <1>1, <1>4 DEF Range
<1>7. Range(x) = {x[k] : k \in 1..Len(x)}
  BY <1>1 DEF Range
<1>8. Distinct(x)
  BY <1>1, <1>5, <1>7 DEF Distinct
<1> QED
  BY <1>6, <1>8 DEF x

LEMMA WalkStep ==
  ASSUME NEW n \in Nat, NEW parts, NEW i \in 1..n, NEW w \in Walks(n),
         Walked(w, parts, i - 1)
  PROVE  Walked(Take(parts, w, i), parts, i)
<1> DEFINE p == parts[i]
           x == Take(parts, w, i)
           attached == [w EXCEPT !.attachments = Append(@, i)]
           read(type) == IF p.empty THEN 0 ELSE i
<1>1. /\ i \in Nat \ {0} /\ w.text \in Nat /\ w.html \in Nat /\ w.attachments \in Seq(1..n)
      /\ 1..i = (1..(i - 1)) \cup {i} /\ i \notin 1..(i - 1) /\ 0 \notin 1..(i - 1)
  BY DEF Walks
<1>2. /\ FirstBody(parts, "text", w.text, i - 1) /\ FirstBody(parts, "html", w.html, i - 1)
      /\ Distinct(w.attachments)
      /\ Range(w.attachments) \subseteq 1..(i - 1)
      /\ w.text \notin Range(w.attachments) /\ w.html \notin Range(w.attachments)
      /\ \A j \in 1..(i - 1) : parts[j].name # <<>> /\ ~parts[j].empty =>
            j \in Range(w.attachments) \cup {w.text, w.html}
  BY DEF Walked
<1>3. w.text # i /\ w.html # i
  BY <1>1, <1>2 DEF FirstBody
<1>4. CASE /\ x = attached
           /\ Body(parts, "text", i) => w.text # 0
           /\ Body(parts, "html", i) => w.html # 0
  <2>1. x.text = w.text /\ x.html = w.html /\ x.attachments = Append(w.attachments, i)
    BY <1>4 DEF Walks
  <2>2. /\ Distinct(x.attachments)
        /\ Range(x.attachments) = Range(w.attachments) \cup {i}
    BY <1>1, <1>2, <2>1, AttachmentsGrow
  <2>3. FirstBody(parts, "text", x.text, i) /\ FirstBody(parts, "html", x.html, i)
    BY <1>1, <1>2, <1>4, <2>1, FirstBodyStays
  <2> HIDE DEF x
  <2>4. x.text \notin Range(x.attachments) /\ x.html \notin Range(x.attachments)
    BY <1>2, <1>3, <2>1, <2>2
  <2>5. Range(x.attachments) \subseteq 1..i
    BY <1>1, <1>2, <2>2
  <2>6. \A j \in 1..i : parts[j].name # <<>> /\ ~parts[j].empty =>
           j \in Range(x.attachments) \cup {x.text, x.html}
    BY <1>1, <1>2, <2>1, <2>2
  <2> QED
    BY <2>2, <2>3, <2>4, <2>5, <2>6 DEF Walked, x
<1>5. CASE /\ x = w /\ (parts[i].empty \/ parts[i].name = <<>>)
           /\ Body(parts, "text", i) => w.text # 0
           /\ Body(parts, "html", i) => w.html # 0
  <2>1. FirstBody(parts, "text", w.text, i) /\ FirstBody(parts, "html", w.html, i)
    BY <1>1, <1>2, <1>5, FirstBodyStays
  <2>2. \A j \in 1..i : parts[j].name # <<>> /\ ~parts[j].empty =>
           j \in Range(w.attachments) \cup {w.text, w.html}
    BY <1>1, <1>2, <1>5
  <2>3. Range(w.attachments) \subseteq 1..i
    BY <1>1, <1>2
  <2>4. Walked(w, parts, i)
    BY <1>2, <2>1, <2>2, <2>3 DEF Walked
  <2> HIDE DEF x
  <2> QED
    BY <1>5, <2>4 DEF x
<1>6. CASE x = [w EXCEPT !.text = i] /\ w.text = 0 /\ Body(parts, "text", i)
  <2>1. x.text = i /\ x.html = w.html /\ x.attachments = w.attachments
    BY <1>6 DEF Walks
  <2>2. ~Body(parts, "html", i)
    BY <1>6 DEF Body
  <2>3. FirstBody(parts, "text", i, i) /\ FirstBody(parts, "html", w.html, i)
    BY <1>1, <1>2, <1>6, <2>2, FirstBodyStays, FirstBodyFound
  <2>4. \A j \in 1..i : parts[j].name # <<>> /\ ~parts[j].empty =>
           j \in Range(w.attachments) \cup {i, w.html}
    <3>1. \A j \in 1..(i - 1) : j # w.text
      BY <1>1, <1>6
    <3> QED
      BY <1>1, <1>2, <3>1
  <2>5. Range(w.attachments) \subseteq 1..i /\ i \notin Range(w.attachments)
    BY <1>1, <1>2
  <2> HIDE DEF x
  <2> QED
    BY <1>2, <2>1, <2>3, <2>4, <2>5 DEF Walked, x
<1>7. CASE x = [w EXCEPT !.html = i] /\ w.html = 0 /\ Body(parts, "html", i)
  <2>1. x.html = i /\ x.text = w.text /\ x.attachments = w.attachments
    BY <1>7 DEF Walks
  <2>2. ~Body(parts, "text", i)
    BY <1>7 DEF Body
  <2>3. FirstBody(parts, "html", i, i) /\ FirstBody(parts, "text", w.text, i)
    BY <1>1, <1>2, <1>7, <2>2, FirstBodyStays, FirstBodyFound
  <2>4. \A j \in 1..i : parts[j].name # <<>> /\ ~parts[j].empty =>
           j \in Range(w.attachments) \cup {w.text, i}
    <3>1. \A j \in 1..(i - 1) : j # w.html
      BY <1>1, <1>7
    <3> QED
      BY <1>1, <1>2, <3>1
  <2>5. Range(w.attachments) \subseteq 1..i /\ i \notin Range(w.attachments)
    BY <1>1, <1>2
  <2> HIDE DEF x
  <2> QED
    BY <1>2, <2>1, <2>3, <2>4, <2>5 DEF Walked, x
<1>8. CASE IsAttachment(p)
  <2>1. x = attached
    BY <1>8 DEF Take
  <2> HIDE DEF x, attached
  <2> QED
    BY <1>4, <1>8, <2>1 DEF Body
<1>9. CASE ~IsAttachment(p) /\ p.type = "text" /\ w.text = 0
  <2>1. x = [w EXCEPT !.text = IF p.empty THEN 0 ELSE i]
    BY <1>9 DEF Take
  <2>2. CASE p.empty
    <3>1. x = w
      <4>1. [w EXCEPT !.text = 0] = w
        BY <1>9 DEF Walks
      <4> HIDE DEF x
      <4> QED
        BY <2>1, <2>2, <4>1
    <3> HIDE DEF x
    <3> QED
      BY <1>5, <2>2, <3>1 DEF Body
  <2>3. CASE ~p.empty
    <3>1. x = [w EXCEPT !.text = i]
      BY <2>1, <2>3
    <3>2. Body(parts, "text", i)
      BY <1>9, <2>3 DEF Body
    <3> HIDE DEF x
    <3> QED
      BY <1>6, <1>9, <3>1, <3>2
  <2> QED
    BY <2>2, <2>3
<1>10. CASE /\ ~IsAttachment(p) /\ ~(p.type = "text" /\ w.text = 0)
            /\ p.type = "html" /\ w.html = 0
  <2>1. x = [w EXCEPT !.html = IF p.empty THEN 0 ELSE i]
    BY <1>10 DEF Take
  <2>2. CASE p.empty
    <3>1. x = w
      <4>1. [w EXCEPT !.html = 0] = w
        BY <1>10 DEF Walks
      <4> HIDE DEF x
      <4> QED
        BY <2>1, <2>2, <4>1
    <3> HIDE DEF x
    <3> QED
      BY <1>5, <2>2, <3>1 DEF Body
  <2>3. CASE ~p.empty
    <3>1. x = [w EXCEPT !.html = i]
      BY <2>1, <2>3
    <3>2. Body(parts, "html", i)
      BY <1>10, <2>3 DEF Body
    <3> HIDE DEF x
    <3> QED
      BY <1>7, <1>10, <3>1, <3>2
  <2> QED
    BY <2>2, <2>3
<1>11. CASE /\ ~IsAttachment(p) /\ ~(p.type = "text" /\ w.text = 0)
            /\ ~(p.type = "html" /\ w.html = 0)
  <2>1. x = IF p.name # <<>> THEN attached ELSE w
    BY <1>11 DEF Take
  <2> HIDE DEF x, attached
  <2> QED
    BY <1>4, <1>5, <1>11, <2>1 DEF Body
<1> QED
  BY <1>8, <1>9, <1>10, <1>11

LEMMA WalkCovers ==
  ASSUME NEW parts \in Seq(Leaf)
  PROVE  Walk(parts) \in Walks(Len(parts)) /\ Walked(Walk(parts), parts, Len(parts))
<1>1. PICK f : WalkRun(f, parts)
  BY WalkRuns
<1> DEFINE n == Len(parts)
           R == {i \in 0..n : Walked(f[i], parts, i)}
<1>2. /\ n \in Nat /\ f \in [0..n -> Walks(n)] /\ f[0] = EmptyWalk /\ Walk(parts) = f[n]
      /\ \A i \in 1..n : f[i] = Take(parts, f[i - 1], i)
  BY <1>1 DEF WalkRun
<1>3. n \in 0..n /\ 0 \in 0..n
  BY <1>2
<1>4. 0 \in R
  <2>1. Walked(EmptyWalk, parts, 0)
    BY DEF Walked, EmptyWalk, FirstBody, Distinct, Range
  <2> QED
    BY <1>2, <1>3, <2>1
<1>5. ASSUME NEW i \in 1..n, i - 1 \in R PROVE i \in R
  <2>1. i - 1 \in 0..n /\ i \in 0..n
    BY <1>2
  <2>2. f[i - 1] \in Walks(n) /\ Walked(f[i - 1], parts, i - 1)
    BY <1>2, <1>5, <2>1
  <2>3. f[i] = Take(parts, f[i - 1], i)
    BY <1>2
  <2> HIDE DEF n
  <2> QED
    BY <1>2, <2>1, <2>2, <2>3, WalkStep
<1>6. \A i \in 0..n : i \in R
  <2> HIDE DEF R
  <2> QED
    BY <1>2, <1>4, <1>5, StepByStep
<1> QED
  BY <1>2, <1>3, <1>6

\* What a message of any size is walked into is each leaf once.
LEMMA WalkUsesOnce ==
  ASSUME NEW parts \in Seq(Leaf)
  PROVE  LET w == Walk(parts)
             attached == Range(w.attachments)
             Bodies(type) == {i \in DOMAIN parts : /\ parts[i].type = type /\ ~parts[i].empty
                                                   /\ ~IsAttachment(parts[i])}
         IN /\ Cardinality(attached) = Len(w.attachments)
            /\ {w.text, w.html} \cap attached = {}
            /\ \A i \in DOMAIN parts : parts[i].name # <<>> /\ ~parts[i].empty =>
                   i \in attached \cup {w.text, w.html}
            /\ w.text = (IF Bodies("text") = {} THEN 0
                         ELSE CHOOSE i \in Bodies("text") : \A j \in Bodies("text") : i <= j)
            /\ w.html = (IF Bodies("html") = {} THEN 0
                         ELSE CHOOSE i \in Bodies("html") : \A j \in Bodies("html") : i <= j)
<1> DEFINE w == Walk(parts)
           n == Len(parts)
           a == w.attachments
           Bodies(type) == {i \in DOMAIN parts : /\ parts[i].type = type /\ ~parts[i].empty
                                                 /\ ~IsAttachment(parts[i])}
<1>1. w \in Walks(n) /\ Walked(w, parts, n)
  BY WalkCovers
<1> HIDE DEF w
<1>2. n \in Nat /\ DOMAIN parts = 1..n
  OBVIOUS
<1>3. Cardinality(Range(a)) = Len(a)
  <2>1. a \in Seq(1..n) /\ \A j, k \in 1..Len(a) : a[j] = a[k] => j = k
    BY <1>1 DEF Walked, Distinct, Walks
  <2> HIDE DEF a
  <2> QED
    BY <2>1, OnceCounts
<1>4. ASSUME NEW type, NEW v, FirstBody(parts, type, v, n)
      PROVE  v = (IF Bodies(type) = {} THEN 0
                  ELSE CHOOSE i \in Bodies(type) : \A j \in Bodies(type) : i <= j)
  <2>1. \A j \in 1..n : j \in Bodies(type) <=> Body(parts, type, j)
    BY <1>2 DEF Body
  <2>2. Bodies(type) \subseteq 1..n
    BY <1>2
  <2> DEFINE B == Bodies(type)
  <2> HIDE DEF Bodies
  <2>3. CASE v = 0 /\ \A j \in 1..n : ~Body(parts, type, j)
    BY <2>1, <2>2, <2>3
  <2>4. CASE v \in 1..n /\ Body(parts, type, v) /\ \A j \in 1..n : Body(parts, type, j) => v <= j
    <3>1. v \in B /\ \A j \in B : v <= j
      BY <2>1, <2>2, <2>4
    <3>2. \A u \in B : (\A j \in B : u <= j) => u = v
      <4> SUFFICES ASSUME NEW u \in B, \A j \in B : u <= j PROVE u = v
        OBVIOUS
      <4>1. u <= v /\ v <= u /\ u \in 1..n /\ v \in 1..n
        BY <2>2, <2>4, <3>1
      <4> QED
        BY <4>1
    <3> HIDE DEF B
    <3>3. v = CHOOSE i \in B : \A j \in B : i <= j
      BY <3>1, <3>2
    <3> QED
      BY <3>1, <3>3 DEF B
  <2> QED
    BY <1>4, <2>3, <2>4 DEF FirstBody
<1>5. /\ w.text = (IF Bodies("text") = {} THEN 0
                   ELSE CHOOSE i \in Bodies("text") : \A j \in Bodies("text") : i <= j)
      /\ w.html = (IF Bodies("html") = {} THEN 0
                   ELSE CHOOSE i \in Bodies("html") : \A j \in Bodies("html") : i <= j)
  <2>1. FirstBody(parts, "text", w.text, n) /\ FirstBody(parts, "html", w.html, n)
    BY <1>1 DEF Walked
  <2> HIDE DEF Bodies, n
  <2> QED
    BY <1>4, <2>1
<1>6. /\ {w.text, w.html} \cap Range(a) = {}
      /\ \A i \in DOMAIN parts : parts[i].name # <<>> /\ ~parts[i].empty =>
             i \in Range(a) \cup {w.text, w.html}
  BY <1>1, <1>2 DEF Walked
<1> QED
  BY <1>3, <1>5, <1>6 DEF w

-----------------------------------------------------------------------------
\* The anchors.

\* The anchor opened at i is open after the first k tokens; it closes at j; its
\* text up to k.
Opens(tokens, i, k) ==
  /\ i \in 1..k /\ tokens[i].tag = "open" /\ tokens[i].href # NoHref
  /\ \A m \in (i + 1)..k : tokens[m].tag = "data"

Shuts(tokens, i, j) == Opens(tokens, i, j - 1) /\ tokens[j].tag = "close"

Between(tokens, i, k) == [m \in 1..(k - i) |-> tokens[i + m].data]

\* links are the anchors closed among the first k tokens, at the positions c.
Records(c, links, tokens, k) ==
  /\ c \in [1..Len(links) -> 1..k] /\ Increasing(c, Len(links))
  /\ \A n \in 1..Len(links) : \E i \in 1..k :
        /\ Shuts(tokens, i, c[n])
        /\ links[n].href = tokens[i].href /\ links[n].text = Between(tokens, i, c[n] - 1)
  /\ \A i, j \in 1..k : Shuts(tokens, i, j) => \E n \in 1..Len(links) : c[n] = j

Fed(a, tokens, k) ==
  /\ a.href # NoHref => \E i \in 1..k : /\ Opens(tokens, i, k)
                                        /\ a.href = tokens[i].href
                                        /\ a.text = Between(tokens, i, k)
  /\ a.href = NoHref => \A i \in 1..k : ~Opens(tokens, i, k)
  /\ \E c : Records(c, a.links, tokens, k)

LEMMA RecordsStay ==
  ASSUME NEW c, NEW links \in Seq(Anchor), NEW tokens, NEW k \in Nat \ {0},
         Records(c, links, tokens, k - 1), \A i \in 1..k : ~Shuts(tokens, i, k)
  PROVE  Records(c, links, tokens, k)
<1>1. 1..k = (1..(k - 1)) \cup {k}
  OBVIOUS
<1>2. /\ c \in [1..Len(links) -> 1..k] /\ Increasing(c, Len(links))
      /\ \A n \in 1..Len(links) : \E i \in 1..k :
            /\ Shuts(tokens, i, c[n])
            /\ links[n].href = tokens[i].href /\ links[n].text = Between(tokens, i, c[n] - 1)
  BY <1>1 DEF Records
<1>3. ASSUME NEW i \in 1..k, NEW j \in 1..k, Shuts(tokens, i, j)
      PROVE  \E n \in 1..Len(links) : c[n] = j
  <2>1. j # k
    BY <1>3
  <2>2. j \in 1..(k - 1)
    BY <1>1, <2>1
  <2>3. i \in 1..(k - 1)
    BY <1>3, <2>2 DEF Shuts, Opens
  <2> QED
    BY <1>3, <2>2, <2>3 DEF Records
<1> QED
  BY <1>2, <1>3 DEF Records

LEMMA RecordsGrow ==
  ASSUME NEW c, NEW links \in Seq(Anchor), NEW tokens, NEW k \in Nat \ {0},
         Records(c, links, tokens, k - 1), NEW o \in 1..k, Shuts(tokens, o, k),
         NEW l \in Anchor, l.href = tokens[o].href, l.text = Between(tokens, o, k - 1)
  PROVE  \E d : Records(d, Append(links, l), tokens, k)
<1> DEFINE m == Len(links)
           y == Append(links, l)
           d == [n \in 1..(m + 1) |-> IF n = m + 1 THEN k ELSE c[n]]
<1>1. /\ m \in Nat /\ m = Len(links) /\ Len(y) = m + 1 /\ y[m + 1] = l
      /\ \A n \in 1..m : y[n] = links[n]
  OBVIOUS
<1>2. 1..k = (1..(k - 1)) \cup {k} /\ k \notin 1..(k - 1) /\ 1..(m + 1) = (1..m) \cup {m + 1}
  BY <1>1
<1>3. /\ c \in [1..m -> 1..(k - 1)] /\ Increasing(c, m)
      /\ \A n \in 1..m : \E i \in 1..(k - 1) :
            /\ Shuts(tokens, i, c[n])
            /\ links[n].href = tokens[i].href /\ links[n].text = Between(tokens, i, c[n] - 1)
      /\ \A i, j \in 1..(k - 1) : Shuts(tokens, i, j) => \E n \in 1..m : c[n] = j
  BY DEF Records
<1> HIDE DEF m, y
<1>4. /\ d \in [1..(m + 1) -> 1..k] /\ d[m + 1] = k
      /\ \A n \in 1..m : n # m + 1 /\ d[n] = c[n] /\ d[n] \in 1..(k - 1)
  <2>1. \A n \in 1..m : n # m + 1
    BY <1>1
  <2> QED
    BY <1>2, <1>3, <2>1
<1> HIDE DEF d
<1>5. Increasing(d, m + 1)
  <2> SUFFICES ASSUME NEW j \in 1..(m + 1), NEW n \in 1..(m + 1), j < n PROVE d[j] < d[n]
    BY DEF Increasing
  <2>1. j \in 1..m
    BY <1>1
  <2>2. CASE n = m + 1
    BY <1>4, <2>1, <2>2
  <2>3. CASE n \in 1..m
    BY <1>3, <1>4, <2>1, <2>3 DEF Increasing
  <2> QED
    BY <1>2, <2>2, <2>3
<1>6. ASSUME NEW n \in 1..(m + 1)
      PROVE  \E i \in 1..k : /\ Shuts(tokens, i, d[n]) /\ y[n].href = tokens[i].href
                             /\ y[n].text = Between(tokens, i, d[n] - 1)
  <2>1. CASE n = m + 1
    <3>1. Shuts(tokens, o, d[n]) /\ y[n] = l /\ d[n] = k
      BY <1>1, <1>4, <2>1
    <3> QED
      BY <3>1
  <2>2. CASE n \in 1..m
    <3>1. PICK i \in 1..(k - 1) :
             /\ Shuts(tokens, i, c[n])
             /\ links[n].href = tokens[i].href /\ links[n].text = Between(tokens, i, c[n] - 1)
      BY <1>3, <2>2
    <3>2. y[n] = links[n] /\ d[n] = c[n] /\ i \in 1..k
      BY <1>1, <1>2, <1>4, <2>2
    <3> QED
      BY <3>1, <3>2
  <2> QED
    BY <1>2, <2>1, <2>2
<1>7. ASSUME NEW i \in 1..k, NEW j \in 1..k, Shuts(tokens, i, j)
      PROVE  \E n \in 1..(m + 1) : d[n] = j
  <2>1. CASE j = k
    BY <1>2, <1>4, <2>1
  <2>2. CASE j \in 1..(k - 1)
    <3>1. i \in 1..(k - 1)
      BY <1>7, <2>2 DEF Shuts, Opens
    <3>2. PICK n \in 1..m : c[n] = j
      BY <1>3, <1>7, <2>2, <3>1
    <3>3. n \in 1..(m + 1) /\ d[n] = j
      BY <1>2, <1>4, <3>2
    <3> QED
      BY <3>3
  <2> QED
    BY <1>2, <2>1, <2>2
<1>8. Records(d, y, tokens, k)
  BY <1>1, <1>4, <1>5, <1>6, <1>7 DEF Records
<1> QED
  BY <1>8 DEF y

LEMMA FeedStep ==
  ASSUME NEW tokens, NEW k \in Nat \ {0}, tokens[k] \in Readable, NEW a \in Extractor,
         Fed(a, tokens, k - 1), Feed(a, tokens[k]) \in Extractor
  PROVE  Fed(Feed(a, tokens[k]), tokens, k)
<1> DEFINE t == tokens[k]
           x == Feed(a, t)
<1>1. /\ 1..k = (1..(k - 1)) \cup {k} /\ k \notin 1..(k - 1)
      /\ t.tag \in {"open", "data", "close"} /\ a.links \in Seq(Anchor)
  BY DEF Readable, Extractor
<1>2. PICK c : Records(c, a.links, tokens, k - 1)
  BY DEF Fed
<1>3. \A i \in 1..(k - 1) : Opens(tokens, i, k) <=> Opens(tokens, i, k - 1) /\ t.tag = "data"
  <2> SUFFICES ASSUME NEW i \in 1..(k - 1)
               PROVE Opens(tokens, i, k) <=> Opens(tokens, i, k - 1) /\ t.tag = "data"
    OBVIOUS
  <2>1. (i + 1)..k = ((i + 1)..(k - 1)) \cup {k} /\ i \in 1..k
    OBVIOUS
  <2> QED
    BY <2>1 DEF Opens
<1>4. Opens(tokens, k, k) <=> t.tag = "open" /\ t.href # NoHref
  <2>1. (k + 1)..k = {} /\ k \in 1..k
    OBVIOUS
  <2> QED
    BY <2>1 DEF Opens
<1>5. ASSUME NEW i \in 1..k PROVE Shuts(tokens, i, k) <=> Opens(tokens, i, k - 1) /\ t.tag = "close"
  BY DEF Shuts
<1>6. \A i \in 1..k : Opens(tokens, i, k - 1) => i \in 1..(k - 1)
  BY DEF Opens
<1>7. CASE t.tag = "open"
  <2>1. x = [a EXCEPT !.href = t.href, !.text = <<>>]
    BY <1>7 DEF Feed
  <2>2. x.href = t.href /\ x.text = <<>> /\ x.links = a.links
    BY <2>1 DEF Extractor
  <2>3. \A i \in 1..k : ~Shuts(tokens, i, k)
    BY <1>5, <1>7
  <2>4. Records(c, a.links, tokens, k)
    BY <1>1, <1>2, <2>3, RecordsStay
  <2>5. Between(tokens, k, k) = <<>>
    <3>1. 1..(k - k) = {}
      OBVIOUS
    <3> QED
      BY <3>1 DEF Between
  <2>6. x.href # NoHref => \E i \in 1..k : /\ Opens(tokens, i, k) /\ x.href = tokens[i].href
                                           /\ x.text = Between(tokens, i, k)
    BY <1>1, <1>4, <1>7, <2>2, <2>5
  <2>7. x.href = NoHref => \A i \in 1..k : ~Opens(tokens, i, k)
    BY <1>1, <1>3, <1>4, <1>7, <2>2
  <2> HIDE DEF x
  <2>8. Fed(x, tokens, k)
    BY <2>2, <2>4, <2>6, <2>7 DEF Fed
  <2> QED
    BY <2>8 DEF x
<1>8. CASE t.tag # "open" /\ a.href = NoHref
  <2>1. x = a
    BY <1>8 DEF Feed
  <2>2. \A i \in 1..(k - 1) : ~Opens(tokens, i, k - 1)
    BY <1>8 DEF Fed
  <2>3. \A i \in 1..k : ~Opens(tokens, i, k)
    BY <1>1, <1>3, <1>4, <1>8, <2>2
  <2>4. \A i \in 1..k : ~Shuts(tokens, i, k)
    BY <1>5, <1>6, <2>2
  <2>5. Records(c, a.links, tokens, k)
    BY <1>1, <1>2, <2>4, RecordsStay
  <2>6. Fed(a, tokens, k)
    BY <1>8, <2>3, <2>5 DEF Fed
  <2> HIDE DEF x
  <2> QED
    BY <2>1, <2>6 DEF x
<1>9. CASE t.tag # "open" /\ a.href # NoHref
  <2>1. PICK o \in 1..(k - 1) : /\ Opens(tokens, o, k - 1) /\ a.href = tokens[o].href
                                /\ a.text = Between(tokens, o, k - 1)
    BY <1>9 DEF Fed
  <2>2. CASE t.tag = "data"
    <3>1. x = [a EXCEPT !.text = Append(@, t.data)]
      BY <1>9, <2>2 DEF Feed
    <3>2. x.href = a.href /\ x.text = Append(a.text, t.data) /\ x.links = a.links
      BY <3>1 DEF Extractor
    <3>3. \A i \in 1..k : ~Shuts(tokens, i, k)
      BY <1>5, <2>2
    <3>4. Records(c, a.links, tokens, k)
      BY <1>1, <1>2, <3>3, RecordsStay
    <3>5. x.text = Between(tokens, o, k)
      <4> DEFINE u == Between(tokens, o, k - 1)
                 v == Between(tokens, o, k)
                 m == (k - 1) - o
                 D == Seq(STRING)
      <4>1. m \in Nat /\ k - o = m + 1 /\ o + (m + 1) = k
        OBVIOUS
      <4>2. u = [q \in 1..m |-> tokens[o + q].data] /\ v = [q \in 1..(m + 1) |-> tokens[o + q].data]
        BY <4>1 DEF Between
      <4>3. u \in Seq(D)
        BY <2>1 DEF Extractor, Texts
      <4> HIDE DEF u, v, m, D
      <4>4. Len(u) = m
        <5>1. DOMAIN u = 1..m
          BY <4>2
        <5>2. Len(u) \in Nat /\ DOMAIN u = 1..Len(u)
          BY <4>3
        <5> QED
          BY <4>1, <5>1, <5>2
      <4>5. Append(u, t.data) = v
        <5> DEFINE z == Append(u, t.data)
        <5>1. z = [q \in 1..(m + 1) |-> IF q = m + 1 THEN t.data ELSE u[q]]
          BY <4>1, <4>3, <4>4
        <5>2. ASSUME NEW q \in 1..(m + 1)
              PROVE  (IF q = m + 1 THEN t.data ELSE u[q]) = tokens[o + q].data
          <6>1. CASE q = m + 1
            BY <4>1, <6>1
          <6>2. CASE q # m + 1
            <7>1. q \in 1..m
              BY <4>1, <6>2
            <7> QED
              BY <4>2, <6>2, <7>1
          <6> QED
            BY <6>1, <6>2
        <5> HIDE DEF z
        <5>3. z = v
          BY <4>2, <5>1, <5>2
        <5> QED
          BY <5>3 DEF z
      <4>6. x.text = Append(u, t.data)
        BY <2>1, <3>2 DEF u
      <4> QED
        BY <4>5, <4>6 DEF v
    <3>6. Opens(tokens, o, k) /\ o \in 1..k
      BY <1>1, <1>3, <2>1, <2>2
    <3> HIDE DEF x
    <3>7. Fed(x, tokens, k)
      BY <1>9, <2>1, <3>2, <3>4, <3>5, <3>6 DEF Fed
    <3> QED
      BY <3>7 DEF x
  <2>3. CASE t.tag = "close"
    <3> DEFINE l == [href |-> a.href, text |-> a.text]
    <3>1. x = [a EXCEPT !.href = NoHref, !.text = <<>>, !.links = Recorded(a)]
      BY <1>9, <2>3 DEF Feed
    <3>2. x.href = NoHref /\ x.links = Append(a.links, l)
      BY <3>1 DEF Extractor, Recorded
    <3>3. Shuts(tokens, o, k) /\ o \in 1..k
      BY <1>1, <1>5, <2>1, <2>3
    <3>4. l \in Anchor /\ l.href = tokens[o].href /\ l.text = Between(tokens, o, k - 1)
      BY <2>1 DEF Extractor, Anchor
    <3> HIDE DEF l
    <3>5. \E d : Records(d, Append(a.links, l), tokens, k)
      BY <1>1, <1>2, <3>3, <3>4, RecordsGrow
    <3>6. \A i \in 1..k : ~Opens(tokens, i, k)
      BY <1>1, <1>3, <1>4, <2>3
    <3> HIDE DEF x
    <3>7. Fed(x, tokens, k)
      BY <3>2, <3>5, <3>6 DEF Fed
    <3> QED
      BY <3>7 DEF x
  <2> QED
    BY <1>1, <1>9, <2>2, <2>3
<1> QED
  BY <1>7, <1>8, <1>9

LEMMA ExtractRecords ==
  ASSUME NEW tokens \in Seq(Readable)
  PROVE  /\ Extract(tokens) \in Seq(Anchor)
         /\ \E c : Records(c, Extract(tokens), tokens, Len(tokens))
<1>1. PICK f : ExtractRun(f, tokens)
  BY ExtractRuns
<1> DEFINE n == Len(tokens)
           R == {i \in 0..n : Fed(f[i], tokens, i)}
<1>2. /\ n \in Nat /\ f \in [0..n -> Extractor] /\ f[0] = NoAnchor
      /\ Extract(tokens) = f[n].links
      /\ \A i \in 1..n : f[i] = Feed(f[i - 1], tokens[i])
  BY <1>1 DEF ExtractRun
<1>3. n \in 0..n /\ 0 \in 0..n /\ \A i \in 1..n : tokens[i] \in Readable
  BY <1>2
<1>4. 0 \in R
  <2>1. Records(<<>>, <<>>, tokens, 0)
    BY DEF Records, Increasing
  <2>2. NoAnchor.href = NoHref /\ NoAnchor.links = <<>>
    BY DEF NoAnchor
  <2>3. Fed(NoAnchor, tokens, 0)
    BY <2>1, <2>2 DEF Fed
  <2> QED
    BY <1>2, <1>3, <2>3
<1>5. ASSUME NEW i \in 1..n, i - 1 \in R PROVE i \in R
  <2>1. i - 1 \in 0..n /\ i \in 0..n /\ i \in Nat \ {0}
    BY <1>2
  <2>2. f[i - 1] \in Extractor /\ Fed(f[i - 1], tokens, i - 1) /\ f[i] \in Extractor
    BY <1>2, <1>5, <2>1
  <2>3. f[i] = Feed(f[i - 1], tokens[i])
    BY <1>2
  <2> HIDE DEF n
  <2> QED
    BY <1>3, <2>1, <2>2, <2>3, FeedStep
<1>6. \A i \in 0..n : i \in R
  <2> HIDE DEF R
  <2> QED
    BY <1>2, <1>4, <1>5, StepByStep
<1>7. f[n] \in Extractor /\ Fed(f[n], tokens, n)
  BY <1>2, <1>3, <1>6
<1> QED
  BY <1>2, <1>7 DEF Fed, Extractor

Closes(tokens, i, j) ==
  /\ i < j /\ tokens[i].tag = "open" /\ tokens[j].tag = "close"
  /\ tokens[i].href \notin {NoHref, Blank}
  /\ \A k \in i+1..j-1 : tokens[k].tag = "data"

Ends(tokens) == {j \in DOMAIN tokens : \E i \in DOMAIN tokens : Closes(tokens, i, j)}

Visible(all) == Only(all, {a \in Range(all) : a.href # Blank})

\* The links of an HTML body, and where each of them closes.
Finds(d, links, tokens) ==
  /\ d \in [1..Len(links) -> 1..Len(tokens)] /\ Increasing(d, Len(links))
  /\ Ends(tokens) = {d[n] : n \in 1..Len(links)}
  /\ \A n \in 1..Len(links) : \E i \in DOMAIN tokens :
        /\ Closes(tokens, i, d[n]) /\ links[n].href = tokens[i].href
        /\ links[n].text = [k \in 1..d[n]-i-1 |-> tokens[i + k].data]

LEMMA VisibleFinds ==
  ASSUME NEW tokens \in Seq(Readable)
  PROVE  LET links == Visible(Extract(tokens)) IN
         links \in Seq(Anchor) /\ \E d : Finds(d, links, tokens)
<1> DEFINE all == Extract(tokens)
           links == Visible(all)
           n == Len(tokens)
           p == Len(links)
           S == {a \in Range(all) : a.href # Blank}
<1>1. n \in Nat /\ DOMAIN tokens = 1..n
  OBVIOUS
<1>2. PICK c : all \in Seq(Anchor) /\ Records(c, all, tokens, n)
  BY ExtractRecords
<1>3. PICK e : links \in Seq(Anchor) /\ Selects(e, links, all, S, Len(all))
  BY <1>2, OnlySelects DEF Visible
<1> HIDE DEF all
<1>4. Len(all) \in Nat /\ DOMAIN all = 1..Len(all)
  BY <1>2
<1>5. \A k \in 1..Len(all) : all[k] \in S <=> all[k].href # Blank
  BY <1>4 DEF Range
<1>6. /\ c \in [1..Len(all) -> 1..n] /\ Increasing(c, Len(all))
      /\ \A k \in 1..Len(all) : \E i \in 1..n :
            /\ Shuts(tokens, i, c[k])
            /\ all[k].href = tokens[i].href /\ all[k].text = Between(tokens, i, c[k] - 1)
      /\ \A i, j \in 1..n : Shuts(tokens, i, j) => \E k \in 1..Len(all) : c[k] = j
  BY <1>2 DEF Records
<1>7. /\ e \in [1..p -> 1..Len(all)] /\ Increasing(e, p)
      /\ \A k \in 1..p : links[k] = all[e[k]]
      /\ \A k \in 1..Len(all) : all[k].href # Blank <=> \E q \in 1..p : e[q] = k
  BY <1>3, <1>5 DEF Selects
<1>8. p \in Nat
  BY <1>3
<1> HIDE DEF links, p, n
<1> DEFINE d == [k \in 1..p |-> c[e[k]]]
<1>9. d \in [1..p -> 1..n] /\ Increasing(d, p)
  <2>1. d \in [1..p -> 1..n]
    BY <1>6, <1>7
  <2>2. ASSUME NEW j \in 1..p, NEW k \in 1..p, j < k PROVE d[j] < d[k]
    <3>1. e[j] < e[k] /\ e[j] \in 1..Len(all) /\ e[k] \in 1..Len(all)
      BY <1>7, <2>2 DEF Increasing
    <3> QED
      BY <1>6, <3>1 DEF Increasing
  <2> QED
    BY <2>1, <2>2 DEF Increasing
<1>10. ASSUME NEW i \in 1..n, NEW j \in 1..n
       PROVE  Closes(tokens, i, j) <=> Shuts(tokens, i, j) /\ tokens[i].href # Blank
  <2>1. i < j <=> i \in 1..(j - 1)
    BY <1>1
  <2> QED
    BY <2>1 DEF Closes, Shuts, Opens
<1>11. \A i, o, j \in 1..n : Shuts(tokens, i, j) /\ Shuts(tokens, o, j) => i = o
  <2> SUFFICES ASSUME NEW i \in 1..n, NEW o \in 1..n, NEW j \in 1..n,
                      Shuts(tokens, i, j), Shuts(tokens, o, j), i < o
               PROVE  FALSE
    BY <1>1
  <2>1. o \in (i + 1)..(j - 1) /\ tokens[o].tag = "open"
    BY <1>1 DEF Shuts, Opens
  <2>2. tokens[o].tag = "data"
    BY <2>1 DEF Shuts, Opens
  <2> QED
    BY <2>1, <2>2
<1>12. ASSUME NEW k \in 1..p
       PROVE  \E i \in 1..n : /\ Closes(tokens, i, d[k]) /\ links[k].href = tokens[i].href
                              /\ links[k].text = [m \in 1..d[k]-i-1 |-> tokens[i + m].data]
  <2>1. e[k] \in 1..Len(all) /\ links[k] = all[e[k]] /\ all[e[k]].href # Blank /\ d[k] = c[e[k]]
    BY <1>7
  <2> HIDE DEF d
  <2>2. PICK i \in 1..n :
           /\ Shuts(tokens, i, d[k])
           /\ links[k].href = tokens[i].href /\ links[k].text = Between(tokens, i, d[k] - 1)
    <3> DEFINE q == e[k]
    <3>1. PICK i \in 1..n :
             /\ Shuts(tokens, i, c[q])
             /\ all[q].href = tokens[i].href /\ all[q].text = Between(tokens, i, c[q] - 1)
      <4>1. q \in 1..Len(all)
        BY <2>1
      <4> HIDE DEF q
      <4> QED
        BY <1>6, <4>1
    <3> QED
      BY <2>1, <3>1
  <2>3. d[k] \in 1..n
    BY <1>9
  <2>4. Closes(tokens, i, d[k])
    BY <1>10, <2>1, <2>2, <2>3
  <2>5. Between(tokens, i, d[k] - 1) = [m \in 1..d[k]-i-1 |-> tokens[i + m].data]
    <3>1. (d[k] - 1) - i = d[k]-i-1
      BY <1>1, <2>3
    <3> QED
      BY <3>1 DEF Between
  <2> QED
    BY <2>2, <2>4, <2>5
<1>13. Ends(tokens) = {d[k] : k \in 1..p}
  <2>1. ASSUME NEW j, j \in Ends(tokens) PROVE \E k \in 1..p : d[k] = j
    <3>1. PICK i \in 1..n : j \in 1..n /\ Closes(tokens, i, j)
      BY <1>1, <2>1 DEF Ends
    <3>2. Shuts(tokens, i, j) /\ tokens[i].href # Blank
      BY <1>10, <3>1
    <3>3. PICK k \in 1..Len(all) : c[k] = j
      BY <1>6, <3>1, <3>2
    <3>4. PICK o \in 1..n : Shuts(tokens, o, j) /\ all[k].href = tokens[o].href
      BY <1>6, <3>3
    <3>5. o = i
      BY <1>11, <3>1, <3>2, <3>4
    <3>6. PICK q \in 1..p : e[q] = k
      BY <1>7, <3>2, <3>4, <3>5
    <3>7. d[q] = j
      BY <3>3, <3>6
    <3> QED
      BY <3>7
  <2>2. ASSUME NEW k \in 1..p PROVE d[k] \in Ends(tokens)
    BY <1>1, <1>9, <1>12 DEF Ends
  <2> QED
    BY <2>1, <2>2
<1> HIDE DEF d
<1>14. Finds(d, links, tokens)
  BY <1>1, <1>9, <1>12, <1>13 DEF Finds, n, p
<1> QED
  BY <1>3, <1>14 DEF links, all

\* Of two stretches of links the second is selected whole, in its order.
LEMMA OnlyTheSecond ==
  ASSUME NEW T, NEW s \in Seq(T), NEW t \in Seq(T), NEW S,
         \A i \in 1..Len(s) : s[i] \notin S, \A i \in 1..Len(t) : t[i] \in S
  PROVE  LET o == Only(s \o t, S) IN
         o \in Seq(T) /\ Len(o) = Len(t) /\ \A i \in 1..Len(t) : o[i] = t[i]
<1> DEFINE u == s \o t
           o == Only(u, S)
           m == Len(s)
           q == Len(t)
           p == Len(o)
<1>1. /\ u \in Seq(T) /\ m \in Nat /\ q \in Nat /\ Len(u) = m + q
      /\ \A i \in 1..m : u[i] = s[i]
      /\ \A i \in 1..q : u[m + i] = t[i]
  OBVIOUS
<1>2. PICK e : o \in Seq(T) /\ Selects(e, o, u, S, Len(u))
  BY <1>1, OnlySelects
<1>3. p \in Nat
  BY <1>2
<1>4. /\ e \in [1..p -> 1..(m + q)] /\ Increasing(e, p)
      /\ \A k \in 1..p : o[k] = u[e[k]]
      /\ \A i \in 1..(m + q) : u[i] \in S <=> \E k \in 1..p : e[k] = i
  BY <1>1, <1>2 DEF Selects
<1> HIDE DEF u, o, p
<1> DEFINE P == {e[k] : k \in 1..p}
<1>5. \A i \in 1..(m + q) : u[i] \in S <=> i \in (m + 1)..(m + q)
  <2> SUFFICES ASSUME NEW i \in 1..(m + q) PROVE u[i] \in S <=> i \in (m + 1)..(m + q)
    OBVIOUS
  <2>1. CASE i \in 1..m
    BY <1>1, <2>1
  <2>2. CASE i \notin 1..m
    <3>1. i - m \in 1..q /\ m + (i - m) = i /\ i \in (m + 1)..(m + q)
      BY <1>1, <2>2
    <3>2. u[i] = t[i - m] /\ t[i - m] \in S
      BY <1>1, <3>1
    <3> QED
      BY <3>1, <3>2
  <2> QED
    BY <2>1, <2>2
<1> HIDE DEF m, q
<1>6. P = (m + 1)..(m + q)
  <2>1. (m + 1)..(m + q) \subseteq 1..(m + q)
    BY <1>1
  <2> QED
    BY <1>4, <1>5, <2>1
<1>7. Cardinality(P) = p /\ \A n \in 1..p : Cardinality({k \in P : k <= e[n]}) = n
  <2> DEFINE N == m + q
  <2>1. N \in Nat /\ Enumerates(e, p, N)
    BY <1>1, <1>4 DEF Enumerates
  <2>2. Counts(e, p)
    <3> HIDE DEF N
    <3> QED
      BY <1>3, <2>1, EnumerationCounts
  <2> QED
    BY <2>2 DEF Counts
<1>8. \A r \in 0..q : Cardinality((m + 1)..(m + r)) = r
  <2> SUFFICES ASSUME NEW r \in 0..q PROVE Cardinality((m + 1)..(m + r)) = r
    OBVIOUS
  <2> DEFINE a == m + 1
             b == m + r
  <2>1. a \in Int /\ b \in Int /\ r \in Nat /\ (a > b <=> r = 0) /\ b - a + 1 = r
    BY <1>1
  <2> HIDE DEF a, b
  <2>2. Cardinality(a..b) = IF a > b THEN 0 ELSE b - a + 1
    BY <2>1, FS_Interval
  <2> QED
    BY <2>1, <2>2 DEF a, b
<1>9. p = q
  <2>1. q \in 0..q
    BY <1>1
  <2> QED
    BY <1>6, <1>7, <1>8, <2>1
<1>10. ASSUME NEW n \in 1..p PROVE e[n] = m + n
  <2>1. e[n] \in (m + 1)..(m + q)
    BY <1>6
  <2> DEFINE r == e[n] - m
  <2>2. r \in 0..q /\ e[n] = m + r
    BY <1>1, <2>1
  <2> HIDE DEF r, P
  <2>3. {k \in P : k <= e[n]} = (m + 1)..(m + r)
    <3>1. ASSUME NEW k PROVE k \in (m + 1)..(m + q) /\ k <= m + r <=> k \in (m + 1)..(m + r)
      BY <1>1, <2>2
    <3> QED
      BY <1>6, <2>2, <3>1
  <2> QED
    BY <1>7, <1>8, <2>2, <2>3
<1>11. \A i \in 1..q : o[i] = t[i]
  BY <1>1, <1>4, <1>9, <1>10
<1> QED
  BY <1>2, <1>9, <1>11 DEF o, u, p, q

\* What is kept of a body is as the body was.
LEMMA CutType ==
  ASSUME NEW T, NEW content \in Seq(T)
  PROVE  Cut(content) \in Seq(T)
<1>1. MaxBody \in Nat /\ Len(content) \in Nat
  BY EmailAnalysisAssumption
<1>2. CASE Len(content) <= MaxBody
  BY <1>2 DEF Cut
<1>3. CASE ~(Len(content) <= MaxBody)
  <2>1. SubSeq(content, 1, MaxBody) \in Seq(T)
    BY <1>1, <1>3
  <2> QED
    BY <1>3, <2>1 DEF Cut
<1> QED
  BY <1>2, <1>3

\* Tokens the parser does not trip over are readable.
LEMMA NoTripReads ==
  ASSUME NEW tokens \in Seq(Token), ~Trips(tokens)
  PROVE  tokens \in Seq(Readable)
<1>1. \A i \in DOMAIN tokens : tokens[i] \in Token /\ tokens[i].tag # "trips"
  BY DEF Trips
<1>2. \A t \in Token : t.tag # "trips" => t \in Readable
  BY DEF Token, Readable
<1>3. \A i \in DOMAIN tokens : tokens[i] \in Readable
  BY <1>1, <1>2
<1> QED
  BY <1>3

\* A selection out of nothing selected is empty.
LEMMA OnlyNone ==
  ASSUME NEW T, NEW s \in Seq(T), NEW S, \A i \in 1..Len(s) : s[i] \notin S
  PROVE  Only(s, S) = <<>>
<1> DEFINE o == Only(s, S)
           p == Len(o)
<1>1. PICK e : o \in Seq(T) /\ Selects(e, o, s, S, Len(s))
  BY OnlySelects
<1>2. p \in Nat
  BY <1>1
<1>3. /\ e \in [1..p -> 1..Len(s)]
      /\ \A i \in 1..Len(s) : s[i] \in S <=> \E k \in 1..p : e[k] = i
  BY <1>1 DEF Selects
<1>4. p = 0
  <2> HIDE DEF o, p
  <2> SUFFICES ASSUME p # 0 PROVE FALSE
    OBVIOUS
  <2>1. 1 \in 1..p
    BY <1>2
  <2>2. e[1] \in 1..Len(s)
    BY <1>3, <2>1
  <2> QED
    BY <1>3, <2>1, <2>2
<1>5. o = <<>>
  <2> HIDE DEF o
  <2> QED
    BY <1>1, <1>4
<1> QED
  BY <1>5

\* With an error there are no anchors, and none is found among the links.
LEMMA VisibleIsSeq ==
  ASSUME NEW tokens \in Seq(Token)
  PROVE  /\ Visible(Extract(tokens)) \in Seq(Anchor)
         /\ Trips(tokens) => Visible(Extract(tokens)) = <<>>
<1>1. CASE ~Trips(tokens)
  BY <1>1, NoTripReads, VisibleFinds
<1>2. CASE Trips(tokens)
  <2>1. Extract(tokens) = <<>>
    BY <1>2 DEF Extract
  <2> DEFINE e == Extract(tokens)
  <2>2. e \in Seq(Anchor) /\ Len(e) = 0
    BY <2>1
  <2> HIDE DEF e
  <2> DEFINE S == {a \in Range(e) : a.href # Blank}
  <2>3. \A i \in 1..Len(e) : e[i] \notin S
    BY <2>2
  <2> HIDE DEF S
  <2>4. Only(e, S) = <<>>
    BY <2>2, <2>3, OnlyNone
  <2> QED
    BY <2>4 DEF Visible, S, e
<1> QED
  BY <1>1, <1>2

\* The anchors among the links are those an HTML reader sees in the tokens.
Complete(links, tokens) ==
  LET Nth(n) == CHOOSE j \in Ends(tokens) : Cardinality({k \in Ends(tokens) : k <= j}) = n
      Start(j) == CHOOSE i \in DOMAIN tokens : Closes(tokens, i, j)
      found == Only(links, {l \in Range(links) : l.source = "html"})
  IN /\ Len(found) = Cardinality(Ends(tokens))
     /\ \A n \in DOMAIN found :
            LET j == Nth(n)  i == Start(j)
            IN /\ found[n].href = tokens[i].href
               /\ found[n].text = [k \in 1..j-i-1 |-> tokens[i + k].data]

LEMMA LinksAreComplete ==
  ASSUME NEW m, IsMessage(m), Walk(m.parts).html # 0,
         ~Trips(Cut(m.parts[Walk(m.parts).html].content))
  PROVE  LET w == Walk(m.parts) IN Complete(Links(m, w), Cut(m.parts[w.html].content))
<1> DEFINE parts == m.parts
           w == Walk(parts)
           links == Links(m, w)
           tokens == Cut(parts[w.html].content)
           found == Only(links, {l \in Range(links) : l.source = "html"})
           urls == IF w.text = 0 THEN <<>> ELSE Cut(parts[w.text].content)
           anchors == Visible(Extract(tokens))
           s == [i \in DOMAIN urls |-> [href |-> urls[i], text |-> <<>>, source |-> "text"]]
           t == [i \in DOMAIN anchors |->
                   [href |-> anchors[i].href, text |-> anchors[i].text, source |-> "html"]]
<1>1. parts \in Seq(Leaf) /\ w.html # 0
  BY DEF IsMessage
<1>2. w \in Walks(Len(parts)) /\ Walked(w, parts, Len(parts))
  BY <1>1, WalkCovers
<1>3. w.html \in DOMAIN parts /\ parts[w.html].type = "html"
  BY SMTT(30), <1>1, <1>2 DEF Walked, FirstBody, Body
<1>4. tokens \in Seq(Readable)
  BY <1>3, CutType, NoTripReads DEF IsMessage
<1>5. urls \in Seq(Target)
  <2>1. CASE w.text = 0
    BY <2>1
  <2>2. CASE w.text # 0
    <3>1. w.text \in DOMAIN parts /\ parts[w.text].type = "text"
      BY <1>1, <1>2, <2>2 DEF Walked, FirstBody, Body
    <3> QED
      BY <2>2, <3>1, CutType DEF IsMessage
  <2> QED
    BY <2>1, <2>2
<1>6. links = s \o t
  BY <1>1 DEF Links, Visible
<1> HIDE DEF w, tokens, urls, links
<1>7. PICK d : anchors \in Seq(Anchor) /\ Finds(d, anchors, tokens)
  BY <1>4, VisibleFinds
<1> HIDE DEF anchors
<1>8. Len(found) = Len(anchors) /\ DOMAIN found = 1..Len(found)
      /\ \A n \in 1..Len(anchors) : found[n].href = anchors[n].href /\ found[n].text = anchors[n].text
  <2> DEFINE T == {s[i] : i \in DOMAIN urls} \cup {t[i] : i \in DOMAIN anchors}
             S == {l \in Range(links) : l.source = "html"}
  <2>1. DOMAIN urls = 1..Len(urls) /\ Len(urls) \in Nat /\ DOMAIN anchors = 1..Len(anchors) /\ Len(anchors) \in Nat
    BY <1>5, <1>7
  <2>2. /\ s \in [1..Len(urls) -> T] /\ t \in [1..Len(anchors) -> T]
        /\ \A i \in 1..Len(urls) : s[i].source = "text"
        /\ \A i \in 1..Len(anchors) :
              t[i].source = "html" /\ t[i].href = anchors[i].href /\ t[i].text = anchors[i].text
    BY <2>1
  <2> HIDE DEF s, t, T
  <2>3. s \in Seq(T) /\ t \in Seq(T) /\ Len(s) = Len(urls) /\ Len(t) = Len(anchors)
    <3> DEFINE a == Len(urls)
               b == Len(anchors)
    <3>1. a \in Nat /\ b \in Nat /\ s \in [1..a -> T] /\ t \in [1..b -> T]
      BY <2>1, <2>2
    <3> HIDE DEF a, b
    <3>2. s \in Seq(T) /\ Len(s) = a
      BY <3>1
    <3>3. t \in Seq(T) /\ Len(t) = b
      BY <3>1
    <3> QED
      BY <3>2, <3>3 DEF a, b
  <2>4. \A i \in 1..Len(t) : t[i] \in Range(links)
    <3>1. /\ \A i \in 1..Len(t) : (s \o t)[Len(s) + i] = t[i]
          /\ \A i \in 1..Len(t) : Len(s) + i \in DOMAIN (s \o t)
      BY <2>3
    <3> QED
      BY <1>6, <3>1 DEF Range
  <2>5. \A i \in 1..Len(s) : s[i] \notin S
    BY <2>2, <2>3
  <2>6. \A i \in 1..Len(t) : t[i] \in S
    BY <2>2, <2>3, <2>4
  <2>7. Only(s \o t, S) \in Seq(T) /\ Len(Only(s \o t, S)) = Len(t)
        /\ \A i \in 1..Len(t) : Only(s \o t, S)[i] = t[i]
    <3> HIDE DEF S
    <3> QED
      BY <2>3, <2>5, <2>6, OnlyTheSecond
  <2>8. found = Only(s \o t, S)
    BY <1>6
  <2> HIDE DEF found, S
  <2> QED
    BY <2>2, <2>3, <2>7, <2>8
<1> DEFINE p == Len(anchors)
           N == Len(tokens)
           ends == Ends(tokens)
<1>9. p \in Nat /\ N \in Nat /\ DOMAIN tokens = 1..N
  BY <1>4, <1>7
<1>10. /\ d \in [1..p -> 1..N] /\ Increasing(d, p)
       /\ ends = {d[n] : n \in 1..p}
       /\ \A n \in 1..p : \E i \in 1..N :
             /\ Closes(tokens, i, d[n]) /\ anchors[n].href = tokens[i].href
             /\ anchors[n].text = [k \in 1..d[n]-i-1 |-> tokens[i + k].data]
  BY <1>7, <1>9 DEF Finds
<1> HIDE DEF p, N, ends
<1>11. Cardinality(ends) = p /\ \A n \in 1..p : Cardinality({k \in ends : k <= d[n]}) = n
  <2>1. Counts(d, p)
    BY <1>9, <1>10, EnumerationCounts DEF Enumerates
  <2> QED
    BY <1>10, <2>1 DEF Counts
<1>12. DOMAIN found = 1..p
  BY <1>8 DEF p
<1>13. ASSUME NEW n \in 1..p
       PROVE  LET j == CHOOSE j \in ends : Cardinality({k \in ends : k <= j}) = n
                  i == CHOOSE i \in DOMAIN tokens : Closes(tokens, i, j)
              IN /\ found[n].href = tokens[i].href
                 /\ found[n].text = [k \in 1..j-i-1 |-> tokens[i + k].data]
  <2> DEFINE j == CHOOSE j \in ends : Cardinality({k \in ends : k <= j}) = n
             i == CHOOSE i \in DOMAIN tokens : Closes(tokens, i, j)
  <2>1. PICK o \in 1..N :
           /\ Closes(tokens, o, d[n]) /\ anchors[n].href = tokens[o].href
           /\ anchors[n].text = [k \in 1..d[n]-o-1 |-> tokens[o + k].data]
    BY <1>10
  <2>2. d[n] \in ends /\ Cardinality({k \in ends : k <= d[n]}) = n
    BY <1>10, <1>11
  <2>3. \A q \in ends : Cardinality({k \in ends : k <= q}) = n => q = d[n]
    <3> SUFFICES ASSUME NEW q \in ends, Cardinality({k \in ends : k <= q}) = n PROVE q = d[n]
      OBVIOUS
    <3>1. PICK r \in 1..p : q = d[r]
      BY <1>10
    <3>2. r = n
      BY <1>11, <3>1
    <3> QED
      BY <3>1, <3>2
  <2>4. j = d[n]
    <3>1. j \in ends /\ Cardinality({k \in ends : k <= j}) = n
      BY <2>2
    <3> HIDE DEF j
    <3> QED
      BY <2>3, <3>1
  <2>5. \A q \in 1..N : Closes(tokens, q, d[n]) => q = o
    <3> SUFFICES ASSUME NEW q \in 1..N, Closes(tokens, q, d[n]), q # o PROVE FALSE
      OBVIOUS
    <3>1. d[n] \in 1..N
      BY <1>10
    <3>2. CASE q < o
      <4>1. o \in q+1..d[n]-1
        BY <1>9, <2>1, <3>1, <3>2 DEF Closes
      <4> QED
        BY <2>1, <4>1 DEF Closes
    <3>3. CASE o < q
      <4>1. q \in o+1..d[n]-1
        BY <1>9, <2>1, <3>1, <3>3 DEF Closes
      <4> QED
        BY <2>1, <4>1 DEF Closes
    <3> QED
      BY <1>9, <3>2, <3>3
  <2> HIDE DEF j
  <2>6. i = o
    BY <1>9, <2>1, <2>4, <2>5
  <2> HIDE DEF i
  <2>7. found[n].href = anchors[n].href /\ found[n].text = anchors[n].text
    BY <1>8 DEF p
  <2>8. /\ found[n].href = tokens[i].href
        /\ found[n].text = [k \in 1..j-i-1 |-> tokens[i + k].data]
    BY <2>1, <2>4, <2>6, <2>7
  <2> QED
    BY <2>8 DEF i, j
<1>14. Len(found) = Cardinality(ends)
  BY <1>8, <1>11 DEF p
<1> QED
  BY <1>12, <1>13, <1>14 DEF Complete, found, links, tokens, w, ends

\* A body the parser trips over gives no link.
LEMMA NoLinksAfterAnError ==
  ASSUME NEW m, IsMessage(m), Walk(m.parts).html # 0,
         Trips(Cut(m.parts[Walk(m.parts).html].content))
  PROVE  LET links == Links(m, Walk(m.parts))
         IN Only(links, {l \in Range(links) : l.source = "html"}) = <<>>
<1> DEFINE parts == m.parts
           w == Walk(parts)
           links == Links(m, w)
           tokens == Cut(parts[w.html].content)
           urls == IF w.text = 0 THEN <<>> ELSE Cut(parts[w.text].content)
           anchors == Visible(Extract(tokens))
           s == [i \in DOMAIN urls |-> [href |-> urls[i], text |-> <<>>, source |-> "text"]]
           t == [i \in DOMAIN anchors |->
                   [href |-> anchors[i].href, text |-> anchors[i].text, source |-> "html"]]
           S == {l \in Range(links) : l.source = "html"}
<1>1. parts \in Seq(Leaf) /\ w.html # 0
  BY DEF IsMessage
<1>2. w \in Walks(Len(parts)) /\ Walked(w, parts, Len(parts))
  BY <1>1, WalkCovers
<1>3. w.html \in DOMAIN parts /\ parts[w.html].type = "html"
  BY SMTT(30), <1>1, <1>2 DEF Walked, FirstBody, Body
<1>4. anchors = <<>>
  BY <1>3, CutType, VisibleIsSeq DEF IsMessage
<1>5. urls \in Seq(Target)
  <2>1. CASE w.text = 0
    BY <2>1
  <2>2. CASE w.text # 0
    <3>1. w.text \in DOMAIN parts /\ parts[w.text].type = "text"
      BY SMTT(30), <1>1, <1>2, <2>2 DEF Walked, FirstBody, Body
    <3> QED
      BY <2>2, <3>1, CutType DEF IsMessage
  <2> QED
    BY <2>1, <2>2
<1>6. links = s \o t
  BY <1>1 DEF Links, Visible
<1>7. t = <<>>
  BY <1>4
<1> HIDE DEF w, tokens, urls, links, anchors, t
<1>8. DOMAIN urls = 1..Len(urls) /\ Len(urls) \in Nat
  BY <1>5
<1> DEFINE T == {s[i] : i \in DOMAIN urls}
<1>9. s \in [1..Len(urls) -> T] /\ \A i \in 1..Len(urls) : s[i].source = "text"
  BY <1>8
<1> HIDE DEF s, T
<1>10. s \in Seq(T) /\ Len(s) = Len(urls)
  BY <1>8, <1>9
<1>11. links = s
  BY <1>6, <1>7, <1>10
<1>12. \A i \in 1..Len(s) : s[i] \notin S
  BY <1>9, <1>10
<1> HIDE DEF S
<1>13. Only(s, S) = <<>>
  BY <1>10, <1>12, OnlyNone
<1> QED
  BY <1>11, <1>13 DEF links, w, S

-----------------------------------------------------------------------------
\* The sort by severity.

Severities == {"high", "medium", "low"}

\* o is what s has of the severities V, worst first and stable; q says where.
Sorts(q, o, s, V) ==
  /\ q \in [1..Len(o) -> 1..Len(s)]
  /\ \A j \in 1..Len(o) : o[j] = s[q[j]]
  /\ \A j, k \in 1..Len(o) : q[j] = q[k] => j = k
  /\ \A i \in 1..Len(s) : s[i].severity \in V <=> \E j \in 1..Len(o) : q[j] = i
  /\ \A j, k \in 1..Len(o) : j < k =>
        \/ Rank(o[j]) > Rank(o[k])
        \/ Rank(o[j]) = Rank(o[k]) /\ q[j] < q[k]

LEMMA OneSeverity ==
  ASSUME NEW T, NEW s \in Seq(T), NEW v \in Severities
  PROVE  Of(v, s) \in Seq(T) /\ \E e : Sorts(e, Of(v, s), s, {v})
<1> DEFINE S == {f \in Range(s) : f.severity = v}
           o == Of(v, s)
<1>1. PICK e : o \in Seq(T) /\ Selects(e, o, s, S, Len(s))
  BY OnlySelects DEF Of
<1> HIDE DEF o
<1>2. \A i \in 1..Len(s) : s[i] \in S <=> s[i].severity = v
  BY DEF Range
<1>3. /\ e \in [1..Len(o) -> 1..Len(s)] /\ Increasing(e, Len(o))
      /\ \A k \in 1..Len(o) : o[k] = s[e[k]]
      /\ \A i \in 1..Len(s) : s[i].severity = v <=> \E k \in 1..Len(o) : e[k] = i
  BY <1>1, <1>2 DEF Selects
<1> DEFINE p == Len(o)
<1>4. p \in Nat
  BY <1>1
<1> HIDE DEF p
<1>5. \A j, k \in 1..p : e[j] = e[k] => j = k
  <2> SUFFICES ASSUME NEW j \in 1..p, NEW k \in 1..p, e[j] = e[k], j # k PROVE FALSE
    OBVIOUS
  <2>1. e[j] < e[k] \/ e[k] < e[j]
    BY <1>3, <1>4 DEF Increasing, p
  <2> QED
    BY <1>3, <2>1 DEF p
<1>6. \A j \in 1..p : o[j].severity = v
  BY <1>3 DEF p
<1>7. \A j, k \in 1..p : j < k => Rank(o[j]) = Rank(o[k]) /\ e[j] < e[k]
  BY <1>3, <1>6 DEF Rank, Increasing, p
<1>8. Sorts(e, o, s, {v})
  BY <1>3, <1>5, <1>7 DEF Sorts, p
<1> QED
  BY <1>1, <1>8 DEF o

LEMMA SortsJoin ==
  ASSUME NEW T, NEW s \in Seq(T), NEW o \in Seq(T), NEW x \in Seq(T), NEW q, NEW e,
         NEW V, NEW v, v \notin V, Sorts(q, o, s, V), Sorts(e, x, s, {v}),
         \A f, g \in T : f.severity \in V /\ g.severity = v => Rank(f) > Rank(g)
  PROVE  o \o x \in Seq(T) /\ \E r : Sorts(r, o \o x, s, V \cup {v})
<1> DEFINE z == o \o x
           m == Len(o)
           p == Len(x)
           n == Len(s)
           r == [j \in 1..(m + p) |-> IF j <= m THEN q[j] ELSE e[j - m]]
<1>1. /\ m \in Nat /\ p \in Nat /\ n \in Nat /\ Len(z) = m + p /\ z \in Seq(T)
      /\ \A j \in 1..m : z[j] = o[j]
      /\ \A j \in 1..p : z[m + j] = x[j]
      /\ \A j \in 1..m : o[j] \in T
      /\ \A j \in 1..p : x[j] \in T
  OBVIOUS
<1>2. /\ q \in [1..m -> 1..n] /\ \A j \in 1..m : o[j] = s[q[j]]
      /\ \A j, k \in 1..m : q[j] = q[k] => j = k
      /\ \A i \in 1..n : s[i].severity \in V <=> \E j \in 1..m : q[j] = i
      /\ \A j, k \in 1..m : j < k => \/ Rank(o[j]) > Rank(o[k])
                                     \/ Rank(o[j]) = Rank(o[k]) /\ q[j] < q[k]
  BY DEF Sorts
<1>3. /\ e \in [1..p -> 1..n] /\ \A j \in 1..p : x[j] = s[e[j]]
      /\ \A j, k \in 1..p : e[j] = e[k] => j = k
      /\ \A i \in 1..n : s[i].severity = v <=> \E j \in 1..p : e[j] = i
      /\ \A j, k \in 1..p : j < k => \/ Rank(x[j]) > Rank(x[k])
                                     \/ Rank(x[j]) = Rank(x[k]) /\ e[j] < e[k]
  BY DEF Sorts
<1> HIDE DEF z, m, p, n
<1>4. \A j \in 1..m : o[j].severity \in V
  BY <1>2
<1>5. \A j \in 1..p : x[j].severity = v
  BY <1>3
<1>6. \A j \in 1..(m + p) : \/ j \in 1..m /\ j <= m
                            \/ ~(j <= m) /\ j - m \in 1..p /\ m + (j - m) = j
  BY <1>1
<1>7. \A j \in 1..m : j \in 1..(m + p) /\ r[j] = q[j]
  <2>1. \A j \in 1..m : j \in 1..(m + p) /\ j <= m
    BY <1>1
  <2> QED
    BY <2>1
<1>8. \A j \in 1..p : m + j \in 1..(m + p) /\ r[m + j] = e[j]
  <2>1. \A j \in 1..p : m + j \in 1..(m + p) /\ ~(m + j <= m) /\ (m + j) - m = j
    BY <1>1
  <2> QED
    BY <2>1
<1>9. r \in [1..(m + p) -> 1..n]
  <2>1. ASSUME NEW j \in 1..(m + p) PROVE (IF j <= m THEN q[j] ELSE e[j - m]) \in 1..n
    BY <1>2, <1>3, <1>6
  <2> QED
    BY <2>1
<1> HIDE DEF r
<1>10. ASSUME NEW j \in 1..(m + p)
       PROVE  \/ j \in 1..m /\ z[j] = o[j] /\ r[j] = q[j]
              \/ \E i \in 1..p : j = m + i /\ z[j] = x[i] /\ r[j] = e[i]
  <2>1. CASE j \in 1..m
    BY <1>1, <1>7, <2>1
  <2>2. CASE j \notin 1..m
    <3>1. j - m \in 1..p /\ j = m + (j - m)
      BY <1>6, <2>2
    <3>2. z[m + (j - m)] = x[j - m] /\ r[m + (j - m)] = e[j - m]
      BY <1>1, <1>8, <3>1
    <3> QED
      BY <3>1, <3>2
  <2> QED
    BY <2>1, <2>2
<1>11. \A j \in 1..(m + p) : z[j] = s[r[j]]
  BY <1>2, <1>3, <1>10
<1>12. ASSUME NEW j \in 1..m, NEW k \in 1..p PROVE q[j] # e[k]
  <2>1. q[j] \in 1..n /\ o[j] = s[q[j]] /\ s[q[j]].severity \in V
    BY <1>2, <1>4
  <2>2. e[k] \in 1..n /\ x[k] = s[e[k]] /\ s[e[k]].severity = v
    BY <1>3, <1>5
  <2> QED
    BY <2>1, <2>2
<1>13. ASSUME NEW j \in 1..(m + p), NEW k \in 1..(m + p), r[j] = r[k] PROVE j = k
  <2>1. CASE j \in 1..m /\ r[j] = q[j] /\ k \in 1..m /\ r[k] = q[k]
    <3>1. q[j] = q[k]
      BY <1>13, <2>1
    <3> QED
      BY <1>2, <2>1, <3>1
  <2>2. CASE \E i, l \in 1..p : j = m + i /\ r[j] = e[i] /\ k = m + l /\ r[k] = e[l]
    <3>1. PICK i \in 1..p, l \in 1..p : j = m + i /\ k = m + l /\ e[i] = e[l]
      BY <1>13, <2>2
    <3>2. i = l
      BY <1>3, <3>1
    <3> QED
      BY <3>1, <3>2
  <2>3. CASE j \in 1..m /\ r[j] = q[j] /\ \E l \in 1..p : r[k] = e[l]
    BY <1>12, <1>13, <2>3
  <2>4. CASE k \in 1..m /\ r[k] = q[k] /\ \E i \in 1..p : r[j] = e[i]
    BY <1>12, <1>13, <2>4
  <2>5. /\ (j \in 1..m /\ r[j] = q[j]) \/ \E i \in 1..p : j = m + i /\ r[j] = e[i]
        /\ (k \in 1..m /\ r[k] = q[k]) \/ \E i \in 1..p : k = m + i /\ r[k] = e[i]
    BY <1>10
  <2> QED
    BY <2>1, <2>2, <2>3, <2>4, <2>5
<1>14. ASSUME NEW i \in 1..n
       PROVE  s[i].severity \in V \cup {v} <=> \E j \in 1..(m + p) : r[j] = i
  <2>1. (\E j \in 1..m : q[j] = i) => \E j \in 1..(m + p) : r[j] = i
    BY <1>7
  <2>2. (\E j \in 1..p : e[j] = i) => \E j \in 1..(m + p) : r[j] = i
    BY <1>8
  <2>3. (\E j \in 1..(m + p) : r[j] = i) =>
          (\E j \in 1..m : q[j] = i) \/ (\E j \in 1..p : e[j] = i)
    BY <1>10
  <2>4. s[i].severity \in V <=> \E j \in 1..m : q[j] = i
    BY <1>2
  <2>5. s[i].severity = v <=> \E j \in 1..p : e[j] = i
    BY <1>3
  <2> QED
    BY <2>1, <2>2, <2>3, <2>4, <2>5
<1>15. ASSUME NEW j \in 1..(m + p), NEW k \in 1..(m + p), j < k
       PROVE  \/ Rank(z[j]) > Rank(z[k])
              \/ Rank(z[j]) = Rank(z[k]) /\ r[j] < r[k]
  <2>1. CASE j \in 1..m /\ k \in 1..m
    <3>1. z[j] = o[j] /\ z[k] = o[k] /\ r[j] = q[j] /\ r[k] = q[k]
      BY <1>1, <1>7, <2>1
    <3> QED
      BY <1>2, <1>15, <2>1, <3>1
  <2>2. CASE j \in 1..m /\ k \notin 1..m
    <3>1. PICK i \in 1..p : z[k] = x[i]
      BY <1>10, <2>2
    <3>2. z[j] = o[j]
      BY <1>1, <2>2
    <3>3. Rank(o[j]) > Rank(x[i])
      BY <1>1, <1>4, <1>5, <2>2
    <3> QED
      BY <3>1, <3>2, <3>3
  <2>3. CASE j \notin 1..m
    <3>1. k \notin 1..m
      BY <1>1, <1>15, <2>3
    <3>2. PICK i \in 1..p : j = m + i /\ z[j] = x[i] /\ r[j] = e[i]
      BY <1>10, <2>3
    <3>3. PICK l \in 1..p : k = m + l /\ z[k] = x[l] /\ r[k] = e[l]
      BY <1>10, <3>1
    <3>4. i < l
      BY <1>1, <1>15, <3>2, <3>3
    <3>5. \/ Rank(x[i]) > Rank(x[l])
          \/ Rank(x[i]) = Rank(x[l]) /\ e[i] < e[l]
      BY <1>3, <3>4
    <3> QED
      BY <3>2, <3>3, <3>5
  <2> QED
    BY <2>1, <2>2, <2>3
<1>16. Sorts(r, z, s, V \cup {v})
  BY <1>1, <1>9, <1>11, <1>13, <1>14, <1>15 DEF Sorts, n
<1> QED
  BY <1>1, <1>16 DEF z

LEMMA WorstToLeastSorts ==
  ASSUME NEW T, NEW s \in Seq(T)
  PROVE  WorstToLeast(s) \in Seq(T) /\ \E q : Sorts(q, WorstToLeast(s), s, Severities)
<1> DEFINE h == Of("high", s)
           m == Of("medium", s)
           l == Of("low", s)
           hm == h \o m
<1>1. "high" \in Severities /\ "medium" \in Severities /\ "low" \in Severities
  BY DEF Severities
<1>2. PICK a : h \in Seq(T) /\ Sorts(a, h, s, {"high"})
  BY <1>1, OneSeverity
<1>3. PICK b : m \in Seq(T) /\ Sorts(b, m, s, {"medium"})
  BY <1>1, OneSeverity
<1>4. PICK c : l \in Seq(T) /\ Sorts(c, l, s, {"low"})
  BY <1>1, OneSeverity
<1>5. WorstToLeast(s) = hm \o l
  BY DEF WorstToLeast
<1> HIDE DEF h, m, l
<1>6. \A f, g : f.severity \in {"high"} /\ g.severity = "medium" => Rank(f) > Rank(g)
  BY DEF Rank
<1>7. \A f, g : f.severity \in {"high"} \cup {"medium"} /\ g.severity = "low" => Rank(f) > Rank(g)
  BY DEF Rank
<1>8. "medium" \notin {"high"} /\ "low" \notin {"high"} \cup {"medium"}
  OBVIOUS
<1> DEFINE HM == {"high"} \cup {"medium"}
<1>9. PICK d : hm \in Seq(T) /\ Sorts(d, hm, s, HM)
  <2> DEFINE H == {"high"}  v == "medium"
  <2>1. v \notin H /\ Sorts(a, h, s, H) /\ Sorts(b, m, s, {v})
        /\ \A f, g \in T : f.severity \in H /\ g.severity = v => Rank(f) > Rank(g)
    BY <1>2, <1>3, <1>6, <1>8
  <2>2. h \o m \in Seq(T) /\ \E r : Sorts(r, h \o m, s, H \cup {v})
    <3> HIDE DEF H, v
    <3> QED
      BY <1>2, <1>3, <2>1, SortsJoin
  <2> QED
    BY <2>2
<1> HIDE DEF hm
<1>10. hm \o l \in Seq(T) /\ \E r : Sorts(r, hm \o l, s, HM \cup {"low"})
  <2> DEFINE v == "low"
  <2>1. v \notin HM /\ Sorts(c, l, s, {v})
        /\ \A f, g \in T : f.severity \in HM /\ g.severity = v => Rank(f) > Rank(g)
    BY <1>4, <1>7, <1>8
  <2>2. hm \o l \in Seq(T) /\ \E r : Sorts(r, hm \o l, s, HM \cup {v})
    <3> HIDE DEF HM, v
    <3> QED
      BY <1>4, <1>9, <2>1, SortsJoin
  <2> QED
    BY <2>2
<1>11. HM \cup {"low"} = Severities
  BY DEF Severities
<1> QED
  BY <1>5, <1>10, <1>11

-----------------------------------------------------------------------------
\* What the analyzers say.

\* A finding of an analyzer; findings of one analyzer, in a sequence.
Judged(f, c) ==
  /\ f.category = c /\ f.severity \in Severities
  /\ f.indicator = "double_extension" => c = "attachment"

Says(s, c) == s \in Seq(Range(s)) /\ \A f \in Range(s) : Judged(f, c)

LEMMA SaysNothing ==
  ASSUME NEW c
  PROVE  Says(<<>>, c)
BY DEF Says, Range

LEMMA SaysOne ==
  ASSUME NEW c, NEW f, Judged(f, c)
  PROVE  Says(<<f>>, c) /\ Range(<<f>>) = {f}
<1>1. Range(<<f>>) = {f}
  BY DEF Range
<1>2. <<f>> \in Seq({f})
  OBVIOUS
<1> QED
  BY <1>1, <1>2 DEF Says

LEMMA SaysIf ==
  ASSUME NEW c, NEW f, Judged(f, c), NEW condition
  PROVE  Says(If(condition, f), c)
BY SaysNothing, SaysOne DEF If

LEMMA SaysBoth ==
  ASSUME NEW c, NEW s, NEW t, Says(s, c), Says(t, c)
  PROVE  Says(s \o t, c) /\ Range(s \o t) = Range(s) \cup Range(t)
<1> DEFINE T == Range(s) \cup Range(t)
<1>1. s \in Seq(T) /\ t \in Seq(T)
  <2>1. s \in Seq(Range(s)) /\ t \in Seq(Range(t)) /\ Range(s) \subseteq T /\ Range(t) \subseteq T
    BY DEF Says
  <2> HIDE DEF T
  <2> QED
    BY <2>1
<1>2. Range(s \o t) = T
  BY <1>1, RangeConcatenation
<1>3. s \o t \in Seq(T)
  <2> HIDE DEF T
  <2> QED
    BY <1>1
<1> QED
  BY <1>2, <1>3 DEF Says

LEMMA SaysAll ==
  ASSUME NEW c, NEW n \in Nat, NEW ss, DOMAIN ss = 1..n, ss = [i \in 1..n |-> ss[i]],
         \A i \in 1..n : Says(ss[i], c)
  PROVE  /\ Says(FlattenSeq(ss), c)
         /\ Range(FlattenSeq(ss)) = UNION {Range(ss[i]) : i \in DOMAIN ss}
<1> DEFINE T == UNION {Range(ss[i]) : i \in DOMAIN ss}
<1>1. ASSUME NEW i \in 1..n PROVE ss[i] \in Seq(T)
  <2>1. ss[i] \in Seq(Range(ss[i])) /\ Range(ss[i]) \subseteq T
    BY DEF Says
  <2> HIDE DEF T
  <2> QED
    BY <2>1
<1> HIDE DEF T
<1>2. ss \in Seq(Seq(T))
  BY <1>1
<1>3. FlattenSeq(ss) \in Seq(T) /\ Range(FlattenSeq(ss)) = T
  BY <1>2, FlattenHas DEF T
<1>4. \A f \in T : Judged(f, c)
  BY DEF Says, T
<1> QED
  BY <1>3, <1>4 DEF Says, T

LEMMA AuthSays ==
  ASSUME NEW m
  PROVE  Says(AuthFindings(m), "authentication")
<1> DEFINE c == "authentication"
           ss == [i \in 1..3 |-> OfResult(m, Mechanisms[i])]
           absent == Finding("authentication", "auth_absent", "low", <<>>)
           b == \A mech \in Range(Mechanisms) : Result(m, mech) = "absent"
<1>1. ASSUME NEW mech \in {"spf", "dkim", "dmarc"} PROVE Says(OfResult(m, mech), c)
  <2> DEFINE r == Result(m, mech)
             Say(severity) == <<Finding("authentication", mech, severity, <<<<r>>>>)>>
  <2>1. \A severity \in Severities : Judged(Finding("authentication", mech, severity, <<<<r>>>>), c)
    BY DEF Judged, Finding
  <2>2. \A severity \in Severities : Says(Say(severity), c)
    BY <2>1, SaysOne
  <2>3. "high" \in Severities /\ "medium" \in Severities /\ "low" \in Severities
    BY DEF Severities
  <2> HIDE DEF Say, r
  <2>4. OfResult(m, mech) =
          CASE r = "fail" -> Say("high") [] r = "softfail" -> Say("medium")
            [] r \in {"permerror", "temperror"} -> Say("low")
            [] r = "none" -> Say(IF mech = "dmarc" THEN "medium" ELSE "low")
            [] OTHER -> <<>>
    BY DEF OfResult, Say, r
  <2> QED
    BY <2>2, <2>3, <2>4, SaysNothing
<1>2. \A i \in 1..3 : Mechanisms[i] \in {"spf", "dkim", "dmarc"}
  BY DEF Mechanisms
<1>3. \A i \in 1..3 : Says(ss[i], c)
  BY <1>1, <1>2
<1>4. Says(FlattenSeq(ss), c)
  <2>1. DOMAIN ss = 1..3 /\ ss = [i \in 1..3 |-> ss[i]] /\ 3 \in Nat
    OBVIOUS
  <2> HIDE DEF ss, c
  <2> QED
    BY <1>3, <2>1, SaysAll
<1>5. Judged(absent, c)
  BY DEF Judged, Finding, Severities
<1> HIDE DEF absent, b, c, ss
<1>6. Says(If(b, absent), c)
  BY <1>5, SaysIf
<1>7. AuthFindings(m) = FlattenSeq(ss) \o If(b, absent)
  BY DEF AuthFindings, ss, b, absent
<1> QED
  BY <1>4, <1>6, <1>7, SaysBoth DEF c

LEMMA SenderSays ==
  ASSUME NEW m
  PROVE  Says(SenderFindings(m), "sender")
<1> DEFINE c == "sender"
           borrowed == Only(Brands, {b \in m.display : ~Names(m.from, b)})
           s1 == If(Differs(m.reply_to, m.from),
                    Finding("sender", "reply_to_mismatch", "medium", <<m.from, m.reply_to>>))
           s2 == If(Differs(m.return_path, m.from),
                    Finding("sender", "return_path_mismatch", "low", <<m.from, m.return_path>>))
           s3 == If(is_raw_ip(m.from), Finding("sender", "sender_raw_ip", "high", <<m.from>>))
           s4 == If("xn--" \in Range(m.from),
                    Finding("sender", "punycode_domain", "medium", <<m.from>>))
           s5 == If(m.from # NoHost /\ borrowed # <<>>,
                    Finding("sender", "display_name_brand_mismatch", "high",
                            <<m.from, borrowed>>))
<1>1. \A e : /\ Judged(Finding("sender", "reply_to_mismatch", "medium", e), c)
             /\ Judged(Finding("sender", "return_path_mismatch", "low", e), c)
             /\ Judged(Finding("sender", "sender_raw_ip", "high", e), c)
             /\ Judged(Finding("sender", "punycode_domain", "medium", e), c)
             /\ Judged(Finding("sender", "display_name_brand_mismatch", "high", e), c)
  BY DEF Judged, Finding, Severities
<1>2. Says(s1, c) /\ Says(s2, c) /\ Says(s3, c) /\ Says(s4, c) /\ Says(s5, c)
  <2> HIDE DEF c, borrowed
  <2> QED
    BY <1>1, SaysIf
<1>3. SenderFindings(m) = (((s1 \o s2) \o s3) \o s4) \o s5
  BY DEF SenderFindings
<1> HIDE DEF c, s1, s2, s3, s4, s5
<1>4. Says((s1 \o s2) \o s3, c)
  BY <1>2, SaysBoth
<1>5. Says((((s1 \o s2) \o s3) \o s4) \o s5, c)
  BY <1>2, <1>4, SaysBoth
<1> QED
  BY <1>3, <1>5 DEF c

Warned(s) ==
  \A f \in Range(s) : f.indicator = "double_extension" =>
     \E g \in Range(s) : g.indicator \in {"executable_attachment", "script_attachment"}
                         /\ g.evidence = f.evidence

LEMMA AttachmentSays ==
  ASSUME NEW name
  PROVE  Says(OfAttachment(name), "attachment") /\ Warned(OfAttachment(name))
<1> DEFINE c == "attachment"
           ext == extension(name)
           Kind(indicator, severity) == <<Finding("attachment", indicator, severity, <<name>>)>>
           two == /\ Len(name) >= 3
                  /\ name[Len(name) - 1] \in doc_ext
                  /\ ext \in executable_ext \cup script_ext
           f0 == Finding("attachment", "double_extension", "high", <<name>>)
           kind == CASE ext \in executable_ext -> Kind("executable_attachment", "high")
                     [] ext \in script_ext     -> Kind("script_attachment", "high")
                     [] ext \in macro_ext      -> Kind("macro_office_attachment", "medium")
                     [] ext \in archive_ext    -> Kind("archive_attachment", "low")
                     [] OTHER                  -> <<>>
           f1 == Finding("attachment", "executable_attachment", "high", <<name>>)
           f2 == Finding("attachment", "script_attachment", "high", <<name>>)
           f3 == Finding("attachment", "macro_office_attachment", "medium", <<name>>)
           f4 == Finding("attachment", "archive_attachment", "low", <<name>>)
<1>1. OfAttachment(name) = If(two, f0) \o kind
  BY DEF OfAttachment
<1>2. Judged(f0, c) /\ Judged(f1, c) /\ Judged(f2, c) /\ Judged(f3, c) /\ Judged(f4, c)
  BY DEF Judged, Finding, Severities
<1>3. /\ f1.indicator = "executable_attachment" /\ f1.evidence = <<name>>
      /\ f2.indicator = "script_attachment" /\ f2.evidence = <<name>>
      /\ f0.indicator = "double_extension" /\ f0.evidence = <<name>>
      /\ f3.indicator # "double_extension" /\ f4.indicator # "double_extension"
  BY DEF Finding
<1>4. /\ kind \in {<<f1>>, <<f2>>, <<f3>>, <<f4>>, <<>>}
      /\ two => kind \in {<<f1>>, <<f2>>}
  <2>1. ext \in executable_ext => kind = <<f1>>
    BY DEF executable_ext, script_ext, macro_ext, archive_ext
  <2>2. ext \in script_ext => kind = <<f2>>
    BY DEF executable_ext, script_ext, macro_ext, archive_ext
  <2>3. ext \in macro_ext => kind = <<f3>>
    BY DEF executable_ext, script_ext, macro_ext, archive_ext
  <2>4. ext \in archive_ext => kind = <<f4>>
    BY DEF executable_ext, script_ext, macro_ext, archive_ext
  <2>5. ext \notin executable_ext \cup script_ext \cup macro_ext \cup archive_ext => kind = <<>>
    OBVIOUS
  <2>6. two => ext \in executable_ext \cup script_ext
    OBVIOUS
  <2> HIDE DEF ext, kind, two, f1, f2, f3, f4
  <2> QED
    BY <2>1, <2>2, <2>3, <2>4, <2>5, <2>6
<1> HIDE DEF c, two, kind, f0, f1, f2, f3, f4
<1>5. Says(kind, c) /\ Says(If(two, f0), c)
  BY <1>2, <1>4, SaysOne, SaysNothing, SaysIf
<1>6. Says(OfAttachment(name), c) /\ Range(OfAttachment(name)) = Range(If(two, f0)) \cup Range(kind)
  <2> DEFINE a == If(two, f0)
  <2>1. Says(a, c)
    BY <1>5
  <2> HIDE DEF a
  <2>2. Says(a \o kind, c)
    BY <1>5, <2>1, SaysBoth
  <2>3. \A s, t : Says(s, c) /\ Says(t, c) => Range(s \o t) = Range(s) \cup Range(t)
    BY SaysBoth
  <2>4. Range(a \o kind) = Range(a) \cup Range(kind)
    BY <1>5, <2>1, <2>3
  <2> QED
    BY <1>1, <2>2, <2>4 DEF a
<1>7. Range(<<f0>>) = {f0} /\ Range(<<f1>>) = {f1} /\ Range(<<f2>>) = {f2}
      /\ Range(<<f3>>) = {f3} /\ Range(<<f4>>) = {f4}
  BY <1>2, SaysOne
<1>8. Range(<<>>) = {}
  BY DEF Range
<1>9. Warned(OfAttachment(name))
  <2>1. CASE two
    <3>1. Range(If(two, f0)) = {f0}
      BY <1>7, <2>1 DEF If
    <3> QED
      BY <1>3, <1>4, <1>6, <1>7, <2>1, <3>1 DEF Warned
  <2>2. CASE ~two
    <3>1. Range(If(two, f0)) = {}
      BY <1>8, <2>2 DEF If
    <3>2. \A f \in Range(kind) : f.indicator # "double_extension"
      BY <1>3, <1>4, <1>7, <1>8
    <3> QED
      BY <1>6, <3>1, <3>2 DEF Warned
  <2> QED
    BY <2>1, <2>2
<1> QED
  BY <1>6, <1>9 DEF c

\* The findings among F that are said after some links are those of S.  What
\* add() keys them by tells them apart.
Key(f) == <<f.indicator, f.evidence>>

Severity(indicator) ==
  IF indicator \in {"dangerous_scheme", "link_display_mismatch"} THEN "high"
  ELSE IF indicator = "link_excessive_encoding" THEN "low" ELSE "medium"

Keyed(F) ==
  \A f \in F : /\ f = Finding("link", f.indicator, Severity(f.indicator), f.evidence)
               /\ Judged(f, "link")

SaidOf(a, S, F) ==
  /\ a \in [seen : SUBSET {Key(f) : f \in F}, said : Seq(F)]
  /\ S \subseteq F /\ a.seen = {Key(f) : f \in S} /\ Range(a.said) = S
  /\ Distinct(a.said)

LEMMA AppendOnce ==
  ASSUME NEW F, NEW s \in Seq(F), NEW f \in F, f \notin Range(s), Distinct(s)
  PROVE  LET t == Append(s, f) IN
         t \in Seq(F) /\ Range(t) = Range(s) \cup {f} /\ Distinct(t)
<1> DEFINE m == Len(s)
           t == Append(s, f)
<1>1. /\ m \in Nat /\ m = Len(s) /\ Len(t) = m + 1 /\ t[m + 1] = f /\ t \in Seq(F)
      /\ \A k \in 1..m : t[k] = s[k]
  OBVIOUS
<1>2. DOMAIN s = 1..m /\ DOMAIN t = 1..(m + 1)
  BY <1>1
<1> HIDE DEF t, m
<1>3. \A k \in 1..m : s[k] # f
  BY <1>2 DEF Range
<1>4. ASSUME NEW j \in 1..(m + 1), NEW k \in 1..(m + 1), t[j] = t[k] PROVE j = k
  <2>1. (j = m + 1 \/ j \in 1..m) /\ (k = m + 1 \/ k \in 1..m)
    BY <1>1
  <2> QED
    BY <1>1, <1>3, <1>4, <2>1 DEF Distinct, m
<1>5. Range(t) = Range(s) \cup {f}
  <2>1. 1..(m + 1) = (1..m) \cup {m + 1}
    BY <1>1
  <2> QED
    BY <1>1, <1>2, <2>1 DEF Range
<1> QED
  BY <1>1, <1>4, <1>5 DEF t, Distinct

LEMMA AddSays ==
  ASSUME NEW F, Keyed(F), NEW S, NEW a, SaidOf(a, S, F), NEW indicator, NEW evidence,
         NEW f \in F, f = Finding("link", indicator, Severity(indicator), evidence)
  PROVE  SaidOf(Add(a, indicator, Severity(indicator), evidence), S \cup {f}, F)
<1> DEFINE x == Add(a, indicator, Severity(indicator), evidence)
           key == <<indicator, evidence>>
<1>1. f.indicator = indicator /\ f.evidence = evidence /\ Key(f) = key
  BY DEF Finding, Key
<1>2. /\ a.said \in Seq(F) /\ S \subseteq F /\ a.seen = {Key(g) : g \in S}
      /\ Range(a.said) = S /\ a.seen \subseteq {Key(g) : g \in F}
      /\ Distinct(a.said)
  BY DEF SaidOf
<1>3. key \in a.seen <=> f \in S
  <2>1. ASSUME NEW g \in S, Key(g) = key PROVE g = f
    <3>1. g.indicator = indicator /\ g.evidence = evidence
      BY <2>1 DEF Key
    <3>2. g = Finding("link", g.indicator, Severity(g.indicator), g.evidence)
      BY <1>2 DEF Keyed
    <3> QED
      BY <3>1, <3>2
  <2> QED
    BY <1>1, <1>2, <2>1
<1>4. CASE f \in S
  <2>1. x = a /\ S \cup {f} = S
    BY <1>3, <1>4 DEF Add
  <2> QED
    BY <2>1
<1>5. CASE f \notin S
  <2>1. x = [seen |-> a.seen \cup {key}, said |-> Append(a.said, f)]
    BY <1>3, <1>5 DEF Add
  <2>2. /\ Append(a.said, f) \in Seq(F) /\ Range(Append(a.said, f)) = S \cup {f}
        /\ Distinct(Append(a.said, f))
    BY <1>2, <1>5, AppendOnce
  <2>3. a.seen \cup {key} = {Key(g) : g \in S \cup {f}}
    BY <1>1, <1>2
  <2>4. a.seen \cup {key} \subseteq {Key(g) : g \in F} /\ S \cup {f} \subseteq F
    BY <1>1, <1>2
  <2>5. x.seen = a.seen \cup {key} /\ x.said = Append(a.said, f)
        /\ x \in [seen : SUBSET {Key(g) : g \in F}, said : Seq(F)]
    BY <2>1, <2>2, <2>4
  <2> HIDE DEF x
  <2>6. SaidOf(x, S \cup {f}, F)
    BY <2>2, <2>3, <2>4, <2>5 DEF SaidOf
  <2> QED
    BY <2>6 DEF x
<1> QED
  BY <1>4, <1>5

\* The same, when a condition holds.
SaidWhen(condition, indicator, evidence) ==
  IF condition THEN {Finding("link", indicator, Severity(indicator), evidence)} ELSE {}

LEMMA AddIfSays ==
  ASSUME NEW F, Keyed(F), NEW S, NEW a, SaidOf(a, S, F), NEW indicator, NEW evidence,
         NEW condition, SaidWhen(condition, indicator, evidence) \subseteq F
  PROVE  SaidOf(AddIf(condition, a, indicator, Severity(indicator), evidence),
                S \cup SaidWhen(condition, indicator, evidence), F)
<1>1. CASE condition
  <2> DEFINE f == Finding("link", indicator, Severity(indicator), evidence)
  <2>1. SaidWhen(condition, indicator, evidence) = {f} /\ f \in F
    BY <1>1 DEF SaidWhen
  <2>2. AddIf(condition, a, indicator, Severity(indicator), evidence)
          = Add(a, indicator, Severity(indicator), evidence)
    BY <1>1 DEF AddIf
  <2> HIDE DEF f
  <2>3. SaidOf(Add(a, indicator, Severity(indicator), evidence), S \cup {f}, F)
    BY <2>1, AddSays DEF f
  <2> QED
    BY <2>1, <2>2, <2>3
<1>2. CASE ~condition
  <2>1. SaidWhen(condition, indicator, evidence) = {} /\ S \cup {} = S
    BY <1>2 DEF SaidWhen
  <2>2. AddIf(condition, a, indicator, Severity(indicator), evidence) = a
    BY <1>2 DEF AddIf
  <2> QED
    BY <2>1, <2>2
<1> QED
  BY <1>1, <1>2

\* A link's part of what is said: nothing else, whatever was said before.
LEMMA JudgeSays ==
  ASSUME NEW F, Keyed(F), NEW S, NEW a, SaidOf(a, S, F), NEW link, OfLink(link) \subseteq F
  PROVE  SaidOf(Judge(a, link), S \cup OfLink(link), F)
<1> DEFINE href == link.href
           host == href.host
           whole == Whole(href)
           c1 == is_raw_ip(host)
           c2 == base_domain(host) \in Shorteners \/ host \in Shorteners
           c3 == href.encoded
           c4 == Differs(Shown(link), host)
           a1 == AddIf(c1, a, "link_raw_ip", "medium", <<host>>)
           a2 == AddIf(c2, a1, "link_shortener", "medium", <<host>>)
           a3 == AddIf(c3, a2, "link_excessive_encoding", "low", whole)
           a4 == AddIf(c4, a3, "link_display_mismatch", "high", <<Shown(link), host>>)
           s1 == SaidWhen(c1, "link_raw_ip", <<host>>)
           s2 == SaidWhen(c2, "link_shortener", <<host>>)
           s3 == SaidWhen(c3, "link_excessive_encoding", whole)
           s4 == SaidWhen(c4, "link_display_mismatch", <<Shown(link), host>>)
<1>1. /\ Severity("dangerous_scheme") = "high" /\ Severity("link_raw_ip") = "medium"
      /\ Severity("link_shortener") = "medium" /\ Severity("link_excessive_encoding") = "low"
      /\ Severity("link_display_mismatch") = "high"
  BY DEF Severity
<1>2. CASE href.scheme \in Dangerous
  <2> DEFINE f == Finding("link", "dangerous_scheme", Severity("dangerous_scheme"), whole)
  <2>1. OfLink(link) = {f}
    BY <1>1, <1>2 DEF OfLink
  <2>2. Judge(a, link) = Add(a, "dangerous_scheme", Severity("dangerous_scheme"), whole)
    BY <1>1, <1>2 DEF Judge
  <2>3. f \in F /\ f = Finding("link", "dangerous_scheme", Severity("dangerous_scheme"), whole)
    BY <2>1
  <2> HIDE DEF f, whole
  <2> QED
    BY <2>1, <2>2, <2>3, AddSays
<1>3. CASE href.scheme \notin Dangerous /\ host = NoHost
  <2>1. OfLink(link) = {} /\ Judge(a, link) = a /\ S \cup {} = S
    BY <1>3 DEF OfLink, Judge
  <2> QED
    BY <2>1
<1>4. CASE href.scheme \notin Dangerous /\ host # NoHost
  <2>1. OfLink(link) = s1 \cup s2 \cup s3 \cup s4
    BY <1>1, <1>4 DEF OfLink, SaidWhen
  <2>2. Judge(a, link) = a4
    BY <1>4 DEF Judge
  <2> HIDE DEF c1, c2, c3, c4, whole, host, href
  <2>3. s1 \subseteq F /\ s2 \subseteq F /\ s3 \subseteq F /\ s4 \subseteq F
    BY <2>1
  <2>4. SaidOf(a1, S \cup s1, F)
    BY <1>1, <2>3, AddIfSays
  <2> HIDE DEF a1, s1
  <2>5. SaidOf(a2, (S \cup s1) \cup s2, F)
    BY <1>1, <2>3, <2>4, AddIfSays
  <2> HIDE DEF a2, s2
  <2>6. SaidOf(a3, ((S \cup s1) \cup s2) \cup s3, F)
    BY <1>1, <2>3, <2>5, AddIfSays
  <2> HIDE DEF a3, s3
  <2>7. SaidOf(a4, (((S \cup s1) \cup s2) \cup s3) \cup s4, F)
    BY <1>1, <2>3, <2>6, AddIfSays
  <2> HIDE DEF a4, s4
  <2>8. (((S \cup s1) \cup s2) \cup s3) \cup s4 = S \cup OfLink(link)
    BY <2>1
  <2> QED
    BY <2>2, <2>7, <2>8
<1> QED
  BY <1>2, <1>3, <1>4

\* What links deserve are findings of this analyzer, told apart by their keys.
LEMMA OfLinkKeyed ==
  ASSUME NEW link, NEW f \in OfLink(link)
  PROVE  /\ f = Finding("link", f.indicator, Severity(f.indicator), f.evidence)
         /\ Judged(f, "link")
<1>1. PICK indicator, severity, evidence :
        /\ f = Finding("link", indicator, severity, evidence)
        /\ \/ indicator = "dangerous_scheme" /\ severity = "high"
           \/ indicator = "link_raw_ip" /\ severity = "medium"
           \/ indicator = "link_shortener" /\ severity = "medium"
           \/ indicator = "link_excessive_encoding" /\ severity = "low"
           \/ indicator = "link_display_mismatch" /\ severity = "high"
  BY Zenon DEF OfLink
<1>2. f.category = "link" /\ f.indicator = indicator /\ f.severity = severity
      /\ f.evidence = evidence
  BY <1>1 DEF Finding
<1>3. severity = Severity(indicator)
  BY <1>1 DEF Severity
<1>4. severity \in Severities /\ indicator # "double_extension"
  BY <1>1 DEF Severities
<1> QED
  BY <1>1, <1>2, <1>3, <1>4 DEF Judged

\* The findings that may be said of the first k links, and the states of the loop.
Deserved(links, k) == UNION {OfLink(links[i]) : i \in 1..k}

JudgeRun(f, links, n, T) ==
  /\ f \in [0..n -> T] /\ f[0] = NothingSaid /\ LinkFindings(links) = f[n].said
  /\ \A i \in 1..n : f[i] = Judge(f[i - 1], links[i])

LEMMA JudgeRuns ==
  ASSUME NEW n \in Nat, NEW links, Len(links) = n,
         NEW T, NothingSaid \in T, \A i \in 1..n, x \in T : Judge(x, links[i]) \in T
  PROVE  \E f : JudgeRun(f, links, n, T)
<1> DEFINE b == NothingSaid
           After(x, i) == Judge(x, links[i])
           step == [i \in 1..n |-> [x \in T |-> After(x, i)]]
           Def(g) == [i \in 0..n |-> IF i = 0 THEN b ELSE After(g[i - 1], i)]
           judged == CHOOSE g : g = Def(g)
<1>1. \A i \in 1..n, x \in T : After(x, i) \in T
  OBVIOUS
<1>2. LinkFindings(links) = judged[n].said
  BY DEF LinkFindings
<1>3. b \in T
  OBVIOUS
<1> HIDE DEF b, After
<1>4. step \in Steps(n, T)
  BY <1>1 DEF Steps
<1>5. PICK f : Run(f, n, T, b, step)
  <2> HIDE DEF step
  <2> QED
    BY <1>3, <1>4, LoopRuns
<1>6. f = Def(f)
  <2>1. \A i \in 1..n : step[i][f[i - 1]] = After(f[i - 1], i)
    <3>1. ASSUME NEW i \in 1..n PROVE f[i - 1] \in T
      BY <1>5 DEF Run
    <3> QED
      BY <3>1
  <2>2. f \in [0..n -> T] /\ f[0] = b /\ \A i \in 1..n : f[i] = After(f[i - 1], i)
    BY <1>5, <2>1 DEF Run
  <2> HIDE DEF step
  <2>3. \A i \in 0..n : f[i] = IF i = 0 THEN b ELSE After(f[i - 1], i)
    BY <2>2
  <2> QED
    BY <2>2, <2>3
<1>7. judged = Def(judged)
  <2> HIDE DEF Def
  <2> QED
    BY <1>6
<1> HIDE DEF judged
<1>8. judged[0] = b /\ \A i \in 1..n : judged[i] = After(judged[i - 1], i)
  BY <1>7
<1>9. \A i \in 0..n : judged[i] \in T
  <2> DEFINE R == {i \in 0..n : judged[i] \in T}
  <2>1. 0 \in R
    BY <1>3, <1>8
  <2>2. \A i \in 1..n : i - 1 \in R => i \in R
    BY <1>1, <1>8
  <2>3. \A i \in 0..n : i \in R
    <3> HIDE DEF R
    <3> QED
      BY <2>1, <2>2, StepByStep
  <2> QED
    BY <2>3
<1>10. judged \in [0..n -> T]
  BY <1>7, <1>9
<1> QED
  BY <1>2, <1>8, <1>10 DEF b, After, JudgeRun

LEMMA LinkFindingsSay ==
  ASSUME NEW n \in Nat, NEW links, DOMAIN links = 1..n, Len(links) = n
  PROVE  LET L == LinkFindings(links) IN
         /\ Says(L, "link")
         /\ Range(L) = UNION {OfLink(links[i]) : i \in DOMAIN links}
         /\ Distinct(L)
<1> DEFINE F == Deserved(links, n)
           T == {a \in [seen : SUBSET {Key(f) : f \in F}, said : Seq(F)] :
                    \E S \in SUBSET F : SaidOf(a, S, F)}
           L == LinkFindings(links)
<1>1. \A i \in 1..n : OfLink(links[i]) \subseteq F
  BY DEF Deserved
<1>2. Keyed(F)
  BY OfLinkKeyed DEF Keyed, Deserved
<1> HIDE DEF F
<1>3. SaidOf(NothingSaid, {}, F) /\ NothingSaid \in T
  <2>1. SaidOf(NothingSaid, {}, F)
    <3>1. NothingSaid \in [seen : SUBSET {Key(f) : f \in F}, said : Seq(F)]
      BY DEF NothingSaid
    <3>2. NothingSaid.seen = {} /\ NothingSaid.said = <<>> /\ Range(<<>>) = {} /\ Len(<<>>) = 0
      BY DEF NothingSaid, Range
    <3> QED
      BY <3>1, <3>2 DEF SaidOf, Distinct
  <2> QED
    BY <2>1 DEF SaidOf
<1>4. ASSUME NEW i \in 1..n, NEW x \in T PROVE Judge(x, links[i]) \in T
  <2>1. PICK S \in SUBSET F : SaidOf(x, S, F)
    OBVIOUS
  <2>2. SaidOf(Judge(x, links[i]), S \cup OfLink(links[i]), F)
    BY <1>1, <1>2, <2>1, JudgeSays
  <2> QED
    BY <2>2 DEF SaidOf
<1>5. PICK f : JudgeRun(f, links, n, T)
  <2> HIDE DEF T
  <2> QED
    BY <1>3, <1>4, JudgeRuns
<1> DEFINE R == {i \in 0..n : SaidOf(f[i], Deserved(links, i), F)}
<1>6. 0 \in R
  <2>1. Deserved(links, 0) = {}
    BY DEF Deserved
  <2>2. f[0] = NothingSaid /\ 0 \in 0..n
    BY <1>5 DEF JudgeRun
  <2>3. SaidOf(f[0], Deserved(links, 0), F)
    BY <1>3, <2>1, <2>2
  <2> QED
    BY <2>2, <2>3
<1>7. ASSUME NEW i \in 1..n, i - 1 \in R PROVE i \in R
  <2>0. i \in 0..n /\ SaidOf(f[i - 1], Deserved(links, i - 1), F) /\ OfLink(links[i]) \subseteq F
    BY <1>1, <1>7
  <2>1. SaidOf(f[i], Deserved(links, i - 1) \cup OfLink(links[i]), F)
    <3>1. f[i] = Judge(f[i - 1], links[i])
      BY <1>5 DEF JudgeRun
    <3> HIDE DEF R
    <3> QED
      BY <1>2, <2>0, <3>1, JudgeSays
  <2>2. Deserved(links, i) = Deserved(links, i - 1) \cup OfLink(links[i])
    <3>1. 1..i = (1..(i - 1)) \cup {i}
      OBVIOUS
    <3> QED
      BY <3>1 DEF Deserved
  <2>3. SaidOf(f[i], Deserved(links, i), F)
    BY <2>1, <2>2
  <2> QED
    BY <2>0, <2>3
<1>8. n \in R
  <2>1. \A i \in 0..n : i \in R
    <3> HIDE DEF R
    <3> QED
      BY <1>6, <1>7, StepByStep
  <2> QED
    BY <2>1
<1>9. L = f[n].said /\ SaidOf(f[n], F, F)
  BY <1>5, <1>8 DEF JudgeRun, F
<1> HIDE DEF L
<1>10. L \in Seq(F) /\ Range(L) = F /\ Distinct(L)
  BY <1>9 DEF SaidOf
<1>11. Says(L, "link")
  BY <1>2, <1>10 DEF Says, Keyed
<1>12. F = UNION {OfLink(links[i]) : i \in DOMAIN links}
  BY DEF F, Deserved
<1> QED
  BY <1>10, <1>11, <1>12 DEF L

LEMMA AttachmentFindingsSay ==
  ASSUME NEW m, NEW w, NEW n \in Nat, DOMAIN w.attachments = 1..n
  PROVE  LET X == AttachmentFindings(m, w) IN Says(X, "attachment") /\ Warned(X)
<1> DEFINE ss == [i \in DOMAIN w.attachments |-> OfAttachment(m.parts[w.attachments[i]].name)]
           X == AttachmentFindings(m, w)
           c == "attachment"
<1>1. \A i \in 1..n : Says(ss[i], c) /\ Warned(ss[i])
  BY AttachmentSays
<1>2. DOMAIN ss = 1..n /\ ss = [i \in 1..n |-> ss[i]]
  OBVIOUS
<1>3. X = FlattenSeq(ss)
  BY DEF AttachmentFindings
<1> HIDE DEF ss, c, X
<1>4. Says(X, c) /\ Range(X) = UNION {Range(ss[i]) : i \in DOMAIN ss}
  BY <1>1, <1>2, <1>3, SaysAll
<1>5. Warned(X)
  <2> SUFFICES ASSUME NEW f \in Range(X), f.indicator = "double_extension"
               PROVE  \E g \in Range(X) :
                        g.indicator \in {"executable_attachment", "script_attachment"}
                        /\ g.evidence = f.evidence
    BY DEF Warned
  <2>1. PICK i \in 1..n : f \in Range(ss[i])
    BY <1>2, <1>4
  <2>2. PICK g \in Range(ss[i]) :
           g.indicator \in {"executable_attachment", "script_attachment"}
           /\ g.evidence = f.evidence
    BY <1>1, <2>1 DEF Warned
  <2>3. g \in Range(X)
    BY <1>2, <1>4
  <2> QED
    BY <2>2, <2>3
<1> QED
  BY <1>4, <1>5 DEF X, c

AnalyzerOf(f) == CHOOSE i \in DOMAIN Categories : Categories[i] = f.category

LEMMA AnalyzersInOrder ==
  /\ \A f : f.category = "authentication" => AnalyzerOf(f) = 1
  /\ \A f : f.category = "sender" => AnalyzerOf(f) = 2
  /\ \A f : f.category = "link" => AnalyzerOf(f) = 3
  /\ \A f : f.category = "attachment" => AnalyzerOf(f) = 4
<1>1. /\ DOMAIN Categories = 1..4 /\ Categories[1] = "authentication"
      /\ Categories[2] = "sender" /\ Categories[3] = "link" /\ Categories[4] = "attachment"
  BY DEF Categories
<1>2. \A i \in 1..4 : i = 1 \/ i = 2 \/ i = 3 \/ i = 4
  OBVIOUS
<1>3. ASSUME NEW k \in 1..4, NEW f, f.category = Categories[k] PROVE AnalyzerOf(f) = k
  <2>1. \A i \in DOMAIN Categories : Categories[i] = f.category => i = k
    BY <1>1, <1>2, <1>3
  <2>2. k \in DOMAIN Categories /\ Categories[k] = f.category
    BY <1>1, <1>3
  <2> QED
    BY <2>1, <2>2 DEF AnalyzerOf
<1>4. 1 \in 1..4 /\ 2 \in 1..4 /\ 3 \in 1..4 /\ 4 \in 1..4
  OBVIOUS
<1> QED
  BY <1>1, <1>3, <1>4

\* The findings of the analyzers V one after the other, those of links once.
Blocks(s, V) ==
  /\ s \in Seq(Range(s))
  /\ \A f \in Range(s) : f.category \in V /\ f.severity \in Severities
  /\ \A i, j \in 1..Len(s) : i < j => AnalyzerOf(s[i]) <= AnalyzerOf(s[j])
  /\ \A i, j \in 1..Len(s) : s[i] = s[j] /\ s[i].category = "link" => i = j

LEMMA OneBlock ==
  ASSUME NEW s, NEW c, NEW k \in Nat, Says(s, c), \A f : f.category = c => AnalyzerOf(f) = k,
         c = "link" => \A i, j \in 1..Len(s) : s[i] = s[j] => i = j
  PROVE  Blocks(s, {c})
<1>1. s \in Seq(Range(s)) /\ \A f \in Range(s) : f.category = c /\ f.severity \in Severities
  BY DEF Says, Judged
<1>2. \A i \in 1..Len(s) : s[i].category = c
  BY <1>1
<1>3. \A i \in 1..Len(s) : AnalyzerOf(s[i]) = k
  BY <1>2
<1> QED
  BY <1>1, <1>2, <1>3 DEF Blocks

LEMMA BlocksJoin ==
  ASSUME NEW s, NEW t, NEW V, NEW c, c \notin V, Blocks(s, V), Blocks(t, {c}),
         \A f, g : f.category \in V /\ g.category = c => AnalyzerOf(f) <= AnalyzerOf(g)
  PROVE  Blocks(s \o t, V \cup {c}) /\ Range(s \o t) = Range(s) \cup Range(t)
<1> DEFINE T == Range(s) \cup Range(t)
           u == s \o t
           m == Len(s)
           p == Len(t)
<1>1. s \in Seq(T) /\ t \in Seq(T)
  <2>1. s \in Seq(Range(s)) /\ t \in Seq(Range(t)) /\ Range(s) \subseteq T /\ Range(t) \subseteq T
    BY DEF Blocks
  <2> HIDE DEF T
  <2> QED
    BY <2>1
<1>2. Range(u) = T
  BY <1>1, RangeConcatenation
<1>3. /\ u \in Seq(T) /\ Len(u) = m + p /\ m \in Nat /\ p \in Nat
      /\ \A i \in 1..m : u[i] = s[i] /\ s[i] \in Range(s)
      /\ \A i \in 1..p : u[m + i] = t[i] /\ t[i] \in Range(t)
  <2>1. DOMAIN s = 1..m /\ DOMAIN t = 1..p
    BY <1>1
  <2>2. \A i \in 1..m : s[i] \in Range(s)
    BY <2>1 DEF Range
  <2>3. \A i \in 1..p : t[i] \in Range(t)
    BY <2>1 DEF Range
  <2> HIDE DEF T
  <2> QED
    BY <1>1, <2>2, <2>3
<1> HIDE DEF u
<1>4. /\ \A f \in Range(s) : f.category \in V /\ f.severity \in Severities
      /\ \A i, j \in 1..m : i < j => AnalyzerOf(s[i]) <= AnalyzerOf(s[j])
      /\ \A i, j \in 1..m : s[i] = s[j] /\ s[i].category = "link" => i = j
      /\ \A f \in Range(t) : f.category = c /\ f.severity \in Severities
      /\ \A i, j \in 1..p : i < j => AnalyzerOf(t[i]) <= AnalyzerOf(t[j])
      /\ \A i, j \in 1..p : t[i] = t[j] /\ t[i].category = "link" => i = j
  BY DEF Blocks
<1> HIDE DEF m, p
<1>5. ASSUME NEW i \in 1..(m + p)
      PROVE  (i \in 1..m /\ u[i] = s[i]) \/ \E k \in 1..p : i = m + k /\ u[i] = t[k]
  <2>1. CASE i \in 1..m
    BY <1>3, <2>1
  <2>2. CASE i \notin 1..m
    <3>1. i - m \in 1..p /\ i = m + (i - m)
      BY <1>3, <2>2
    <3> QED
      BY <1>3, <3>1
  <2> QED
    BY <2>1, <2>2
<1>6. ASSUME NEW i \in 1..(m + p), NEW j \in 1..(m + p), i < j
      PROVE  AnalyzerOf(u[i]) <= AnalyzerOf(u[j])
  <2>1. CASE j \in 1..m
    <3>1. i \in 1..m
      BY <1>3, <1>6, <2>1
    <3> QED
      BY <1>3, <1>4, <1>6, <2>1, <3>1
  <2>2. CASE i \in 1..m /\ j \notin 1..m
    <3>1. u[i].category \in V
      BY <1>3, <1>4, <2>2
    <3>2. u[j].category = c
      BY <1>3, <1>4, <1>5, <2>2
    <3> QED
      BY <3>1, <3>2
  <2>3. CASE i \notin 1..m
    <3>1. j \notin 1..m
      BY <1>3, <1>6, <2>3
    <3>2. PICK k \in 1..p : i = m + k /\ u[i] = t[k]
      BY <1>5, <2>3
    <3>3. PICK l \in 1..p : j = m + l /\ u[j] = t[l]
      BY <1>5, <3>1
    <3>4. k < l
      BY <1>3, <1>6, <3>2, <3>3
    <3> QED
      BY <1>4, <3>2, <3>3, <3>4
  <2> QED
    BY <2>1, <2>2, <2>3
<1>7. ASSUME NEW i \in 1..(m + p), NEW j \in 1..(m + p), u[i] = u[j], u[i].category = "link"
      PROVE  i = j
  <2>1. CASE i \in 1..m /\ u[i] = s[i] /\ j \in 1..m /\ u[j] = s[j]
    BY <1>4, <1>7, <2>1
  <2>2. CASE i \in 1..m /\ u[i] = s[i] /\ \E l \in 1..p : j = m + l /\ u[j] = t[l]
    BY <1>3, <1>4, <1>7, <2>2
  <2>3. CASE j \in 1..m /\ u[j] = s[j] /\ \E k \in 1..p : i = m + k /\ u[i] = t[k]
    BY <1>3, <1>4, <1>7, <2>3
  <2>4. CASE \E k, l \in 1..p : i = m + k /\ u[i] = t[k] /\ j = m + l /\ u[j] = t[l]
    BY <1>4, <1>7, <2>4
  <2> QED
    BY <1>5, <2>1, <2>2, <2>3, <2>4
<1>8. \A f \in T : f.category \in V \cup {c} /\ f.severity \in Severities
  BY <1>4
<1> HIDE DEF T
<1>9. Blocks(u, V \cup {c})
  BY <1>2, <1>3, <1>6, <1>7, <1>8 DEF Blocks
<1> QED
  BY <1>2, <1>9 DEF u, T

LEMMA UnsortedSays ==
  ASSUME NEW m, NEW p, NEW n \in Nat, DOMAIN p.links = 1..n,
         NEW k \in Nat, DOMAIN p.walk.attachments = 1..k
  PROVE  LET U == Unsorted(m, p) IN
         /\ \E V : Blocks(U, V)
         /\ Warned(U)
         /\ {f \in Range(U) : f.category = "link"}
              = UNION {OfLink(p.links[i]) : i \in DOMAIN p.links}
<1> DEFINE A == AuthFindings(m)
           S == SenderFindings(m)
           L == LinkFindings(p.links)
           X == AttachmentFindings(m, p.walk)
           Said == UNION {OfLink(p.links[i]) : i \in DOMAIN p.links}
<1>1. Says(A, "authentication") /\ Says(S, "sender")
  BY AuthSays, SenderSays
<1>2. /\ Says(L, "link") /\ Range(L) = Said
      /\ \A i, j \in 1..Len(L) : L[i] = L[j] => i = j
  BY LinkFindingsSay DEF Distinct
<1>3. Says(X, "attachment") /\ Warned(X)
  <2> DEFINE w == p.walk
  <2>1. DOMAIN w.attachments = 1..k
    OBVIOUS
  <2> HIDE DEF w
  <2>2. Says(AttachmentFindings(m, w), "attachment") /\ Warned(AttachmentFindings(m, w))
    BY <2>1, AttachmentFindingsSay
  <2> QED
    BY <2>2 DEF w
<1>4. Unsorted(m, p) = ((A \o S) \o L) \o X
  BY DEF Unsorted
<1> HIDE DEF A, S, L, X, Said
<1>5. /\ Blocks(A, {"authentication"}) /\ Blocks(S, {"sender"})
      /\ Blocks(L, {"link"}) /\ Blocks(X, {"attachment"})
  <2>1. Blocks(A, {"authentication"})
    BY <1>1, AnalyzersInOrder, OneBlock
  <2>2. Blocks(S, {"sender"})
    BY <1>1, AnalyzersInOrder, OneBlock
  <2>3. Blocks(L, {"link"})
    BY <1>2, AnalyzersInOrder, OneBlock
  <2>4. Blocks(X, {"attachment"})
    BY <1>3, AnalyzersInOrder, OneBlock
  <2> QED
    BY <2>1, <2>2, <2>3, <2>4
<1> DEFINE V1 == {"authentication"}
           V2 == V1 \cup {"sender"}
           V3 == V2 \cup {"link"}
           V4 == V3 \cup {"attachment"}
<1>6. "sender" \notin V1 /\ "link" \notin V2 /\ "attachment" \notin V3
  OBVIOUS
<1>7. /\ \A f, g : f.category \in V1 /\ g.category = "sender" => AnalyzerOf(f) <= AnalyzerOf(g)
      /\ \A f, g : f.category \in V2 /\ g.category = "link" => AnalyzerOf(f) <= AnalyzerOf(g)
      /\ \A f, g : f.category \in V3 /\ g.category = "attachment" =>
            AnalyzerOf(f) <= AnalyzerOf(g)
  BY AnalyzersInOrder
<1>8. Blocks(A, V1)
  BY <1>5
<1> HIDE DEF V1
<1>9. Blocks(A \o S, V2) /\ Range(A \o S) = Range(A) \cup Range(S)
  BY <1>5, <1>6, <1>7, <1>8, BlocksJoin
<1> HIDE DEF V2
<1>10. Blocks((A \o S) \o L, V3) /\ Range((A \o S) \o L) = Range(A \o S) \cup Range(L)
  BY <1>5, <1>6, <1>7, <1>9, BlocksJoin
<1> HIDE DEF V3
<1>11. /\ Blocks(((A \o S) \o L) \o X, V4)
       /\ Range(((A \o S) \o L) \o X) = Range((A \o S) \o L) \cup Range(X)
  BY <1>5, <1>6, <1>7, <1>10, BlocksJoin
<1> HIDE DEF V4
<1> DEFINE U == Unsorted(m, p)
<1>12. Blocks(U, V4) /\ Range(U) = Range(A) \cup Range(S) \cup Range(L) \cup Range(X)
  BY <1>4, <1>9, <1>10, <1>11
<1>13. /\ \A f \in Range(A) : f.category = "authentication" /\ f.indicator # "double_extension"
       /\ \A f \in Range(S) : f.category = "sender" /\ f.indicator # "double_extension"
       /\ \A f \in Range(L) : f.category = "link" /\ f.indicator # "double_extension"
       /\ \A f \in Range(X) : f.category = "attachment"
  BY <1>1, <1>2, <1>3 DEF Says, Judged
<1> HIDE DEF U
<1>14. Warned(U)
  <2> SUFFICES ASSUME NEW f \in Range(U), f.indicator = "double_extension"
               PROVE  \E g \in Range(U) :
                        g.indicator \in {"executable_attachment", "script_attachment"}
                        /\ g.evidence = f.evidence
    BY DEF Warned
  <2>1. f \in Range(X)
    BY <1>12, <1>13
  <2> QED
    BY <1>3, <1>12, <2>1 DEF Warned
<1>15. {f \in Range(U) : f.category = "link"} = Said
  BY <1>2, <1>12, <1>13
<1> QED
  BY <1>12, <1>14, <1>15 DEF U, Said

LEMMA OnlyInjects ==
  ASSUME NEW T, NEW s \in Seq(T), NEW S,
         \A i, j \in 1..Len(s) : s[i] = s[j] /\ s[i] \in S => i = j
  PROVE  /\ Range(Only(s, S)) = {f \in Range(s) : f \in S}
         /\ Len(Only(s, S)) = Cardinality(Range(Only(s, S)))
<1> DEFINE o == Only(s, S)
           p == Len(o)
           n == Len(s)
<1>1. PICK e : o \in Seq(T) /\ Selects(e, o, s, S, n)
  BY OnlySelects
<1> HIDE DEF o
<1>2. p \in Nat /\ n \in Nat /\ DOMAIN o = 1..p /\ DOMAIN s = 1..n
  BY <1>1
<1>3. /\ e \in [1..p -> 1..n] /\ Increasing(e, p)
      /\ \A k \in 1..p : o[k] = s[e[k]]
      /\ \A i \in 1..n : s[i] \in S <=> \E k \in 1..p : e[k] = i
  BY <1>1 DEF Selects
<1> HIDE DEF p, n
<1>4. Range(o) = {f \in Range(s) : f \in S}
  <2>1. ASSUME NEW f \in Range(o) PROVE f \in Range(s) /\ f \in S
    <3>1. PICK k \in 1..p : f = o[k]
      BY <1>2 DEF Range
    <3>2. e[k] \in 1..n /\ f = s[e[k]]
      BY <1>3, <3>1
    <3> QED
      BY <1>2, <1>3, <3>2 DEF Range
  <2>2. ASSUME NEW f \in Range(s), f \in S PROVE f \in Range(o)
    <3>1. PICK i \in 1..n : f = s[i]
      BY <1>2 DEF Range
    <3>2. PICK k \in 1..p : e[k] = i
      BY <1>3, <2>2, <3>1
    <3>3. k \in DOMAIN o /\ o[k] = f
      BY <1>2, <1>3, <3>1, <3>2
    <3> QED
      BY <3>3 DEF Range
  <2> QED
    BY <2>1, <2>2
<1>5. \A j, k \in 1..p : o[j] = o[k] => j = k
  <2> SUFFICES ASSUME NEW j \in 1..p, NEW k \in 1..p, o[j] = o[k], j # k PROVE FALSE
    OBVIOUS
  <2>1. e[j] \in 1..n /\ e[k] \in 1..n /\ s[e[j]] = s[e[k]] /\ s[e[j]] \in S
    BY <1>3
  <2>2. e[j] = e[k]
    BY <2>1 DEF n
  <2>3. e[j] < e[k] \/ e[k] < e[j]
    BY <1>2, <1>3 DEF Increasing
  <2> QED
    BY <2>1, <2>2, <2>3
<1>6. Cardinality(Range(o)) = p
  BY <1>1, <1>5, OnceCounts DEF p
<1> QED
  BY <1>4, <1>6 DEF o, p

\* W is s worst first, and what is equally bad in the order of the analyzers.
Reordered(W, s) ==
  /\ W \in Seq(Range(s)) /\ Range(W) = Range(s)
  /\ \A i, j \in 1..Len(W) : W[i] = W[j] /\ W[i].category = "link" => i = j
  /\ \A i, j \in 1..Len(W) : i < j =>
        \/ Rank(W[i]) > Rank(W[j])
        \/ Rank(W[i]) = Rank(W[j]) /\ AnalyzerOf(W[i]) <= AnalyzerOf(W[j])
  /\ \A f : Cardinality({i \in DOMAIN s : s[i] = f}) = Cardinality({i \in DOMAIN W : W[i] = f})

LEMMA SortKeeps ==
  ASSUME NEW s, NEW V, Blocks(s, V)
  PROVE  Reordered(WorstToLeast(s), s)
<1> DEFINE T == Range(s)
           W == WorstToLeast(s)
           n == Len(s)
           p == Len(W)
<1>1. s \in Seq(T)
  BY DEF Blocks
<1>2. PICK q : W \in Seq(T) /\ Sorts(q, W, s, Severities)
  <2> HIDE DEF T
  <2> QED
    BY <1>1, WorstToLeastSorts
<1> HIDE DEF W
<1>3. p \in Nat /\ n \in Nat /\ DOMAIN W = 1..p /\ DOMAIN s = 1..n
  BY <1>1, <1>2
<1>4. /\ \A i \in 1..n : s[i] \in T
      /\ \A f \in T : f.severity \in Severities
      /\ \A i, j \in 1..n : i < j => AnalyzerOf(s[i]) <= AnalyzerOf(s[j])
      /\ \A i, j \in 1..n : s[i] = s[j] /\ s[i].category = "link" => i = j
  BY <1>1 DEF Blocks
<1>5. /\ q \in [1..p -> 1..n]
      /\ \A j \in 1..p : W[j] = s[q[j]]
      /\ \A j, k \in 1..p : q[j] = q[k] => j = k
      /\ \A i \in 1..n : \E j \in 1..p : q[j] = i
      /\ \A j, k \in 1..p : j < k =>
            \/ Rank(W[j]) > Rank(W[k])
            \/ Rank(W[j]) = Rank(W[k]) /\ q[j] < q[k]
  <2>1. \A i \in 1..n : s[i].severity \in Severities
    BY <1>4
  <2> QED
    BY <1>2, <2>1 DEF Sorts
<1> HIDE DEF p, n
<1>6. Range(W) = T
  <2>1. ASSUME NEW f \in Range(W) PROVE f \in T
    <3>1. PICK j \in 1..p : f = W[j]
      BY <1>3 DEF Range
    <3> QED
      BY <1>4, <1>5, <3>1
  <2>2. ASSUME NEW f \in T PROVE f \in Range(W)
    <3>1. PICK i \in 1..n : f = s[i]
      BY <1>3 DEF Range
    <3>2. PICK j \in 1..p : q[j] = i
      BY <1>5
    <3>3. j \in DOMAIN W /\ W[j] = f
      BY <1>3, <1>5, <3>1, <3>2
    <3> QED
      BY <3>3 DEF Range
  <2> HIDE DEF T
  <2> QED
    BY <2>1, <2>2
<1>7. \A i, j \in 1..p : W[i] = W[j] /\ W[i].category = "link" => i = j
  BY <1>4, <1>5
<1>8. \A i, j \in 1..p : i < j =>
         \/ Rank(W[i]) > Rank(W[j])
         \/ Rank(W[i]) = Rank(W[j]) /\ AnalyzerOf(W[i]) <= AnalyzerOf(W[j])
  BY <1>4, <1>5
<1>9. ASSUME NEW f
      PROVE  Cardinality({i \in DOMAIN s : s[i] = f}) = Cardinality({i \in DOMAIN W : W[i] = f})
  <2> DEFINE A == {i \in 1..p : W[i] = f}
             B == {i \in 1..n : s[i] = f}
             g == [j \in A |-> q[j]]
  <2>1. g \in [A -> B] /\ \A j, k \in A : g[j] = g[k] => j = k
    BY <1>5
  <2>2. \A i \in B : \E j \in A : g[j] = i
    BY <1>5
  <2>3. g \in Bijection(A, B)
    <3> HIDE DEF A, B, g
    <3> QED
      BY <2>1, <2>2 DEF Bijection, Injection, IsInjective, Surjection
  <2>4. ExistsBijection(A, B)
    BY <2>3 DEF ExistsBijection
  <2>5. IsFiniteSet(A)
    <3>1. IsFiniteSet(1..p) /\ A \subseteq 1..p
      BY <1>3, UpToCounts
    <3> HIDE DEF A
    <3> QED
      BY <3>1, FS_Subset
  <2> HIDE DEF A, B
  <2>6. Cardinality(A) = Cardinality(B)
    BY <2>4, <2>5, FS_Bijection
  <2> QED
    BY <1>3, <2>6 DEF A, B
<1> QED
  BY <1>2, <1>6, <1>7, <1>8, <1>9 DEF Reordered, W, p

-----------------------------------------------------------------------------
\* The signals of a text and of one that has no less of anything.

Grows(t, u) ==
  /\ t.urgency <= u.urgency /\ t.credentials <= u.credentials
  /\ t.greetings <= u.greetings /\ t.exclaims <= u.exclaims /\ t.caps <= u.caps
  /\ t.words <= u.words /\ t.brands \subseteq u.brands
  /\ Hosts(t) \subseteq Hosts(u)
  /\ Len(t.urls) <= Len(u.urls) /\ (t.urls # <<>> => u.urls # <<>>)

Counted(t) ==
  /\ t.urgency \in Nat /\ t.credentials \in Nat /\ t.greetings \in Nat
  /\ t.exclaims \in Nat /\ t.caps \in Nat /\ t.words \in Nat /\ Len(t.urls) \in Nat

LEMMA OneMoreGrows ==
  ASSUME NEW t \in Text, NEW u \in OneMore(t)
  PROVE  Counted(t) /\ Counted(u) /\ Grows(t, u)
<1>1. /\ DOMAIN t = {"urgency", "credentials", "greetings", "exclaims", "caps",
                     "words", "urls", "brands"}
      /\ t.urgency \in Nat /\ t.credentials \in Nat /\ t.greetings \in Nat
      /\ t.exclaims \in Nat /\ t.caps \in Nat /\ t.words \in Nat
  BY DEF Text
<1>2. t.urls \in Seq(Host)
  <2> HIDE DEF Host
  <2> QED
    BY DEF Text
<1>3. Len(t.urls) \in Nat
  <2> HIDE DEF Host
  <2> QED
    BY <1>2
<1>4. Counted(t)
  BY <1>1, <1>3 DEF Counted
<1>5. CASE u \in {[t EXCEPT !.urgency = @ + 1], [t EXCEPT !.credentials = @ + 1],
                  [t EXCEPT !.greetings = @ + 1], [t EXCEPT !.exclaims = @ + 1],
                  [t EXCEPT !.caps = @ + 1]}
  <2>1. u.urls = t.urls /\ u.words = t.words /\ u.brands = t.brands
    BY <1>1, <1>5
  <2>2. /\ u.urgency = t.urgency \/ u.urgency = t.urgency + 1
        /\ u.credentials = t.credentials \/ u.credentials = t.credentials + 1
        /\ u.greetings = t.greetings \/ u.greetings = t.greetings + 1
        /\ u.exclaims = t.exclaims \/ u.exclaims = t.exclaims + 1
        /\ u.caps = t.caps \/ u.caps = t.caps + 1
    BY <1>1, <1>5
  <2>3. Counted(u)
    <3>1. \A k : k \in Nat => k + 1 \in Nat
      OBVIOUS
    <3>2. /\ u.urgency \in Nat /\ u.credentials \in Nat /\ u.greetings \in Nat
          /\ u.exclaims \in Nat /\ u.caps \in Nat
      BY <1>1, <2>2, <3>1, Zenon
    <3>3. Len(u.urls) \in Nat /\ u.words \in Nat
      BY <1>1, <1>3, <2>1
    <3> QED
      BY <3>2, <3>3 DEF Counted
  <2>4. /\ t.urgency <= u.urgency /\ t.credentials <= u.credentials
        /\ t.greetings <= u.greetings /\ t.exclaims <= u.exclaims /\ t.caps <= u.caps
        /\ t.words <= u.words
    BY <1>1, <2>1, <2>2
  <2>5. Hosts(t) \subseteq Hosts(u) /\ Len(t.urls) <= Len(u.urls)
    BY <1>3, <2>1 DEF Hosts
  <2> QED
    BY <1>4, <2>1, <2>3, <2>4, <2>5 DEF Grows
<1>6. CASE u \in {[t EXCEPT !.brands = @ \cup {b}] : b \in Range(Brands)}
  <2>1. PICK b : u = [t EXCEPT !.brands = @ \cup {b}]
    BY <1>6
  <2>2. /\ u.urls = t.urls /\ u.words = t.words /\ t.brands \subseteq u.brands
        /\ u.urgency = t.urgency /\ u.credentials = t.credentials
        /\ u.greetings = t.greetings /\ u.exclaims = t.exclaims /\ u.caps = t.caps
    BY <1>1, <2>1
  <2> QED
    BY <1>1, <1>3, <1>4, <2>2 DEF Grows, Counted, Hosts
<1>7. CASE u \in {[t EXCEPT !.urls = Append(@, h)] : h \in Range(t.urls) \cup Shorteners}
  <2>1. PICK h : u = [t EXCEPT !.urls = Append(@, h)]
    BY <1>7
  <2>2. /\ u.urls = Append(t.urls, h) /\ u.words = t.words /\ u.brands = t.brands
        /\ u.urgency = t.urgency /\ u.credentials = t.credentials
        /\ u.greetings = t.greetings /\ u.exclaims = t.exclaims /\ u.caps = t.caps
    BY <1>1, <2>1
  <2> DEFINE a == t.urls
             c == Append(a, h)
             n == Len(a)
             H == Host \cup {h}
  <2>3. a \in Seq(H) /\ h \in H
    BY <1>2
  <2> HIDE DEF H, a
  <2>4. /\ n \in Nat /\ Len(c) = n + 1 /\ c # <<>>
        /\ DOMAIN a = 1..n /\ DOMAIN c = 1..(n + 1)
        /\ \A i \in 1..n : c[i] = a[i]
    BY <2>3
  <2>5. Range(a) \subseteq Range(c)
    <3>1. 1..n \subseteq 1..(n + 1)
      BY <2>4
    <3> HIDE DEF c, n
    <3> QED
      BY <2>4, <3>1 DEF Range
  <2> HIDE DEF c, n
  <2>6. u.urls = c /\ t.urls = a /\ Len(a) = n
    BY <2>2 DEF a, c, n
  <2>7. Hosts(t) \subseteq Hosts(u)
    BY <2>5, <2>6 DEF Hosts
  <2>8. Len(t.urls) <= Len(u.urls) /\ Len(u.urls) \in Nat /\ u.urls # <<>>
    BY <2>4, <2>6
  <2> QED
    BY <1>1, <1>4, <2>2, <2>7, <2>8 DEF Grows, Counted
<1> QED
  BY <1>5, <1>6, <1>7 DEF OneMore

LEMMA MoreGrows ==
  ASSUME NEW t \in Text, NEW u \in More(t)
  PROVE  Counted(t) /\ Counted(u) /\ Grows(t, u)
<1>1. PICK n \in {0, 1, 5} : u \in OneMore([t EXCEPT !.words = @ + n])
  BY DEF More
<1> DEFINE l == [t EXCEPT !.words = @ + n]
<1>2. t.words \in Nat
  BY DEF Text
<1>3. t.words + n \in Nat /\ t.words <= t.words + n
  BY <1>2
<1>4. l \in Text
  <2> HIDE DEF Host
  <2> QED
    BY <1>3 DEF Text
<1>5. /\ l.urgency = t.urgency /\ l.credentials = t.credentials /\ l.greetings = t.greetings
      /\ l.exclaims = t.exclaims /\ l.caps = t.caps /\ l.urls = t.urls /\ l.brands = t.brands
      /\ l.words = t.words + n
  BY DEF Text
<1> HIDE DEF l
<1>6. Counted(l) /\ Counted(u) /\ Grows(l, u)
  BY <1>1, <1>4, OneMoreGrows DEF l
<1>7. Counted(t)
  BY <1>2, <1>5, <1>6 DEF Counted
<1>8. Hosts(t) = Hosts(l)
  BY <1>5 DEF Hosts
<1>9. t.words <= u.words
  <2> DEFINE a == t.words
             b == l.words
             d == u.words
  <2>1. a \in Nat /\ b \in Nat /\ d \in Nat /\ a <= b /\ b <= d
    BY <1>2, <1>3, <1>5, <1>6 DEF Counted, Grows
  <2> HIDE DEF a, b, d
  <2>2. a <= d
    BY <2>1
  <2> QED
    BY <2>2 DEF a, d
<1> QED
  BY <1>5, <1>6, <1>7, <1>8, <1>9 DEF Grows

LEMMA AtMostGrows ==
  ASSUME NEW a \in Nat, NEW b \in Nat, NEW cap \in Nat, a <= b
  PROVE  AtMost(a, cap) <= AtMost(b, cap) /\ AtMost(a, cap) \in Nat
BY DEF AtMost

LEMMA LinkWeightGrows ==
  ASSUME NEW t, NEW u, Counted(t), Counted(u), Grows(t, u)
  PROVE  LinkWeight(t) <= LinkWeight(u) /\ LinkWeight(t) \in Nat /\ LinkWeight(u) \in Nat
<1> DEFINE p1(x) == Hosts(x) \cap Shorteners # {}
           p2(x) == \E h \in Hosts(x) : is_raw_ip(h)
           p3(x) == Mismatched(x)
           p4(x) == Len(x.urls) >= 3
           w1(x) == IF p1(x) THEN 12 ELSE 0
           w2(x) == IF p2(x) THEN 16 ELSE 0
           w3(x) == IF p3(x) THEN 10 ELSE 0
           w4(x) == IF p4(x) THEN 6 ELSE 0
<1>1. p1(t) => p1(u)
  BY DEF Grows
<1>2. p2(t) => p2(u)
  BY DEF Grows
<1>3. p3(t) => p3(u)
  BY DEF Grows, Mismatched
<1>4. p4(t) => p4(u)
  BY DEF Grows, Counted
<1>5. LinkWeight(t) = w1(t) + w2(t) + w3(t) + w4(t)
  BY DEF LinkWeight
<1>6. LinkWeight(u) = w1(u) + w2(u) + w3(u) + w4(u)
  BY DEF LinkWeight
<1> HIDE DEF p1, p2, p3, p4
<1>7. w1(t) \in {0, 12} /\ w1(u) \in {0, 12} /\ w1(t) <= w1(u)
  BY <1>1
<1>8. w2(t) \in {0, 16} /\ w2(u) \in {0, 16} /\ w2(t) <= w2(u)
  BY <1>2
<1>9. w3(t) \in {0, 10} /\ w3(u) \in {0, 10} /\ w3(t) <= w3(u)
  BY <1>3
<1>10. w4(t) \in {0, 6} /\ w4(u) \in {0, 6} /\ w4(t) <= w4(u)
  BY <1>4
<1> HIDE DEF w1, w2, w3, w4
<1> QED
  BY <1>5, <1>6, <1>7, <1>8, <1>9, <1>10

LEMMA BrandsAreFinite ==
  ASSUME NEW D, D \subseteq {Brands[i] : i \in DOMAIN Brands}
  PROVE  Cardinality(D) \in Nat
<1> DEFINE n == Len(Brands)
           B == {Brands[i] : i \in DOMAIN Brands}
<1>1. n \in Nat /\ DOMAIN Brands = 1..n /\ Brands = [i \in 1..n |-> Brands[i]]
  BY EmailAnalysisAssumption
<1>2. Brands \in Surjection(1..n, B)
  BY <1>1 DEF Surjection
<1>3. IsFiniteSet(1..n)
  BY <1>1, UpToCounts
<1> HIDE DEF B, n
<1>4. IsFiniteSet(B)
  BY <1>2, <1>3, FS_Surjection
<1> QED
  BY <1>4, FS_Subset, FS_CardinalityType DEF B

\* A signal that weighs no less and stays high.
NoLess(x, y) == y.weight >= x.weight /\ (x.severity = "high" => y.severity = "high")

\* A text that was short and no longer is: a weight that may fall.
Outgrown(kind, u, x) == kind = "short" /\ u.words >= 40 /\ x.severity = "low"

\* One more of what makes a text suspicious, and no other signal weighs less.
LEMMA SignalsGrow ==
  ASSUME NEW m, IsMessage(m), NEW u \in More(m.text), NEW kind \in DOMAIN Signals(m, m.text)
  PROVE  \/ NoLess(Signals(m, m.text)[kind], Signals(m, u)[kind])
         \/ Outgrown(kind, u, Signals(m, m.text)[kind])
<1> DEFINE t == m.text
           Signal(weight, severity) == [weight |-> weight, severity |-> severity]
           c == Cardinality({b \in m.display : m.from # NoHost /\ ~Names(m.from, b)})
           urgency(x) == Signal(AtMost(9 * x.urgency, 30), IF x.urgency > 2 THEN "high" ELSE "medium")
           asks(x) == Signal(AtMost(11 * x.credentials, 26), "high")
           greets(x) == Signal(IF x.greetings > 0 THEN 8 ELSE 0, "low")
           links(x) == Signal(AtMost(LinkWeight(x), 34),
                              IF LinkWeight(x) > 18 THEN "high" ELSE "medium")
           format(x) == Signal(IF x.exclaims >= 3 \/ x.caps >= 2
                               THEN AtMost(2 * x.exclaims + 3 * x.caps, 14) ELSE 0, "low")
           short(x) == Signal(IF x.words \in 1..39 /\ x.urls # <<>> THEN 6 ELSE 0, "low")
<1>1. Counted(t) /\ Counted(u) /\ Grows(t, u)
  <2>1. t \in Text /\ u \in More(t)
    BY DEF IsMessage
  <2> HIDE DEF t
  <2> QED
    BY <2>1, MoreGrows
<1>2. c \in Nat
  <2>1. {b \in m.display : m.from # NoHost /\ ~Names(m.from, b)}
          \subseteq {Brands[i] : i \in DOMAIN Brands}
    BY DEF IsMessage
  <2> QED
    BY <2>1, BrandsAreFinite
<1>3. NoLess(Signal(18 * c, "high"), Signal(18 * c, "high"))
  <2> HIDE DEF c
  <2> QED
    BY <1>2 DEF NoLess
<1> HIDE DEF t
<1>4. NoLess(urgency(t), urgency(u))
  <2> DEFINE a == t.urgency
             b == u.urgency
  <2>1. a \in Nat /\ b \in Nat /\ a <= b
    BY <1>1 DEF Counted, Grows
  <2> HIDE DEF a, b
  <2>2. AtMost(9 * a, 30) <= AtMost(9 * b, 30) /\ (a > 2 => b > 2)
    BY <2>1 DEF AtMost
  <2>3. AtMost(9 * b, 30) >= AtMost(9 * a, 30)
    BY <2>1 DEF AtMost
  <2> QED
    BY <2>2, <2>3 DEF NoLess, a, b
<1>5. NoLess(asks(t), asks(u))
  <2> DEFINE a == t.credentials
             b == u.credentials
  <2>1. a \in Nat /\ b \in Nat /\ a <= b
    BY <1>1 DEF Counted, Grows
  <2> HIDE DEF a, b
  <2>2. AtMost(11 * b, 26) >= AtMost(11 * a, 26)
    BY <2>1 DEF AtMost
  <2> QED
    BY <2>2 DEF NoLess, a, b
<1>6. NoLess(greets(t), greets(u))
  BY <1>1 DEF NoLess, Counted, Grows
<1>7. NoLess(links(t), links(u))
  <2> DEFINE a == LinkWeight(t)
             b == LinkWeight(u)
  <2>1. a \in Nat /\ b \in Nat /\ a <= b
    BY <1>1, LinkWeightGrows
  <2> HIDE DEF a, b
  <2>2. AtMost(b, 34) >= AtMost(a, 34) /\ (a > 18 => b > 18)
    BY <2>1 DEF AtMost
  <2> QED
    BY <2>2 DEF NoLess, a, b
<1>8. NoLess(format(t), format(u))
  <2> DEFINE a == t.exclaims
             b == u.exclaims
             d == t.caps
             e == u.caps
  <2>1. a \in Nat /\ b \in Nat /\ a <= b /\ d \in Nat /\ e \in Nat /\ d <= e
    BY <1>1 DEF Counted, Grows
  <2> HIDE DEF a, b, d, e
  <2>2. (IF b >= 3 \/ e >= 2 THEN AtMost(2 * b + 3 * e, 14) ELSE 0)
          >= (IF a >= 3 \/ d >= 2 THEN AtMost(2 * a + 3 * d, 14) ELSE 0)
    BY <2>1 DEF AtMost
  <2> QED
    BY <2>2 DEF NoLess, a, b, d, e
<1>9. NoLess(short(t), short(u)) \/ Outgrown("short", u, short(t))
  <2> DEFINE a == t.words
             b == u.words
  <2>1. a \in Nat /\ b \in Nat /\ a <= b /\ (t.urls # <<>> => u.urls # <<>>)
    BY <1>1 DEF Counted, Grows
  <2> HIDE DEF a, b
  <2>2. b >= 40 \/ (a \in 1..39 => b \in 1..39)
    BY <2>1
  <2>3. b >= 40 \/ (IF b \in 1..39 /\ u.urls # <<>> THEN 6 ELSE 0)
                      >= (IF a \in 1..39 /\ t.urls # <<>> THEN 6 ELSE 0)
    BY <2>1, <2>2
  <2> QED
    BY <2>3 DEF NoLess, Outgrown, a, b
<1>10. \A x : Signals(m, x) =
          [sender |-> Signal(18 * c, "high"), urgency |-> urgency(x), asks |-> asks(x),
           greets |-> greets(x), links |-> links(x), format |-> format(x), short |-> short(x)]
  BY DEF Signals
<1> HIDE DEF c, Signal, urgency, asks, greets, links, format, short
<1>11. kind \in {"sender", "urgency", "asks", "greets", "links", "format", "short"}
  BY <1>10
<1> QED
  BY <1>3, <1>4, <1>5, <1>6, <1>7, <1>8, <1>9, <1>10, <1>11 DEF t

-----------------------------------------------------------------------------
\* The stages of a message.

WalkOf(m) == [walk |-> Walk(m.parts), links |-> Links(m, Walk(m.parts))]

\* The inductive invariant: what each stage leaves behind.
Inv ==
  /\ IsMessage(mail)
  /\ at \in {"received", "refused", "parsed", "analysed"}
  /\ at \in {"received", "refused"} => parsed = NotParsed
  /\ at \in {"parsed", "analysed"} => parsed = WalkOf(mail)
  /\ at = "analysed" => /\ findings = WorstToLeast(Unsorted(mail, parsed))
                        /\ signals = <<Signals(mail, mail.text)>>

LEMMA StagesAreKept == Spec => []Inv
<1>1. Init => Inv
  BY EmailAnalysisAssumption DEF Init, Inv
<1>2. Inv /\ [Next]_vars => Inv'
  <2> SUFFICES ASSUME Inv, [Next]_vars PROVE Inv'
    OBVIOUS
  <2>1. CASE Reject
    BY <2>1 DEF Inv, Reject
  <2>2. CASE Parse
    BY <2>2 DEF Inv, Parse, WalkOf
  <2>3. CASE Analyze
    BY <2>3 DEF Inv, Analyze
  <2>4. CASE UNCHANGED vars
    BY <2>4 DEF Inv, vars
  <2> QED
    BY <2>1, <2>2, <2>3, <2>4 DEF Next
<1> QED
  BY <1>1, <1>2, PTL DEF Spec

LEMMA WhatIsParsed ==
  ASSUME NEW m, IsMessage(m)
  PROVE  LET p == WalkOf(m) IN
         /\ \E n \in Nat : DOMAIN p.links = 1..n
         /\ \E k \in Nat : DOMAIN p.walk.attachments = 1..k
<1> DEFINE parts == m.parts
           w == Walk(parts)
           urls == IF w.text = 0 THEN <<>> ELSE Cut(parts[w.text].content)
           anchors == IF w.html = 0 THEN <<>> ELSE Visible(Extract(Cut(parts[w.html].content)))
           s == [i \in DOMAIN urls |-> [href |-> urls[i], text |-> <<>>, source |-> "text"]]
           t == [i \in DOMAIN anchors |->
                   [href |-> anchors[i].href, text |-> anchors[i].text, source |-> "html"]]
<1>1. w \in Walks(Len(parts)) /\ Walked(w, parts, Len(parts)) /\ parts \in Seq(Leaf)
  BY WalkCovers DEF IsMessage
<1>2. WalkOf(m).walk.attachments = w.attachments /\ w.attachments \in Seq(1..Len(parts))
  BY <1>1 DEF WalkOf, Walks
<1>3. WalkOf(m).links = s \o t
  BY DEF WalkOf, Links, Visible
<1>4. urls \in Seq(Target)
  <2>1. CASE w.text = 0
    BY <2>1
  <2>2. CASE w.text # 0
    <3>1. w.text \in DOMAIN parts /\ parts[w.text].type = "text"
      BY SMTT(30), <1>1, <2>2 DEF Walked, FirstBody, Body
    <3> QED
      BY <2>2, <3>1, CutType DEF IsMessage
  <2> QED
    BY <2>1, <2>2
<1>5. anchors \in Seq(Anchor)
  <2>1. CASE w.html = 0
    BY <2>1
  <2>2. CASE w.html # 0
    <3>1. w.html \in DOMAIN parts /\ parts[w.html].type = "html"
      BY SMTT(30), <1>1, <2>2 DEF Walked, FirstBody, Body
    <3>2. Cut(parts[w.html].content) \in Seq(Token)
      BY <3>1, CutType DEF IsMessage
    <3> QED
      BY <2>2, <3>2, VisibleIsSeq
  <2> QED
    BY <2>1, <2>2
<1> HIDE DEF urls, anchors, w
<1>6. DOMAIN urls = 1..Len(urls) /\ Len(urls) \in Nat
      /\ DOMAIN anchors = 1..Len(anchors) /\ Len(anchors) \in Nat
  BY <1>4, <1>5
<1> DEFINE T == {s[i] : i \in DOMAIN urls} \cup {t[i] : i \in DOMAIN anchors}
<1>7. s \in [1..Len(urls) -> T] /\ t \in [1..Len(anchors) -> T]
  BY <1>6
<1> HIDE DEF s, t, T
<1>8. s \in Seq(T) /\ t \in Seq(T)
  BY <1>6, <1>7
<1>9. DOMAIN (s \o t) = 1..(Len(s) + Len(t)) /\ Len(s) + Len(t) \in Nat
  BY <1>8
<1>10. DOMAIN w.attachments = 1..Len(w.attachments) /\ Len(w.attachments) \in Nat
  BY <1>2
<1> QED
  BY <1>2, <1>3, <1>9, <1>10

-----------------------------------------------------------------------------
\* The invariants that are checked.

\* Nothing of a message is lost or counted twice on the way to the analysis,
\* whatever its leaves are (parse, _extract_bodies).
THEOREM NothingLostOrCountedTwice == Spec => []PartsUsedOnce
<1>1. Inv => PartsUsedOnce
  <2> SUFFICES ASSUME Inv, at # "received" /\ at # "refused" PROVE PartsUsedOnce
    BY DEF PartsUsedOnce
  <2>1. mail.parts \in Seq(Leaf) /\ parsed.walk = Walk(mail.parts)
    BY DEF Inv, IsMessage, WalkOf
  <2> QED
    BY <2>1, WalkUsesOnce DEF PartsUsedOnce
<1> QED
  BY <1>1, StagesAreKept, PTL

\* Of what is kept of an HTML body, whatever it holds and wherever it is cut, the
\* anchors are those an HTML reader sees, each with its own text
\* (_AnchorExtractor), and there are none if the parser trips (_extract_links).
THEOREM AnchorsAreThoseSeen == Spec => []AnchorsAreComplete
<1>1. Inv => AnchorsAreComplete
  <2> SUFFICES ASSUME Inv, at # "received", parsed.walk.html # 0 PROVE AnchorsAreComplete
    BY DEF AnchorsAreComplete
  <2>1. at # "refused"
    BY DEF Inv, NotParsed, EmptyWalk
  <2>2. /\ IsMessage(mail) /\ parsed.walk = Walk(mail.parts)
        /\ parsed.links = Links(mail, Walk(mail.parts))
    BY <2>1 DEF Inv, WalkOf
  <2> DEFINE tokens == Cut(mail.parts[parsed.walk.html].content)
             found == Only(parsed.links, {l \in Range(parsed.links) : l.source = "html"})
  <2>3. CASE ~Trips(tokens)
    <3>1. Complete(parsed.links, tokens)
      BY <2>2, <2>3, LinksAreComplete
    <3> QED
      BY <2>3, <3>1 DEF AnchorsAreComplete, Complete, Ends, Closes
  <2>4. CASE Trips(tokens)
    <3>1. found = <<>>
      BY <2>2, <2>4, NoLinksAfterAnError
    <3> QED
      BY <2>4, <3>1 DEF AnchorsAreComplete
  <2> QED
    BY <2>3, <2>4
<1> QED
  BY <1>1, StagesAreKept, PTL

\* What an analysed message is found to be, in the order of the analyzers and
\* sorted.
LEMMA WhatIsFound ==
  ASSUME Inv, at = "analysed"
  PROVE  LET U == Unsorted(mail, parsed) IN
         /\ findings = WorstToLeast(U) /\ \E V : Blocks(U, V)
         /\ Warned(U)
         /\ {f \in Range(U) : f.category = "link"}
              = UNION {OfLink(parsed.links[i]) : i \in DOMAIN parsed.links}
<1>1. IsMessage(mail) /\ parsed = WalkOf(mail) /\ findings = WorstToLeast(Unsorted(mail, parsed))
  BY DEF Inv
<1>2. /\ \E n \in Nat : DOMAIN parsed.links = 1..n
      /\ \E k \in Nat : DOMAIN parsed.walk.attachments = 1..k
  BY <1>1, WhatIsParsed
<1> QED
  BY <1>1, <1>2, UnsortedSays

\* No link hides another, however many there are: the loop over them, with the
\* set it shares, says of each what it deserves on its own, and says it once
\* (_link_findings).
THEOREM LinksAreJudgedOneByOne == Spec => []EveryLinkIsJudged
<1>1. Inv => EveryLinkIsJudged
  <2> SUFFICES ASSUME Inv, at = "analysed" PROVE EveryLinkIsJudged
    BY DEF EveryLinkIsJudged
  <2> DEFINE U == Unsorted(mail, parsed)
             W == findings
             Said == UNION {OfLink(parsed.links[i]) : i \in DOMAIN parsed.links}
             S == {f \in Range(W) : f.category = "link"}
  <2>1. /\ W = WorstToLeast(U) /\ \E V : Blocks(U, V)
        /\ {f \in Range(U) : f.category = "link"} = Said
    BY WhatIsFound
  <2> HIDE DEF U, Said
  <2>2. /\ W \in Seq(Range(U)) /\ Range(W) = Range(U)
        /\ \A i, j \in 1..Len(W) : W[i] = W[j] /\ W[i].category = "link" => i = j
    BY <2>1, SortKeeps DEF Reordered
  <2>3. \A i, j \in 1..Len(W) : W[i] = W[j] /\ W[i] \in S => i = j
    BY <2>2
  <2>4. {f \in Range(W) : f \in S} = Said
    BY <2>1, <2>2
  <2> HIDE DEF S
  <2>5. Range(Only(W, S)) = Said /\ Len(Only(W, S)) = Cardinality(Range(Only(W, S)))
    BY <2>2, <2>3, <2>4, OnlyInjects
  <2> QED
    BY <2>5 DEF EveryLinkIsJudged, S, Said
<1> QED
  BY <1>1, StagesAreKept, PTL

\* The findings are all there, most-severe first and among equals in the order
\* of the analyzers; a deceptive file name is never the only thing said of an
\* attachment (analyze).
THEOREM FindingsAreWorstFirst == Spec => []WorstFirst
<1>1. Inv => WorstFirst
  <2> SUFFICES ASSUME Inv, at = "analysed" PROVE WorstFirst
    BY DEF WorstFirst
  <2> DEFINE U == Unsorted(mail, parsed)
             W == findings
  <2>1. W = WorstToLeast(U) /\ (\E V : Blocks(U, V)) /\ Warned(U)
    BY WhatIsFound
  <2> HIDE DEF U
  <2>2. Reordered(W, U)
    BY <2>1, SortKeeps
  <2>3. /\ W \in Seq(Range(U)) /\ Range(W) = Range(U)
        /\ \A i, j \in 1..Len(W) : i < j =>
              \/ Rank(W[i]) > Rank(W[j])
              \/ Rank(W[i]) = Rank(W[j]) /\ AnalyzerOf(W[i]) <= AnalyzerOf(W[j])
        /\ \A f : Cardinality({i \in DOMAIN U : U[i] = f})
                    = Cardinality({i \in DOMAIN W : W[i] = f})
    BY <2>2 DEF Reordered
  <2>4. DOMAIN W = 1..Len(W)
    BY <2>3
  <2>5. Warned(W)
    BY <2>1, <2>3 DEF Warned
  <2> QED
    BY <2>3, <2>4, <2>5 DEF WorstFirst, AnalyzerOf, Warned, U
<1> QED
  BY <1>1, StagesAreKept, PTL

\* One more of what makes a text suspicious, with the words it takes, never makes
\* it look less so, for any text; only its shortness may end (engineered_features).
THEOREM SignalsNeverFall == Spec => []SignalsAreMonotone
<1>1. Inv => SignalsAreMonotone
  <2> SUFFICES ASSUME Inv, at = "analysed" PROVE SignalsAreMonotone
    BY DEF SignalsAreMonotone
  <2> DEFINE t == mail.text
             now == Signals(mail, t)
  <2>1. IsMessage(mail) /\ signals = <<now>>
    BY DEF Inv
  <2>2. \A u \in More(t), kind \in DOMAIN now :
           NoLess(now[kind], Signals(mail, u)[kind]) \/ Outgrown(kind, u, now[kind])
    BY <2>1, SignalsGrow
  <2> HIDE DEF now
  <2>3. signals[1] = now
    BY <2>1
  <2>4. \A u \in More(t), kind \in DOMAIN signals[1] :
           /\ \/ Signals(mail, u)[kind].weight >= signals[1][kind].weight
              \/ kind = "short" /\ u.words >= 40
           /\ signals[1][kind].severity = "high" => Signals(mail, u)[kind].severity = "high"
    BY <2>2, <2>3 DEF NoLess, Outgrown
  <2> QED
    BY <2>4 DEF SignalsAreMonotone
<1> QED
  BY <1>1, StagesAreKept, PTL

=============================================================================

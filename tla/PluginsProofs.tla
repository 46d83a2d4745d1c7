---------------------------- MODULE PluginsProofs ----------------------------
(* Theorems about Plugins and the start it begins with: what a start has   *)
(* let through holds of what it keeps, a hook costs the library nothing,   *)
(* its writes land with the transaction they were lent, and a grant to the *)
(* plugin login is seen in time.                                           *)
(*                                                                         *)
(* The start is about recursive functions and joined sequences, which come *)
(* first; then the invariant, what stays of a request another one leaves   *)
(* alone, one lemma for every action, and the theorems.                    *)
EXTENDS Plugins, SequenceTheorems, FiniteSetTheorems, NaturalsInduction,
        WellFoundedInduction, TLAPS

(***************************************************************************)
(* Loops                                                                   *)
(***************************************************************************)
\* A nonempty set of natural numbers has a least element.
LEMMA LeastExists ==
  ASSUME NEW S \in SUBSET Nat, S # {}
  PROVE  \E x \in S : \A y \in S : x <= y
<1> DEFINE R == {ss \in Nat \X Nat : ss[1] < ss[2]}
<1>1. IsWellFoundedOn(R, Nat)
  BY NatLessThanWellFounded DEF OpToRel
<1>2. \E x \in S : \A y \in S : <<y, x>> \notin R
  <2> HIDE DEF R
  <2> QED  BY <1>1, WFMin
<1>3. \A x, y \in Nat : <<y, x>> \notin R => x <= y
  BY SMT
<1> QED  BY <1>2, <1>3

\* step[i][x] is what round i of a loop makes of x.
Rounds(n, T, step) == \A i \in 1 .. n : \A x \in T : step[i][x] \in T
Loop(n, first, step, f) == f[0] = first /\ \A i \in 1 .. n : f[i] = step[i][f[i - 1]]
GoAlike(n, f, g) == \A i \in 1 .. n : f[i - 1] = g[i - 1] => f[i] = g[i]

\* A loop of n rounds has a value after each of them.
LEMMA LoopExists ==
  ASSUME NEW n \in Nat, NEW T, NEW first \in T, NEW step, Rounds(n, T, step)
  PROVE  \E f \in [0 .. n -> T] : Loop(n, first, step, f)
<1> DEFINE Upto(m, f) ==
             f \in [0 .. m -> T] /\ f[0] = first /\ \A i \in 1 .. m : f[i] = step[i][f[i - 1]]
           Bad == {m \in 0 .. n : ~\E f : Upto(m, f)}
<1> USE DEF Rounds, Loop
<1>1. SUFFICES ASSUME Bad # {} PROVE FALSE
  <2>1. n \in 0 .. n /\ n \notin Bad => \E f : Upto(n, f)
    OBVIOUS
  <2>2. n \in 0 .. n
    OBVIOUS
  <2> HIDE DEF Bad
  <2> QED  BY <2>1, <2>2
<1>2. PICK m \in Bad : \A y \in Bad : m <= y
  <2>1. Bad \in SUBSET Nat
    BY SMT
  <2> HIDE DEF Bad
  <2> QED  BY <1>1, <2>1, LeastExists
<1>3. CASE m = 0
  <2> DEFINE f == [i \in 0 .. 0 |-> first]
  <2>1. Upto(0, f)
    OBVIOUS
  <2> QED  BY <1>2, <1>3, <2>1
<1>4. CASE m # 0
  <2>1. m - 1 \in 0 .. n /\ m - 1 \notin Bad /\ m \in Nat
    BY <1>2, <1>4, SMTT(30)
  <2>2. PICK f : Upto(m - 1, f)
    BY <2>1
  <2> DEFINE g == [i \in 0 .. m |-> IF i = m THEN step[m][f[m - 1]] ELSE f[i]]
  <2>3. g \in [0 .. m -> T]
    BY <2>1, <2>2, <1>2
  <2>4. ASSUME NEW i \in 1 .. m PROVE g[i] = step[i][g[i - 1]]
    <3>1. CASE i # m
      <4>1. i - 1 \in 0 .. m /\ i - 1 # m /\ i \in 1 .. (m - 1)
        BY <2>1, <3>1
      <4> QED  BY <2>2, <3>1, <4>1
    <3>2. CASE i = m
      <4>1. i - 1 \in 0 .. m /\ i - 1 # m
        BY <2>1, <3>2, <1>4
      <4> QED  BY <4>1, <3>2, <1>4
    <3> QED  BY <3>1, <3>2
  <2>5. g[0] = first
    BY <2>1, <2>2, <1>4
  <2>6. Upto(m, g)
    BY <2>3, <2>4, <2>5
  <2> QED  BY <2>6, <1>2
<1> QED  BY <1>3, <1>4

\* Two loops that begin alike and go on alike are the same.
LEMMA LoopsAgree ==
  ASSUME NEW n \in Nat, NEW f, NEW g, f[0] = g[0], GoAlike(n, f, g)
  PROVE  f[n] = g[n]
<1> DEFINE Bad == {i \in 0 .. n : f[i] # g[i]}
<1>1. Bad \in SUBSET Nat
  BY SMT
<1>2. ASSUME Bad # {} PROVE FALSE
  <2>1. PICK m \in Bad : \A i \in Bad : m <= i
    <3> HIDE DEF Bad
    <3> QED  BY <1>1, <1>2, LeastExists
  <2>2. m \in 1 .. n
    BY <2>1
  <2>3. m - 1 \in 0 .. n /\ m - 1 \notin Bad
    BY <2>1, <2>2
  <2> QED  BY <2>1, <2>2, <2>3 DEF GoAlike
<1> QED  BY <1>2

(***************************************************************************)
(* One sequence made of many                                               *)
(***************************************************************************)
\* Element j of sequence i is found at p[i][j] of `flat`: everything is, and nothing else.
Laid(seqs, m, flat, p) ==
    /\ \A i \in 1 .. m : \A j \in 1 .. Len(seqs[i]) :
          p[i][j] \in 1 .. Len(flat) /\ flat[p[i][j]] = seqs[i][j]
    /\ \A k \in 1 .. Len(flat) : \E i \in 1 .. m : \E j \in 1 .. Len(seqs[i]) : p[i][j] = k
    /\ \A i, h \in 1 .. m : \A j \in 1 .. Len(seqs[i]) : \A k \in 1 .. Len(seqs[h]) :
          p[i][j] = p[h][k] => i = h /\ j = k

\* Every element of the joined sequence comes from one place of one of them.
LEMMA Flattened ==
  ASSUME NEW T, NEW seqs \in Seq(Seq(T))
  PROVE  /\ FlattenSeq(seqs) \in Seq(T)
         /\ \E p : Laid(seqs, Len(seqs), FlattenSeq(seqs), p)
<1> DEFINE n == Len(seqs)
           step == [i \in 1 .. n |-> [x \in Seq(T) |-> x \o seqs[i]]]
<1>1. n \in Nat /\ \A i \in 1 .. n : seqs[i] \in Seq(T)
  OBVIOUS
<1>2. PICK g \in [0 .. n -> Seq(T)] : Loop(n, <<>>, step, g)
  <2>1. Rounds(n, Seq(T), step)
    BY <1>1 DEF Rounds
  <2>2. <<>> \in Seq(T)
    OBVIOUS
  <2> HIDE DEF step, n
  <2> QED  BY <1>1, <2>1, <2>2, LoopExists
<1>3. g[0] = <<>> /\ \A i \in 1 .. n : g[i] = g[i - 1] \o seqs[i] /\ g[i - 1] \in Seq(T)
  <2>1. \A i \in 1 .. n : i - 1 \in 0 .. n
    BY <1>1
  <2>2. \A i \in 1 .. n : g[i - 1] \in Seq(T)
    BY <2>1
  <2> QED  BY <1>2, <2>2 DEF Loop
<1>4. FlattenSeq(seqs) = g[n]
  <2>1. CASE n = 0
    BY <1>3, <2>1 DEF FlattenSeq
  <2>2. CASE n # 0
    <3> DEFINE Is(f) == f = [i \in 1 .. n |-> IF i = 1 THEN seqs[i] ELSE f[i - 1] \o seqs[i]]
               f == [i \in 1 .. n |-> g[i]]
               h == CHOOSE h : Is(h)
    <3>1. ASSUME NEW i \in 1 .. n PROVE f[i] = IF i = 1 THEN seqs[i] ELSE f[i - 1] \o seqs[i]
      <4>1. CASE i = 1
        <5>1. g[i] = <<>> \o seqs[i] /\ seqs[i] \in Seq(T)
          <6>1. i - 1 = 0
            BY <4>1
          <6> QED  BY <1>1, <1>3, <6>1
        <5> QED  BY <4>1, <5>1
      <4>2. CASE i # 1
        <5>1. i - 1 \in 1 .. n
          BY <1>1, <4>2
        <5> QED  BY <1>3, <4>2, <5>1
      <4> QED  BY <4>1, <4>2
    <3>2. Is(f)
      BY <3>1
    <3>3. Is(h)
      <4> HIDE DEF Is
      <4> QED  BY <3>2
    <3>4. \A i \in 1 .. n : h[i] = IF i = 1 THEN seqs[i] ELSE h[i - 1] \o seqs[i]
      <4> HIDE DEF h
      <4> QED  BY <3>3
    <3> DEFINE shifted == [i \in 0 .. n |-> IF i = 0 THEN <<>> ELSE h[i]]
    <3>5. GoAlike(n, shifted, g) /\ shifted[0] = g[0]
      <4> HIDE DEF h, Is
      <4>1. ASSUME NEW i \in 1 .. n, shifted[i - 1] = g[i - 1] PROVE shifted[i] = g[i]
        <5>1. i - 1 \in 0 .. n /\ i \in 0 .. n /\ i # 0
          BY <1>1
        <5>2. CASE i = 1
          <6>1. g[i] = <<>> \o seqs[i] /\ seqs[i] \in Seq(T)
            <7>1. i - 1 = 0
              BY <5>2
            <7> QED  BY <1>1, <1>3, <7>1
          <6> QED  BY <3>4, <5>1, <5>2, <6>1
        <5>3. CASE i # 1
          <6>1. i - 1 # 0
            BY <5>3
          <6>2. h[i - 1] = g[i - 1]
            BY <4>1, <5>1, <6>1
          <6> QED  BY <1>3, <3>4, <5>1, <5>3, <6>2
        <5> QED  BY <5>2, <5>3
      <4>2. shifted[0] = g[0]
        BY <1>1, <1>3
      <4> HIDE DEF shifted
      <4> QED  BY <4>1, <4>2 DEF GoAlike
    <3>6. shifted[n] = g[n]
      <4> HIDE DEF shifted
      <4> QED  BY <1>1, <3>5, LoopsAgree
    <3>7. h[n] = g[n]
      <4> HIDE DEF h, Is
      <4> QED  BY <1>1, <2>2, <3>6
    <3>8. FlattenSeq(seqs) = h[n]
      BY <2>2 DEF FlattenSeq
    <3> HIDE DEF h, Is
    <3> QED  BY <3>7, <3>8
  <2> QED  BY <2>1, <2>2
<1> DEFINE p == [i \in 1 .. n |-> [j \in 1 .. Len(seqs[i]) |-> Len(g[i - 1]) + j]]
           Well(m) == Laid(seqs, m, g[m], p)
           Bad == {m \in 0 .. n : ~Well(m)}
<1>5. Well(0)
  BY <1>3 DEF Laid
<1>6. ASSUME NEW m \in 1 .. n, Well(m - 1) PROVE Well(m)
  <2> DEFINE before == g[m - 1]
             more == seqs[m]
             flat == g[m]
  <2>1. /\ before \in Seq(T) /\ more \in Seq(T) /\ flat = before \o more /\ flat \in Seq(T)
        /\ m - 1 \in Nat /\ m \in Nat
    <3>1. m \in 0 .. n /\ m - 1 \in Nat /\ m \in Nat
      BY <1>1
    <3> QED  BY <1>1, <1>3, <3>1
  <2>2. /\ Len(flat) = Len(before) + Len(more) /\ Len(before) \in Nat /\ Len(more) \in Nat
        /\ \A k \in 1 .. Len(before) : flat[k] = before[k]
        /\ \A k \in 1 .. Len(more) : flat[Len(before) + k] = more[k]
    <3> HIDE DEF before, more, flat
    <3> QED  BY <2>1
  <2>3. \A j \in 1 .. Len(more) : p[m][j] = Len(before) + j
    OBVIOUS
  <2>4. \A i \in 1 .. m : i \in 1 .. (m - 1) \/ i = m
    BY <2>1
  <2>5. /\ \A i \in 1 .. (m - 1) : \A j \in 1 .. Len(seqs[i]) :
              p[i][j] \in 1 .. Len(before) /\ before[p[i][j]] = seqs[i][j]
        /\ \A k \in 1 .. Len(before) : \E i \in 1 .. (m - 1) : \E j \in 1 .. Len(seqs[i]) : p[i][j] = k
        /\ \A i, h \in 1 .. (m - 1) : \A j \in 1 .. Len(seqs[i]) : \A k \in 1 .. Len(seqs[h]) :
              p[i][j] = p[h][k] => i = h /\ j = k
    BY <1>6 DEF Laid
  <2>9. \A k : k \in 1 .. Len(before) => k \in 1 .. Len(flat) /\ flat[k] = before[k]
    <3> HIDE DEF before, flat, more
    <3> QED  BY <2>2
  <2> HIDE DEF before, flat, p
  <2>6. ASSUME NEW i \in 1 .. m, NEW j \in 1 .. Len(seqs[i])
        PROVE  p[i][j] \in 1 .. Len(flat) /\ flat[p[i][j]] = seqs[i][j]
    <3>1. CASE i = m
      BY <2>2, <2>3, <3>1, SMTT(30)
    <3>2. CASE i \in 1 .. (m - 1)
      <4>1. p[i][j] \in 1 .. Len(before) /\ before[p[i][j]] = seqs[i][j]
        BY <2>5, <3>2
      <4> QED  BY <2>9, <4>1
    <3> QED  BY <2>4, <3>1, <3>2
  <2>7. ASSUME NEW k \in 1 .. Len(flat) PROVE \E i \in 1 .. m : \E j \in 1 .. Len(seqs[i]) : p[i][j] = k
    <3>1. CASE k <= Len(before)
      <4>1. PICK i \in 1 .. (m - 1) : \E j \in 1 .. Len(seqs[i]) : p[i][j] = k
        <5>1. k \in 1 .. Len(before)
          BY <2>2, <3>1
        <5> QED  BY <2>5, <5>1
      <4>2. i \in 1 .. m
        BY <2>1
      <4> QED  BY <4>1, <4>2
    <3>2. CASE k > Len(before)
      <4>1. k - Len(before) \in 1 .. Len(more) /\ k = Len(before) + (k - Len(before)) /\ m \in 1 .. m
        BY <2>1, <2>2, <3>2
      <4>2. p[m][k - Len(before)] = k
        BY <2>3, <4>1
      <4> QED  BY <4>1, <4>2
    <3> QED  BY <2>2, <3>1, <3>2
  <2>8. ASSUME NEW i \in 1 .. m, NEW h \in 1 .. m, NEW j \in 1 .. Len(seqs[i]),
               NEW k \in 1 .. Len(seqs[h]), p[i][j] = p[h][k]
        PROVE  i = h /\ j = k
    <3>1. CASE i = m /\ h = m
      BY <2>2, <2>3, <2>8, <3>1
    <3>2. CASE i = m /\ h \in 1 .. (m - 1)
      <4>1. p[h][k] \in 1 .. Len(before)
        BY <2>5, <3>2
      <4> QED  BY <2>2, <2>3, <2>8, <3>2, <4>1, SMTT(30)
    <3>3. CASE i \in 1 .. (m - 1) /\ h = m
      <4>1. p[i][j] \in 1 .. Len(before)
        BY <2>5, <3>3
      <4>2. k \in 1 .. Len(more) /\ p[h][k] = Len(before) + k
        BY <2>3, <3>3
      <4> HIDE DEF more
      <4> QED  BY <2>2, <2>8, <4>1, <4>2
    <3>4. CASE i \in 1 .. (m - 1) /\ h \in 1 .. (m - 1)
      <4>1. \A jj \in 1 .. Len(seqs[i]) : \A kk \in 1 .. Len(seqs[h]) :
              p[i][jj] = p[h][kk] => i = h /\ jj = kk
        BY <2>5, <3>4
      <4> QED  BY <2>8, <4>1
    <3> QED  BY <2>4, <3>1, <3>2, <3>3, <3>4
  <2> QED  BY <2>6, <2>7, <2>8 DEF Laid, flat
<1>7. Bad = {}
  <2> SUFFICES ASSUME Bad # {} PROVE FALSE
    OBVIOUS
  <2>1. Bad \in SUBSET Nat
    BY SMT
  <2>2. PICK m \in Bad : \A i \in Bad : m <= i
    <3> HIDE DEF Bad
    <3> QED  BY <2>1, LeastExists
  <2>3. m \in 1 .. n /\ m - 1 \in 0 .. n /\ m - 1 \notin Bad
    <3> HIDE DEF Well
    <3> QED  BY <1>1, <1>5, <2>2
  <2> HIDE DEF Well
  <2> QED  BY <1>6, <2>2, <2>3
<1>8. n \in 0 .. n
  BY <1>1
<1>9. Well(n)
  <2> HIDE DEF Well
  <2> QED  BY <1>7, <1>8
<1>10. g[n] \in Seq(T)
  BY <1>8
<1>11. \E q : Laid(seqs, Len(seqs), FlattenSeq(seqs), q)
  <2> HIDE DEF p
  <2> QED  BY <1>4, <1>9
<1> QED  BY <1>4, <1>10, <1>11

(***************************************************************************)
(* The dependency order                                                    *)
(***************************************************************************)
Orders(ids) == Seq(ids) \cup {Nothing}

\* A plugin is found under its id.
LEMMA PluginIsFound ==
  ASSUME NEW plugins \in Seq(Readings), NEW id \in IdsOf(plugins)
  PROVE  /\ \E i \in DOMAIN plugins : PluginOf(plugins, id) = plugins[i]
         /\ PluginOf(plugins, id) \in Readings /\ PluginOf(plugins, id).id = id
<1>1. PICK i \in DOMAIN plugins : plugins[i].id = id
  BY DEF IdsOf
<1>2. plugins[i] \in ToSet(plugins) /\ plugins[i].id = id
  BY <1>1 DEF ToSet
<1>3. PluginOf(plugins, id) \in ToSet(plugins) /\ PluginOf(plugins, id).id = id
  BY <1>2 DEF PluginOf
<1>4. PICK j \in DOMAIN plugins : PluginOf(plugins, id) = plugins[j]
  BY <1>3 DEF ToSet
<1>5. plugins[j] \in Readings
  BY <1>4
<1> QED  BY <1>3, <1>4, <1>5

\* What a declared plugin depends on is declared.
LEMMA NeedsAreIds ==
  ASSUME NEW plugins \in Seq(Readings), ~DependencyIsMissing(plugins), NEW id \in IdsOf(plugins)
  PROVE  /\ PluginOf(plugins, id).dependsOn \in Seq(IdsOf(plugins))
         /\ IdsOf(plugins) \subseteq Names
<1>1. PICK i \in DOMAIN plugins : PluginOf(plugins, id) = plugins[i]
  BY PluginIsFound
<1>2. plugins[i] \in Readings
  BY <1>1
<1>3. plugins[i].dependsOn \in Seq(Names)
  BY <1>2 DEF Readings
<1>4. ToSet(plugins[i].dependsOn) \subseteq IdsOf(plugins)
  BY DEF DependencyIsMissing
<1>5. \A j \in 1 .. Len(plugins[i].dependsOn) : plugins[i].dependsOn[j] \in IdsOf(plugins)
  BY <1>3, <1>4 DEF ToSet
<1>6. plugins[i].dependsOn \in Seq(IdsOf(plugins))
  BY <1>3, <1>5
<1>7. IdsOf(plugins) \subseteq Names
  <2>1. \A j \in DOMAIN plugins : plugins[j] \in Readings
    OBVIOUS
  <2> QED  BY <2>1 DEF IdsOf, Readings
<1> QED  BY <1>1, <1>6, <1>7

\* f[i] is what is settled after the first i of the ids `todo`.
Turns(visit, todo, path, settled, f) ==
    /\ f[0] = settled
    /\ \A i \in 1 .. Len(todo) :
          f[i] = IF f[i - 1] = Nothing THEN Nothing
                 ELSE visit[[id |-> todo[i], path |-> path, settled |-> f[i - 1]]]

\* Visiting in turn is a loop.
LEMMA InTurnUnfolds ==
  ASSUME NEW ids, NEW visit \in [VisitsOf(ids) -> Orders(ids)], NEW todo \in Seq(ids),
         NEW path \in SUBSET ids, NEW settled \in Orders(ids)
  PROVE  /\ InTurn(visit, todo, path, settled) \in Orders(ids)
         /\ \E f \in [0 .. Len(todo) -> Orders(ids)] :
               /\ InTurn(visit, todo, path, settled) = f[Len(todo)]
               /\ Turns(visit, todo, path, settled, f)
<1> DEFINE step == [i \in 1 .. Len(todo) |-> [x \in Orders(ids) |->
                      IF x = Nothing THEN Nothing
                      ELSE visit[[id |-> todo[i], path |-> path, settled |-> x]]]]
           Is(f) == f = [i \in 0 .. Len(todo) |->
                      IF i = 0 THEN settled
                      ELSE IF f[i - 1] = Nothing THEN Nothing
                      ELSE visit[[id |-> todo[i], path |-> path, settled |-> f[i - 1]]]]
<1>1. ASSUME NEW i \in 1 .. Len(todo), NEW x \in Orders(ids) PROVE step[i][x] \in Orders(ids)
  <2>1. CASE x = Nothing
    BY <2>1 DEF Orders
  <2>2. CASE x # Nothing
    <3>1. [id |-> todo[i], path |-> path, settled |-> x] \in VisitsOf(ids)
      BY <2>2 DEF Orders, VisitsOf
    <3> QED  BY <2>2, <3>1
  <2> QED  BY <2>1, <2>2
<1>2. PICK f \in [0 .. Len(todo) -> Orders(ids)] : Loop(Len(todo), settled, step, f)
  <2>1. Len(todo) \in Nat
    OBVIOUS
  <2>2. Rounds(Len(todo), Orders(ids), step)
    BY <1>1 DEF Rounds
  <2> HIDE DEF step
  <2> QED  BY <2>1, <2>2, LoopExists
<1>3. f[0] = settled /\ Len(todo) \in Nat
  BY <1>2 DEF Loop
<1>4. \A i \in 1 .. Len(todo) :
        /\ f[i - 1] \in Orders(ids)
        /\ f[i] = IF f[i - 1] = Nothing THEN Nothing
                  ELSE visit[[id |-> todo[i], path |-> path, settled |-> f[i - 1]]]
  <2> TAKE i \in 1 .. Len(todo)
  <2>1. i - 1 \in 0 .. Len(todo) /\ i \in 0 .. Len(todo) /\ i # 0
    BY <1>3
  <2>2. f[i] = step[i][f[i - 1]] /\ f[i - 1] \in Orders(ids)
    <3> HIDE DEF step
    <3> QED  BY <1>2, <2>1 DEF Loop
  <2> QED  BY <2>2
<1>5. Is(f)
  <2> HIDE DEF step
  <2>1. ASSUME NEW i \in 0 .. Len(todo)
        PROVE  f[i] = IF i = 0 THEN settled
                      ELSE IF f[i - 1] = Nothing THEN Nothing
                      ELSE visit[[id |-> todo[i], path |-> path, settled |-> f[i - 1]]]
    <3>1. i # 0 => i \in 1 .. Len(todo)
      BY <1>3
    <3> QED  BY <1>3, <1>4, <3>1
  <2>2. f = [i \in 0 .. Len(todo) |-> f[i]]
    BY <1>2
  <2> QED  BY <2>1, <2>2
<1> DEFINE g == CHOOSE g : Is(g)
<1>6. Is(g)
  <2> HIDE DEF Is
  <2> QED  BY <1>5
<1>7. g[0] = settled /\ \A i \in 1 .. Len(todo) :
        g[i] = IF g[i - 1] = Nothing THEN Nothing
               ELSE visit[[id |-> todo[i], path |-> path, settled |-> g[i - 1]]]
  <2> HIDE DEF g
  <2> QED  BY <1>3, <1>6
<1>8. g[Len(todo)] = f[Len(todo)]
  <2> HIDE DEF g, Is, step
  <2>1. GoAlike(Len(todo), f, g)
    BY <1>4, <1>7, Zenon DEF GoAlike
  <2>2. f[0] = g[0]
    BY <1>3, <1>7
  <2> QED  BY <1>3, <2>1, <2>2, LoopsAgree
<1>9. InTurn(visit, todo, path, settled) = f[Len(todo)]
  <2>1. InTurn(visit, todo, path, settled) = g[Len(todo)]
    BY DEF InTurn
  <2> HIDE DEF g, Is
  <2> QED  BY <2>1, <1>8
<1>10. f[Len(todo)] \in Orders(ids)
  BY <1>3
<1> QED  BY <1>3, <1>4, <1>9, <1>10 DEF Turns

\* Visit as its own equation: `w` visits what the plugin depends on.
Below(plugins, w, call) ==
    InTurn(w, PluginOf(plugins, call.id).dependsOn, call.path \cup {call.id}, call.settled)
Visited(plugins, depth, w, call) ==
    IF Contains(call.settled, call.id) THEN call.settled
    ELSE IF depth = 0 \/ call.id \in call.path \/ Below(plugins, w, call) = Nothing THEN Nothing
    ELSE Append(Below(plugins, w, call), call.id)

\* A visit leads to an order or to nothing.
LEMMA VisitedType ==
  ASSUME NEW plugins \in Seq(Readings), ~DependencyIsMissing(plugins), NEW depth,
         NEW w \in [VisitsOf(IdsOf(plugins)) -> Orders(IdsOf(plugins))],
         NEW call \in VisitsOf(IdsOf(plugins))
  PROVE  /\ Below(plugins, w, call) \in Orders(IdsOf(plugins))
         /\ Visited(plugins, depth, w, call) \in Orders(IdsOf(plugins))
<1> DEFINE ids == IdsOf(plugins)
<1>1. call.id \in ids /\ call.path \in SUBSET ids /\ call.settled \in Seq(ids)
  BY DEF VisitsOf
<1>2. PluginOf(plugins, call.id).dependsOn \in Seq(ids)
  BY <1>1, NeedsAreIds
<1>3. call.path \cup {call.id} \in SUBSET ids /\ call.settled \in Orders(ids)
  BY <1>1 DEF Orders
<1> DEFINE todo == PluginOf(plugins, call.id).dependsOn
<1>5. Below(plugins, w, call) \in Orders(ids)
  <2>1. w \in [VisitsOf(ids) -> Orders(ids)] /\ todo \in Seq(ids)
    BY <1>2
  <2>2. Below(plugins, w, call) = InTurn(w, todo, call.path \cup {call.id}, call.settled)
    BY DEF Below
  <2> HIDE DEF ids, todo
  <2> QED  BY <2>1, <2>2, <1>3, InTurnUnfolds, SMTT(30)
<1>6. Below(plugins, w, call) # Nothing => Append(Below(plugins, w, call), call.id) \in Seq(ids)
  BY <1>1, <1>5 DEF Orders
<1> QED  BY <1>1, <1>5, <1>6 DEF Visited, Orders

\* What a visit makes of the visits one level down.
LEMMA VisitUnfolds ==
  ASSUME NEW plugins \in Seq(Readings), ~DependencyIsMissing(plugins)
  PROVE  \E v \in [0 .. Len(plugins) -> [VisitsOf(IdsOf(plugins)) -> Orders(IdsOf(plugins))]] :
            /\ Visit(plugins) = v[Len(plugins)]
            /\ \A depth \in 0 .. Len(plugins) : \A call \in VisitsOf(IdsOf(plugins)) :
                  v[depth][call] = Visited(plugins, depth, v[depth - 1], call)
<1> DEFINE ids == IdsOf(plugins)
           Vs == [VisitsOf(ids) -> Orders(ids)]
           n == Len(plugins)
           step == [d \in 1 .. n |-> [w \in Vs |-> [call \in VisitsOf(ids) |-> Visited(plugins, d, w, call)]]]
           first == [call \in VisitsOf(ids) |-> IF Contains(call.settled, call.id) THEN call.settled ELSE Nothing]
           Is(v) == v = [d \in 0 .. n |-> [call \in VisitsOf(ids) |-> Visited(plugins, d, v[d - 1], call)]]
<1>1. n \in Nat
  OBVIOUS
<1>2. first \in Vs
  BY DEF VisitsOf, Orders
<1>3. Rounds(n, Vs, step)
  BY VisitedType DEF Rounds
<1>4. PICK v \in [0 .. n -> Vs] : Loop(n, first, step, v)
  <2> HIDE DEF n, Vs, step, first
  <2> QED  BY <1>1, <1>2, <1>3, LoopExists
<1>5. \A d \in 0 .. n : v[d] = [call \in VisitsOf(ids) |-> Visited(plugins, d, v[d - 1], call)]
  <2> TAKE d \in 0 .. n
  <2>1. CASE d = 0
    <3>1. \A call \in VisitsOf(ids) : Visited(plugins, d, v[d - 1], call) = first[call]
      BY <2>1 DEF Visited
    <3>2. v[d] = first
      BY <1>4, <2>1 DEF Loop
    <3> QED  BY <3>1, <3>2
  <2>2. CASE d # 0
    <3>1. d \in 1 .. n /\ d - 1 \in 0 .. n
      BY <1>1, <2>2
    <3>2. v[d] = step[d][v[d - 1]] /\ v[d - 1] \in Vs
      <4> HIDE DEF step, Vs
      <4> QED  BY <1>4, <3>1 DEF Loop
    <3> QED  BY <3>1, <3>2
  <2> QED  BY <2>1, <2>2
<1>6. Is(v)
  <2> HIDE DEF Vs, n, ids
  <2> QED  BY <1>4, <1>5
<1> DEFINE g == CHOOSE g : Is(g)
<1>7. Is(g)
  <2> HIDE DEF Is
  <2> QED  BY <1>6
<1>8. \A d \in 0 .. n : g[d] = [call \in VisitsOf(ids) |-> Visited(plugins, d, g[d - 1], call)]
  <2> HIDE DEF g, n, ids
  <2> QED  BY <1>7
<1>9. g[n] = v[n]
  <2> HIDE DEF g, ids, Vs, step, first, n
  <2>1. \A i \in 1 .. n : i \in 0 .. n
    BY <1>1
  <2>2. GoAlike(n, v, g)
    <3> SUFFICES ASSUME NEW i \in 1 .. n, v[i - 1] = g[i - 1] PROVE v[i] = g[i]
      BY DEF GoAlike
    <3>1. i \in 0 .. n
      BY <2>1
    <3>2. v[i] = [call \in VisitsOf(ids) |-> Visited(plugins, i, v[i - 1], call)]
      BY <1>5, <3>1
    <3>3. g[i] = [call \in VisitsOf(ids) |-> Visited(plugins, i, g[i - 1], call)]
      BY <1>8, <3>1
    <3> QED  BY <3>2, <3>3
  <2>3. v[0] = g[0]
    <3>1. 0 \in 0 .. n
      BY <1>1
    <3>2. \A call : Visited(plugins, 0, v[0 - 1], call) = Visited(plugins, 0, g[0 - 1], call)
      BY DEF Visited
    <3>3. v[0] = [call \in VisitsOf(ids) |-> Visited(plugins, 0, v[0 - 1], call)]
      BY <1>5, <3>1
    <3>4. g[0] = [call \in VisitsOf(ids) |-> Visited(plugins, 0, g[0 - 1], call)]
      BY <1>8, <3>1
    <3> QED  BY <3>2, <3>3, <3>4
  <2> QED  BY <1>1, <2>2, <2>3, LoopsAgree
<1>10. Visit(plugins) = v[n]
  <2>1. Visit(plugins) = g[n]
    BY DEF Visit, Visited, Below
  <2> HIDE DEF g, Is
  <2> QED  BY <2>1, <1>9
<1>11. \A depth \in 0 .. n : \A call \in VisitsOf(ids) :
          v[depth][call] = Visited(plugins, depth, v[depth - 1], call)
  <2> HIDE DEF ids, Vs, step, first, n
  <2> QED  BY <1>5
<1> QED  BY <1>10, <1>11

Needs(plugins, id) == ToSet(PluginOf(plugins, id).dependsOn)

\* An order that settles what it holds: nothing twice, everything after what it depends on.
Ordered(plugins, order) ==
    /\ order \in Seq(IdsOf(plugins))
    /\ \A i, j \in 1 .. Len(order) : order[i] = order[j] => i = j
    /\ \A i \in 1 .. Len(order) : Needs(plugins, order[i]) \subseteq {order[j] : j \in 1 .. (i - 1)}

\* What an order has become after the ids `more`, off the path.
Extends(plugins, order, more, path, result) ==
    /\ Ordered(plugins, result)
    /\ ToSet(order) \cup more \subseteq ToSet(result)
    /\ ToSet(result) \cap path = {}

\* Everything on the path depends on something on it, or on the plugin visited next.
Chain(plugins, path, id) == \A p \in path : Needs(plugins, p) \cap (path \cup {id}) # {}

\* The path leaves room for no more than `room` further plugins.
Deep(plugins, path, room) == Cardinality(path) + room >= Len(plugins)

\* What a visit promises.
VisitsWell(plugins, visit, room) ==
    \A id \in IdsOf(plugins), path \in SUBSET IdsOf(plugins), order \in Seq(IdsOf(plugins)) :
        Ordered(plugins, order) /\ ToSet(order) \cap path = {} =>
            LET result == visit[[id |-> id, path |-> path, settled |-> order]]
            IN  /\ result # Nothing => Extends(plugins, order, {id}, path, result)
                /\ result = Nothing /\ Chain(plugins, path, id) /\ Deep(plugins, path, room)
                     => IsCyclic(plugins)

\* What visits in turn promise.
TurnsWell(plugins, visit, todo, path, order, room) ==
    LET result == InTurn(visit, todo, path, order)
    IN  /\ result # Nothing => Extends(plugins, order, ToSet(todo), path, result)
        /\ /\ result = Nothing /\ Deep(plugins, path, room)
           /\ \A i \in 1 .. Len(todo) : Chain(plugins, path, todo[i])
           => IsCyclic(plugins)

\* Visits in turn go well when every single one does.
LEMMA TurnsGoWell ==
  ASSUME NEW plugins \in Seq(Readings), NEW room \in Nat,
         NEW visit \in [VisitsOf(IdsOf(plugins)) -> Orders(IdsOf(plugins))],
         VisitsWell(plugins, visit, room),
         NEW todo \in Seq(IdsOf(plugins)), NEW path \in SUBSET IdsOf(plugins),
         NEW order \in Seq(IdsOf(plugins)), Ordered(plugins, order), ToSet(order) \cap path = {}
  PROVE  TurnsWell(plugins, visit, todo, path, order, room)
<1> DEFINE ids == IdsOf(plugins)
           n == Len(todo)
           First(i) == {todo[j] : j \in 1 .. i}
           Chained == Deep(plugins, path, room) /\ \A i \in 1 .. Len(todo) : Chain(plugins, path, todo[i])
<1>1. PICK f \in [0 .. n -> Orders(ids)] :
         InTurn(visit, todo, path, order) = f[n] /\ Turns(visit, todo, path, order, f)
  <2>1. order \in Orders(ids)
    BY DEF Orders
  <2>2. visit \in [VisitsOf(ids) -> Orders(ids)] /\ todo \in Seq(ids) /\ path \in SUBSET ids
    OBVIOUS
  <2> HIDE DEF ids
  <2> QED  BY <2>1, <2>2, InTurnUnfolds, SMTT(60)
<1> DEFINE Well(i) ==
             /\ f[i] # Nothing => Extends(plugins, order, First(i), path, f[i])
             /\ f[i] = Nothing /\ Chained => IsCyclic(plugins)
           Bad == {i \in 0 .. n : ~Well(i)}
<1>2. n \in Nat /\ Nothing \notin Seq(ids)
  BY DEF NothingAssumption
<1>3. Well(0)
  <2>1. f[0] = order /\ First(0) = {}
    BY <1>1 DEF Turns
  <2> QED  BY <1>2, <2>1 DEF Extends
<1>4. ASSUME NEW i \in 1 .. n, Well(i - 1) PROVE Well(i)
  <2>1. i - 1 \in 0 .. n /\ todo[i] \in ids
    BY <1>2
  <2>4. f[i - 1] \in Orders(ids)
    BY <1>1, <2>1
  <2>2. CASE f[i - 1] = Nothing
    BY <1>1, <1>4, <2>2 DEF Turns
  <2>3. CASE f[i - 1] # Nothing
    <3>1. f[i] = visit[[id |-> todo[i], path |-> path, settled |-> f[i - 1]]]
      BY <1>1, <2>3 DEF Turns
    <3>2. Extends(plugins, order, First(i - 1), path, f[i - 1]) /\ f[i - 1] \in Seq(ids)
      BY <1>4, <2>4, <2>3 DEF Orders
    <3>3. /\ f[i] # Nothing => Extends(plugins, f[i - 1], {todo[i]}, path, f[i])
          /\ f[i] = Nothing /\ Chain(plugins, path, todo[i]) /\ Deep(plugins, path, room)
               => IsCyclic(plugins)
      <4>1. Ordered(plugins, f[i - 1]) /\ ToSet(f[i - 1]) \cap path = {}
        BY <3>2 DEF Extends
      <4> DEFINE result == visit[[id |-> todo[i], path |-> path, settled |-> f[i - 1]]]
      <4>2. /\ result # Nothing => Extends(plugins, f[i - 1], {todo[i]}, path, result)
            /\ result = Nothing /\ Chain(plugins, path, todo[i]) /\ Deep(plugins, path, room)
                 => IsCyclic(plugins)
        BY <2>1, <3>2, <4>1 DEF VisitsWell
      <4> HIDE DEF result
      <4>3. f[i] = result
        BY <3>1 DEF result
      <4> QED  BY <4>2, <4>3
    <3>4. First(i) = First(i - 1) \cup {todo[i]}
      BY <1>2
    <3>5. f[i] # Nothing => Extends(plugins, order, First(i), path, f[i])
      BY <3>2, <3>3, <3>4 DEF Extends
    <3> QED  BY <3>3, <3>5
  <2> QED  BY <2>2, <2>3
<1>5. Bad = {}
  <2> SUFFICES ASSUME Bad # {} PROVE FALSE
    OBVIOUS
  <2>1. Bad \in SUBSET Nat
    BY SMT
  <2>2. PICK m \in Bad : \A i \in Bad : m <= i
    <3> HIDE DEF Bad
    <3> QED  BY <2>1, LeastExists
  <2>3. m \in 1 .. n /\ m - 1 \in 0 .. n /\ m - 1 \notin Bad
    <3> HIDE DEF Well
    <3> QED  BY <1>2, <1>3, <2>2
  <2> HIDE DEF Well
  <2> QED  BY <1>4, <2>2, <2>3
<1>6. Well(n) /\ First(n) = ToSet(todo)
  <2>1. First(n) = ToSet(todo)
    BY DEF ToSet
  <2>2. n \in 0 .. n
    BY <1>2
  <2> HIDE DEF Well, First
  <2> QED  BY <1>5, <2>1, <2>2
<1> QED  BY <1>1, <1>6 DEF TurnsWell

\* A path that holds every id holds the next one, and closes a ring.
LEMMA RingCloses ==
  ASSUME NEW plugins \in Seq(Readings), NEW id \in IdsOf(plugins), NEW path \in SUBSET IdsOf(plugins),
         id \in path, Chain(plugins, path, id)
  PROVE  IsCyclic(plugins)
<1>1. path \cup {id} = path /\ path # {}
  OBVIOUS
<1> QED  BY <1>1 DEF Chain, IsCyclic, Needs

\* There are no more ids than plugins.
LEMMA IdsAreFinite ==
  ASSUME NEW plugins \in Seq(Readings)
  PROVE  /\ IsFiniteSet(IdsOf(plugins)) /\ Cardinality(IdsOf(plugins)) <= Len(plugins)
         /\ \A path \in SUBSET IdsOf(plugins) : IsFiniteSet(path) /\ Cardinality(path) \in Nat
<1> DEFINE f == [i \in 1 .. Len(plugins) |-> plugins[i].id]
<1>1. IsFiniteSet(1 .. Len(plugins)) /\ Cardinality(1 .. Len(plugins)) = Len(plugins)
  <2>1. Len(plugins) \in Nat
    OBVIOUS
  <2>2. 1 \in Int /\ Len(plugins) \in Int /\ Len(plugins) - 1 + 1 = Len(plugins) /\ (1 > Len(plugins) <=> Len(plugins) = 0)
    BY <2>1
  <2> QED  BY <2>2, FS_Interval
<1>2. f \in Surjection(1 .. Len(plugins), IdsOf(plugins))
  BY DEF Surjection, IdsOf
<1>3. IsFiniteSet(IdsOf(plugins)) /\ Cardinality(IdsOf(plugins)) <= Len(plugins)
  BY <1>1, <1>2, FS_Surjection
<1> QED  BY <1>3, FS_Subset, FS_CardinalityType

\* A visit keeps what is settled and settles its plugin after all it depends
\* on, and meets nothing but a cycle: with as many ids on the way down as
\* there are plugins, the next one is on it already.
LEMMA VisitGoesWell ==
  ASSUME NEW plugins \in Seq(Readings), ~DependencyIsMissing(plugins)
  PROVE  VisitsWell(plugins, Visit(plugins), Len(plugins))
<1> DEFINE ids == IdsOf(plugins)
           Vs == [VisitsOf(ids) -> Orders(ids)]
           n == Len(plugins)
<1>1. PICK v \in [0 .. n -> Vs] :
         /\ Visit(plugins) = v[n]
         /\ \A depth \in 0 .. n : \A call \in VisitsOf(ids) :
               v[depth][call] = Visited(plugins, depth, v[depth - 1], call)
  BY VisitUnfolds
<1>2. n \in Nat /\ Nothing \notin Seq(ids)
  <2>1. \A i \in DOMAIN plugins : plugins[i] \in Readings
    OBVIOUS
  <2>2. \A i \in DOMAIN plugins : plugins[i].id \in Names
    BY <2>1 DEF Readings
  <2>3. ids \subseteq Names
    BY <2>2 DEF IdsOf
  <2>4. Seq(ids) \subseteq Seq(Names)
    <3> HIDE DEF ids
    <3> QED  BY <2>3
  <2> QED  BY <2>4, NothingAssumption
<1> DEFINE Well(d) == VisitsWell(plugins, v[d], d)
<1>3. ASSUME NEW d \in 0 .. n, d # 0 => Well(d - 1),
             NEW id \in ids, NEW path \in SUBSET ids, NEW order \in Seq(ids),
             Ordered(plugins, order), ToSet(order) \cap path = {}
      PROVE  LET result == v[d][[id |-> id, path |-> path, settled |-> order]]
             IN  /\ result # Nothing => Extends(plugins, order, {id}, path, result)
                 /\ result = Nothing /\ Chain(plugins, path, id) /\ Deep(plugins, path, d)
                      => IsCyclic(plugins)
  <2> DEFINE call == [id |-> id, path |-> path, settled |-> order]
             result == v[d][call]
             under == path \cup {id}
             todo == PluginOf(plugins, id).dependsOn
             below == InTurn(v[d - 1], todo, under, order)
  <2>1. call \in VisitsOf(ids)
    BY DEF VisitsOf
  <2>2. result = IF Contains(order, id) THEN order
                 ELSE IF d = 0 \/ id \in path \/ below = Nothing THEN Nothing
                 ELSE Append(below, id)
    <3>1. result = Visited(plugins, d, v[d - 1], call)
      BY <1>1, <2>1
    <3>2. Below(plugins, v[d - 1], call) = below
      BY DEF Below
    <3> HIDE DEF below, result
    <3> QED  BY <3>1, <3>2 DEF Visited
  <2>3. Contains(order, id) <=> id \in ToSet(order)
    BY DEF Contains, ToSet
  <2> SUFFICES /\ result # Nothing => Extends(plugins, order, {id}, path, result)
               /\ result = Nothing /\ Chain(plugins, path, id) /\ Deep(plugins, path, d)
                    => IsCyclic(plugins)
    OBVIOUS
  <2> HIDE DEF result, below, call
  <2>4. CASE id \in ToSet(order)
    <3>1. result = order /\ result # Nothing
      BY <1>2, <2>2, <2>3, <2>4
    <3>2. Extends(plugins, order, {id}, path, order)
      BY <1>3, <2>4 DEF Extends
    <3> QED  BY <3>1, <3>2
  <2>5. CASE id \notin ToSet(order) /\ id \in path
    BY <2>2, <2>3, <2>5, RingCloses
  <2>6. CASE id \notin ToSet(order) /\ id \notin path /\ d = 0
    <3>1. result = Nothing
      BY <2>2, <2>3, <2>6
    <3>2. ~Deep(plugins, path, d)
      <4>1. IsFiniteSet(ids) /\ Cardinality(ids) <= n /\ Cardinality(ids) \in Nat /\ Cardinality(path) \in Nat
        BY IdsAreFinite
      <4>2. path # ids
        BY <2>6
      <4>3. Cardinality(path) < Cardinality(ids)
        BY <4>1, <4>2, FS_Subset
      <4> QED  BY <1>2, <4>1, <4>3, <2>6 DEF Deep
    <3> QED  BY <3>1, <3>2
  <2>7. CASE id \notin ToSet(order) /\ id \notin path /\ d # 0
    <3>1. d - 1 \in 0 .. n /\ d - 1 \in Nat
      BY <1>2, <2>7
    <3>2. v[d - 1] \in Vs /\ VisitsWell(plugins, v[d - 1], d - 1)
      BY <1>1, <1>3, <2>7, <3>1
    <3>3. under \in SUBSET ids /\ ToSet(order) \cap under = {} /\ todo \in Seq(ids)
      <4>1. todo \in Seq(ids)
        BY NeedsAreIds
      <4>2. ToSet(order) \cap under = {}
        BY <1>3, <2>7
      <4> QED  BY <4>1, <4>2
    <3>4. /\ below # Nothing => Extends(plugins, order, ToSet(todo), under, below)
          /\ /\ below = Nothing /\ Deep(plugins, under, d - 1)
             /\ \A i \in 1 .. Len(todo) : Chain(plugins, under, todo[i])
             => IsCyclic(plugins)
      <4>1. /\ InTurn(v[d - 1], todo, under, order) # Nothing
                 => Extends(plugins, order, ToSet(todo), under, InTurn(v[d - 1], todo, under, order))
            /\ /\ InTurn(v[d - 1], todo, under, order) = Nothing /\ Deep(plugins, under, d - 1)
               /\ \A i \in 1 .. Len(todo) : Chain(plugins, under, todo[i])
               => IsCyclic(plugins)
        <5> DEFINE w == v[d - 1]
        <5>1. w \in [VisitsOf(IdsOf(plugins)) -> Orders(IdsOf(plugins))]
              /\ VisitsWell(plugins, w, d - 1)
          BY <3>2
        <5>2. todo \in Seq(IdsOf(plugins)) /\ under \in SUBSET IdsOf(plugins)
              /\ order \in Seq(IdsOf(plugins)) /\ Ordered(plugins, order) /\ ToSet(order) \cap under = {}
          BY <1>3, <3>3
        <5> HIDE DEF todo, under, w
        <5>3. TurnsWell(plugins, w, todo, under, order, d - 1)
          BY <3>1, <5>1, <5>2, TurnsGoWell
        <5> QED  BY <5>3 DEF w, TurnsWell
      <4> QED  BY <4>1 DEF below
    <3>5. CASE below # Nothing
      <4>1. result = Append(below, id) /\ Extends(plugins, order, ToSet(todo), under, below)
        BY <2>2, <2>3, <2>7, <3>4, <3>5
      <4>2. below \in Seq(ids) /\ Ordered(plugins, below) /\ id \notin ToSet(below)
            /\ Needs(plugins, id) \subseteq ToSet(below)
        BY <4>1 DEF Extends, Ordered, Needs
      <4>3. /\ result \in Seq(ids) /\ Len(result) = Len(below) + 1 /\ result[Len(below) + 1] = id
            /\ \A i \in 1 .. Len(below) : result[i] = below[i] /\ below[i] \in ToSet(below)
            /\ Len(below) \in Nat
        BY <4>1, <4>2 DEF ToSet
      <4>4. ToSet(result) = ToSet(below) \cup {id}
        <5>1. \A i \in 1 .. Len(result) : i \in 1 .. Len(below) \/ i = Len(below) + 1
          BY <4>3
        <5>2. \A i \in 1 .. Len(below) : i \in 1 .. Len(result)
          BY <4>3
        <5>3. Len(below) + 1 \in 1 .. Len(result)
          BY <4>3
        <5>4. ASSUME NEW x \in ToSet(result) PROVE x \in ToSet(below) \cup {id}
          <6>1. PICK i \in 1 .. Len(result) : x = result[i]
            BY <4>3 DEF ToSet
          <6> QED  BY <4>3, <5>1, <6>1
        <5>5. ASSUME NEW x \in ToSet(below) PROVE x \in ToSet(result)
          <6>1. PICK i \in 1 .. Len(below) : x = below[i]
            BY <4>2 DEF ToSet
          <6>2. x = result[i] /\ i \in 1 .. Len(result)
            BY <4>3, <5>2, <6>1
          <6>3. DOMAIN result = 1 .. Len(result)
            BY <4>3
          <6> QED  BY <6>2, <6>3 DEF ToSet
        <5>6. id \in ToSet(result)
          BY <4>3, <5>3, SMTT(30) DEF ToSet
        <5> QED  BY <5>4, <5>5, <5>6
      <4>5. \A i, j \in 1 .. Len(result) : result[i] = result[j] => i = j
        <5>1. \A i \in 1 .. Len(result) : i \in 1 .. Len(below) \/ i = Len(below) + 1
          BY <4>3
        <5>2. \A i, j \in 1 .. Len(below) : below[i] = below[j] => i = j
          BY <4>2 DEF Ordered
        <5>3. \A i \in 1 .. Len(below) : result[i] # id
          BY <4>2, <4>3
        <5> QED  BY <4>3, <5>1, <5>2, <5>3
      <4>6. ASSUME NEW i \in 1 .. Len(result)
            PROVE  Needs(plugins, result[i]) \subseteq {result[j] : j \in 1 .. (i - 1)}
        <5>1. CASE i = Len(below) + 1
          <6>1. ToSet(below) \subseteq {result[j] : j \in 1 .. (i - 1)}
            BY <4>2, <4>3, <5>1 DEF ToSet
          <6> QED  BY <4>2, <4>3, <5>1, <6>1
        <5>2. CASE i \in 1 .. Len(below)
          <6>1. Needs(plugins, below[i]) \subseteq {below[j] : j \in 1 .. (i - 1)}
            BY <4>2, <5>2 DEF Ordered
          <6>2. \A j \in 1 .. (i - 1) : result[j] = below[j]
            BY <4>3, <5>2
          <6>3. {below[j] : j \in 1 .. (i - 1)} = {result[j] : j \in 1 .. (i - 1)}
            BY <6>2
          <6> QED  BY <4>3, <5>2, <6>1, <6>3
        <5>3. i \in 1 .. Len(below) \/ i = Len(below) + 1
          BY <4>3
        <5> QED  BY <5>1, <5>2, <5>3
      <4>7. Ordered(plugins, result)
        BY <4>3, <4>5, <4>6 DEF Ordered
      <4>8. result # Nothing
        BY <1>2, <4>3
      <4> QED  BY <4>1, <4>4, <4>7, <4>8, <2>7 DEF Extends
    <3>6. CASE below = Nothing
      <4>1. result = Nothing
        BY <2>2, <2>3, <2>7, <3>6
      <4>2. SUFFICES ASSUME Chain(plugins, path, id), Deep(plugins, path, d) PROVE IsCyclic(plugins)
        BY <4>1
      <4>3. Deep(plugins, under, d - 1)
        <5>1. IsFiniteSet(path) /\ Cardinality(path) \in Nat
          BY IdsAreFinite
        <5>2. Cardinality(under) = Cardinality(path) + 1
          BY <2>7, <5>1, FS_AddElement
        <5> QED  BY <1>2, <3>1, <4>2, <5>1, <5>2 DEF Deep
      <4>4. ASSUME NEW i \in 1 .. Len(todo) PROVE Chain(plugins, under, todo[i])
        <5>1. todo[i] \in Needs(plugins, id)
          BY <3>3 DEF Needs, ToSet
        <5> QED  BY <4>2, <5>1 DEF Chain
      <4> QED  BY <3>4, <3>6, <4>3, <4>4
    <3> QED  BY <3>5, <3>6
  <2> QED  BY <2>4, <2>5, <2>6, <2>7
<1> DEFINE Bad == {d \in 0 .. n : ~Well(d)}
<1>4. ASSUME NEW d \in 0 .. n, d # 0 => Well(d - 1) PROVE Well(d)
  <2> SUFFICES ASSUME NEW id \in ids, NEW path \in SUBSET ids, NEW order \in Seq(ids),
                      Ordered(plugins, order), ToSet(order) \cap path = {}
               PROVE  LET result == v[d][[id |-> id, path |-> path, settled |-> order]]
                      IN  /\ result # Nothing => Extends(plugins, order, {id}, path, result)
                          /\ result = Nothing /\ Chain(plugins, path, id) /\ Deep(plugins, path, d)
                               => IsCyclic(plugins)
    BY DEF VisitsWell
  <2> HIDE DEF Well
  <2> QED  BY <1>3, <1>4
<1>5. Bad = {}
  <2> SUFFICES ASSUME Bad # {} PROVE FALSE
    OBVIOUS
  <2>1. Bad \in SUBSET Nat
    BY SMT
  <2>2. PICK m \in Bad : \A i \in Bad : m <= i
    <3> HIDE DEF Bad
    <3> QED  BY <2>1, LeastExists
  <2>3. m \in 0 .. n /\ (m # 0 => m - 1 \in 0 .. n /\ m - 1 \notin Bad)
    <3> HIDE DEF Well
    <3> QED  BY <1>2, <2>2
  <2> HIDE DEF Well
  <2> QED  BY <1>4, <2>2, <2>3
<1>6. n \in 0 .. n
  BY <1>2
<1>7. Well(n)
  <2> HIDE DEF Well
  <2> QED  BY <1>5, <1>6
<1> QED  BY <1>1, <1>7

\* The order holds every plugin once and after what it depends on, and there is none only
\* where some plugins depend on each other in a ring (inDependencyOrder).
THEOREM DependencyOrder ==
  ASSUME NEW plugins \in Seq(Readings), ~DependencyIsMissing(plugins)
  PROVE  /\ InDependencyOrder(plugins) \in Orders(IdsOf(plugins))
         /\ InDependencyOrder(plugins) # Nothing =>
              /\ Ordered(plugins, InDependencyOrder(plugins))
              /\ ToSet(InDependencyOrder(plugins)) = IdsOf(plugins)
         /\ InDependencyOrder(plugins) = Nothing => IsCyclic(plugins)
<1> DEFINE ids == IdsOf(plugins)
           todo == [i \in DOMAIN plugins |-> plugins[i].id]
           order == InTurn(Visit(plugins), todo, {}, <<>>)
<1>1. Visit(plugins) \in [VisitsOf(ids) -> Orders(ids)] /\ Len(plugins) \in Nat
  <2>1. Len(plugins) \in 0 .. Len(plugins)
    OBVIOUS
  <2> QED  BY <2>1, VisitUnfolds
<1>2. todo \in Seq(ids) /\ ToSet(todo) = ids
  <2>1. DOMAIN plugins = 1 .. Len(plugins) /\ Len(plugins) \in Nat
    OBVIOUS
  <2>2. todo \in Seq(ids)
    BY <2>1 DEF IdsOf
  <2> QED  BY <2>2 DEF IdsOf, ToSet
<1>3. VisitsWell(plugins, Visit(plugins), Len(plugins))
  BY VisitGoesWell
<1>4. {} \in SUBSET ids /\ <<>> \in Seq(ids) /\ Ordered(plugins, <<>>) /\ ToSet(<<>>) \cap {} = {}
      /\ <<>> \in Orders(ids)
  BY DEF Ordered, Orders
<1>5. TurnsWell(plugins, Visit(plugins), todo, {}, <<>>, Len(plugins))
  <2> HIDE DEF todo
  <2> QED  BY <1>1, <1>2, <1>3, <1>4, TurnsGoWell
<1>6. order \in Orders(ids)
  <2> HIDE DEF todo
  <2> QED  BY <1>1, <1>2, <1>4, InTurnUnfolds, SMTT(30)
<1>7. Deep(plugins, {}, Len(plugins)) /\ \A i \in 1 .. Len(todo) : Chain(plugins, {}, todo[i])
  <2>1. Cardinality({}) = 0
    BY FS_EmptySet
  <2> QED  BY <1>1, <2>1 DEF Deep, Chain
<1>8. order # Nothing => Ordered(plugins, order) /\ ids \subseteq ToSet(order)
  BY <1>2, <1>5 DEF TurnsWell, Extends
<1>9. order = Nothing => IsCyclic(plugins)
  BY <1>5, <1>7 DEF TurnsWell
<1>10. order # Nothing => ToSet(order) \subseteq ids
  BY <1>8 DEF Ordered, ToSet
<1>11. InDependencyOrder(plugins) = order
  BY DEF InDependencyOrder
<1> HIDE DEF order
<1> QED  BY <1>6, <1>8, <1>9, <1>10, <1>11

(***************************************************************************)
(* The refusals                                                            *)
(***************************************************************************)
Checks == Refusals \X BOOLEAN
FirstOf(checks) == SelectInSeq(checks, LAMBDA check : check[2])

HeadChecks(given) ==
    LET plugins == OneReading(given)
    IN  << <<"plugin_field_unknown", FieldIsUnknown(given)>>,
           <<"plugin_route_reads_a_core_cookie", SomePlugin(plugins, ReadsACoreCookie)>>,
           <<"plugin_id_duplicated", IdIsTakenTwice(plugins)>>,
           <<"plugin_table_prefix_conflict", PrefixContainsAnother(plugins)>>,
           <<"plugin_dependency_missing", DependencyIsMissing(plugins)>> >>
TheirChecks(plugins) == [i \in DOMAIN plugins |-> OwnChecks(plugins[i])]
TailChecks(plugins) ==
    << <<"plugin_dependency_cycle", InDependencyOrder(plugins) = Nothing>>,
       <<"plugin_route_exempts_the_origin_check", SomePlugin(plugins, RouteIsExempt)>>,
       <<"plugin_route_conflict", RouteConflicts(plugins) \/ NamespaceIsTaken(plugins)>> >>

\* The first check that refuses.
LEMMA FirstIsFound ==
  ASSUME NEW checks \in Seq(Checks)
  PROVE  /\ FirstOf(checks) \in 0 .. Len(checks)
         /\ FirstOf(checks) # 0 => checks[FirstOf(checks)][2]
         /\ FirstOf(checks) = 0 => \A i \in 1 .. Len(checks) : ~checks[i][2]
<1> DEFINE I == {i \in 1 .. Len(checks) : checks[i][2]}
<1>1. FirstOf(checks) = IF I # {} THEN Min(I) ELSE 0
  BY DEF FirstOf, SelectInSeq
<1>2. Len(checks) \in Nat
  OBVIOUS
<1>3. ASSUME I # {} PROVE Min(I) \in I
  <2>1. I \in SUBSET Nat
    BY <1>2
  <2>2. \E x \in I : \A y \in I : x <= y
    <3> HIDE DEF I
    <3> QED  BY <1>3, <2>1, LeastExists
  <2> HIDE DEF I
  <2> QED  BY <2>2 DEF Min
<1> QED  BY <1>1, <1>2, <1>3

\* Five checks in a row.
LEMMA FiveChecks ==
  ASSUME NEW a \in Checks, NEW b \in Checks, NEW c \in Checks, NEW d \in Checks, NEW e \in Checks
  PROVE  <<a, b, c, d, e>> \in Seq(Checks) /\ Len(<<a, b, c, d, e>>) = 5
OBVIOUS

LEMMA IsCheck ==
  ASSUME NEW name \in Refusals, NEW holds \in BOOLEAN
  PROVE  <<name, holds>> \in Checks
BY DEF Checks

\* What a start looks at, before the order and after it.
LEMMA ChecksType ==
  ASSUME NEW given \in Seq([read : Readings, later : Readings])
  PROVE  /\ OneReading(given) \in Seq(Readings) /\ DOMAIN OneReading(given) = DOMAIN given
         /\ HeadChecks(given) \in Seq(Checks) /\ Len(HeadChecks(given)) = 5
         /\ TheirChecks(OneReading(given)) \in Seq(Seq(Checks))
         /\ Len(TheirChecks(OneReading(given))) = Len(OneReading(given))
         /\ TailChecks(OneReading(given)) \in Seq(Checks) /\ Len(TailChecks(OneReading(given))) = 3
<1> DEFINE plugins == OneReading(given)
<1>1. plugins \in Seq(Readings) /\ DOMAIN plugins = DOMAIN given /\ Len(plugins) \in Nat
      /\ DOMAIN plugins = 1 .. Len(plugins)
  <2>1. DOMAIN given = 1 .. Len(given) /\ Len(given) \in Nat
        /\ \A i \in 1 .. Len(given) : given[i].read \in Readings
    <3>1. \A x \in [read : Readings, later : Readings] : x.read \in Readings
      OBVIOUS
    <3>2. DOMAIN given = 1 .. Len(given) /\ Len(given) \in Nat
          /\ \A i \in 1 .. Len(given) : given[i] \in [read : Readings, later : Readings]
      BY ElementOfSeq, LenProperties
    <3> QED  BY <3>1, <3>2
  <2>2. plugins = [i \in 1 .. Len(given) |-> given[i].read]
    BY <2>1 DEF OneReading
  <2> HIDE DEF plugins
  <2> QED  BY <2>1, <2>2
<1>2. HeadChecks(given) \in Seq(Checks) /\ Len(HeadChecks(given)) = 5
  <2>1. /\ FieldIsUnknown(given) \in BOOLEAN /\ SomePlugin(plugins, ReadsACoreCookie) \in BOOLEAN
        /\ IdIsTakenTwice(plugins) \in BOOLEAN /\ PrefixContainsAnother(plugins) \in BOOLEAN
        /\ DependencyIsMissing(plugins) \in BOOLEAN
    BY DEF FieldIsUnknown, SomePlugin, IdIsTakenTwice, PrefixContainsAnother, DependencyIsMissing
  <2>3. /\ <<"plugin_field_unknown", FieldIsUnknown(given)>> \in Checks
        /\ <<"plugin_route_reads_a_core_cookie", SomePlugin(plugins, ReadsACoreCookie)>> \in Checks
        /\ <<"plugin_id_duplicated", IdIsTakenTwice(plugins)>> \in Checks
        /\ <<"plugin_table_prefix_conflict", PrefixContainsAnother(plugins)>> \in Checks
        /\ <<"plugin_dependency_missing", DependencyIsMissing(plugins)>> \in Checks
    <3> HIDE DEF plugins
    <3>1. {"plugin_field_unknown", "plugin_route_reads_a_core_cookie", "plugin_id_duplicated",
           "plugin_table_prefix_conflict", "plugin_dependency_missing"} \subseteq Refusals
      BY DEF Refusals
    <3> QED  BY <2>1, <3>1, IsCheck, Zenon
  <2> QED  BY <2>3, FiveChecks DEF HeadChecks
<1>3. \A plugin : OwnChecks(plugin) \in Seq(Checks)
  <2> TAKE plugin
  <2>1. /\ CodeIsAnothers(plugin) \in BOOLEAN /\ ErrorIsUndeclared(plugin) \in BOOLEAN
        /\ RuleIsUnmatched(plugin) \in BOOLEAN /\ RouteIsUnlimited(plugin) \in BOOLEAN
        /\ TableIsAnothers(plugin) \in BOOLEAN
    BY DEF CodeIsAnothers, ErrorIsUndeclared, RuleIsUnmatched, RouteIsUnlimited, TableIsAnothers
  <2>3. /\ <<"plugin_error_code_not_namespaced", CodeIsAnothers(plugin)>> \in Checks
        /\ <<"plugin_error_code_undeclared", ErrorIsUndeclared(plugin)>> \in Checks
        /\ <<"plugin_rate_limit_rule_unmatched", RuleIsUnmatched(plugin)>> \in Checks
        /\ <<"plugin_route_without_address_rate_limit", RouteIsUnlimited(plugin)>> \in Checks
        /\ <<"plugin_migration_table_not_prefixed", TableIsAnothers(plugin)>> \in Checks
    <3>1. {"plugin_error_code_not_namespaced", "plugin_error_code_undeclared",
           "plugin_rate_limit_rule_unmatched", "plugin_route_without_address_rate_limit",
           "plugin_migration_table_not_prefixed"} \subseteq Refusals
      BY DEF Refusals
    <3> QED  BY <2>1, <3>1, IsCheck, Zenon
  <2> QED  BY <2>3, FiveChecks DEF OwnChecks
<1>4. TheirChecks(plugins) \in Seq(Seq(Checks)) /\ Len(TheirChecks(plugins)) = Len(plugins)
  <2> HIDE DEF plugins
  <2> QED  BY <1>1, <1>3 DEF TheirChecks
<1>5. TailChecks(plugins) \in Seq(Checks) /\ Len(TailChecks(plugins)) = 3
  <2>1. /\ SomePlugin(plugins, RouteIsExempt) \in BOOLEAN
        /\ (RouteConflicts(plugins) \/ NamespaceIsTaken(plugins)) \in BOOLEAN
        /\ (InDependencyOrder(plugins) = Nothing) \in BOOLEAN
    BY DEF SomePlugin
  <2>3. /\ <<"plugin_dependency_cycle", InDependencyOrder(plugins) = Nothing>> \in Checks
        /\ <<"plugin_route_exempts_the_origin_check", SomePlugin(plugins, RouteIsExempt)>> \in Checks
        /\ <<"plugin_route_conflict", RouteConflicts(plugins) \/ NamespaceIsTaken(plugins)>> \in Checks
    <3> HIDE DEF plugins
    <3>1. {"plugin_dependency_cycle", "plugin_route_exempts_the_origin_check", "plugin_route_conflict"}
            \subseteq Refusals
      BY DEF Refusals
    <3> QED  BY <2>1, <3>1, IsCheck, Zenon
  <2>4. \A a, b, c \in Checks : <<a, b, c>> \in Seq(Checks) /\ Len(<<a, b, c>>) = 3
    OBVIOUS
  <2> QED  BY <2>3, <2>4 DEF TailChecks
<1> QED  BY <1>1, <1>2, <1>4, <1>5

\* The refusal is the first check that refuses.
LEMMA RefusalUnfolds ==
  ASSUME NEW given
  PROVE  LET before == HeadChecks(given) \o FlattenSeq(TheirChecks(OneReading(given)))
             after == TailChecks(OneReading(given))
         IN  Refusal(given) = IF FirstOf(before) # 0 THEN before[FirstOf(before)][1]
                              ELSE IF FirstOf(after) # 0 THEN after[FirstOf(after)][1] ELSE "none"
BY DEF Refusal, HeadChecks, TheirChecks, TailChecks, FirstOf

\* A start that succeeds has refused nothing, and one refused as a cycle has come to the order.
LEMMA WhatWasRefused ==
  ASSUME NEW given \in Seq([read : Readings, later : Readings])
  PROVE  LET plugins == OneReading(given)
         IN  /\ Refusal(given) \in Refusals \cup {"none"}
             /\ Refusal(given) = "none" =>
                  /\ ~IdIsTakenTwice(plugins) /\ ~PrefixContainsAnother(plugins)
                  /\ ~DependencyIsMissing(plugins) /\ InDependencyOrder(plugins) # Nothing
                  /\ \A i \in DOMAIN plugins : ~RouteIsUnlimited(plugins[i]) /\ ~TableIsAnothers(plugins[i])
                                              /\ ~RouteIsExempt(plugins[i])
                  /\ ~RouteConflicts(plugins)
             /\ Refusal(given) = "plugin_dependency_cycle" =>
                  ~DependencyIsMissing(plugins) /\ InDependencyOrder(plugins) = Nothing
<1> DEFINE plugins == OneReading(given)
           head == HeadChecks(given)
           theirs == FlattenSeq(TheirChecks(plugins))
           before == head \o theirs
           after == TailChecks(plugins)
<1>1. /\ plugins \in Seq(Readings) /\ DOMAIN plugins = 1 .. Len(plugins)
      /\ head \in Seq(Checks) /\ Len(head) = 5
      /\ TheirChecks(plugins) \in Seq(Seq(Checks)) /\ Len(TheirChecks(plugins)) = Len(plugins)
      /\ after \in Seq(Checks) /\ Len(after) = 3
  <2>1. plugins \in Seq(Readings)
    BY ChecksType
  <2>2. DOMAIN plugins = 1 .. Len(plugins)
    <3> HIDE DEF plugins
    <3> QED  BY <2>1
  <2> QED  BY <2>1, <2>2, ChecksType
<1>2. theirs \in Seq(Checks) /\ \E p : Laid(TheirChecks(plugins), Len(plugins), theirs, p)
  BY <1>1, Flattened
<1>3. /\ before \in Seq(Checks) /\ Len(before) = 5 + Len(theirs) /\ Len(theirs) \in Nat
      /\ \A i \in 1 .. 5 : before[i] = head[i]
      /\ \A i \in 1 .. Len(theirs) : before[5 + i] = theirs[i]
  <2>1. \A s, t \in Seq(Checks) :
           /\ s \o t \in Seq(Checks) /\ Len(s \o t) = Len(s) + Len(t) /\ Len(t) \in Nat
           /\ \A i \in 1 .. Len(s) : (s \o t)[i] = s[i]
           /\ \A i \in 1 .. Len(t) : (s \o t)[Len(s) + i] = t[i]
    OBVIOUS
  <2> HIDE DEF head, theirs
  <2>2. /\ head \o theirs \in Seq(Checks) /\ Len(head \o theirs) = Len(head) + Len(theirs)
        /\ Len(theirs) \in Nat
        /\ \A i \in 1 .. Len(head) : (head \o theirs)[i] = head[i]
        /\ \A i \in 1 .. Len(theirs) : (head \o theirs)[Len(head) + i] = theirs[i]
    BY <1>1, <1>2, <2>1
  <2> QED  BY <1>1, <2>2
<1>4. Refusal(given) = IF FirstOf(before) # 0 THEN before[FirstOf(before)][1]
                       ELSE IF FirstOf(after) # 0 THEN after[FirstOf(after)][1] ELSE "none"
  BY RefusalUnfolds
<1> DEFINE Early == Refusals \ {"plugin_dependency_cycle"}
<1>5. \A i \in 1 .. Len(before) : before[i][1] \in Early
  <2>1. \A i \in 1 .. 5 : head[i][1] \in Early
    <3>1. \A i \in 1 .. 5 : i \in {1, 2, 3, 4, 5}
      OBVIOUS
    <3>2. head[1][1] = "plugin_field_unknown" /\ head[2][1] = "plugin_route_reads_a_core_cookie"
          /\ head[3][1] = "plugin_id_duplicated" /\ head[4][1] = "plugin_table_prefix_conflict"
          /\ head[5][1] = "plugin_dependency_missing"
      BY DEF HeadChecks
    <3> QED  BY <3>1, <3>2 DEF Refusals
  <2>2. \A plugin : \A j \in 1 .. Len(OwnChecks(plugin)) : OwnChecks(plugin)[j][1] \in Early
    <3> TAKE plugin
    <3>1. Len(OwnChecks(plugin)) = 5
      BY DEF OwnChecks
    <3>2. \A j \in 1 .. 5 : j \in {1, 2, 3, 4, 5}
      OBVIOUS
    <3>3. OwnChecks(plugin)[1][1] = "plugin_error_code_not_namespaced"
          /\ OwnChecks(plugin)[2][1] = "plugin_error_code_undeclared"
          /\ OwnChecks(plugin)[3][1] = "plugin_rate_limit_rule_unmatched"
          /\ OwnChecks(plugin)[4][1] = "plugin_route_without_address_rate_limit"
          /\ OwnChecks(plugin)[5][1] = "plugin_migration_table_not_prefixed"
      BY DEF OwnChecks
    <3> QED  BY <3>1, <3>2, <3>3 DEF Refusals
  <2>3. ASSUME NEW k \in 1 .. Len(theirs) PROVE theirs[k][1] \in Early
    <3>1. PICK p : Laid(TheirChecks(plugins), Len(plugins), theirs, p)
      BY <1>2
    <3>2. PICK i \in 1 .. Len(plugins) : \E j \in 1 .. Len(TheirChecks(plugins)[i]) :
             p[i][j] = k /\ theirs[p[i][j]] = TheirChecks(plugins)[i][j]
      BY <3>1 DEF Laid
    <3>3. TheirChecks(plugins)[i] = OwnChecks(plugins[i])
      BY <1>1 DEF TheirChecks
    <3> QED  BY <2>2, <3>2, <3>3
  <2>4. \A i \in 1 .. Len(before) : i \in 1 .. 5 \/ (i - 5 \in 1 .. Len(theirs) /\ i = 5 + (i - 5))
    <3> HIDE DEF before, theirs
    <3> QED  BY <1>3
  <2> HIDE DEF before, theirs, head, Early
  <2>5. \A i \in 1 .. 5 : before[i][1] \in Early
    BY <1>3, <2>1
  <2>6. \A k \in 1 .. Len(theirs) : before[5 + k][1] \in Early
    BY <1>3, <2>3
  <2> QED  BY <2>4, <2>5, <2>6
<1>6. \A i \in 1 .. 3 : after[i][1] \in Refusals /\ (after[i][1] = "plugin_dependency_cycle" => i = 1)
  <2>1. \A i \in 1 .. 3 : i \in {1, 2, 3}
    OBVIOUS
  <2>2. after[1][1] = "plugin_dependency_cycle" /\ after[3][1] = "plugin_route_conflict"
        /\ after[2][1] = "plugin_route_exempts_the_origin_check"
    BY DEF TailChecks
  <2> QED  BY <2>1, <2>2 DEF Refusals
<1>7. /\ FirstOf(before) \in 0 .. Len(before)
      /\ FirstOf(before) = 0 => \A i \in 1 .. Len(before) : ~before[i][2]
      /\ FirstOf(after) \in 0 .. 3 /\ (FirstOf(after) # 0 => after[FirstOf(after)][2])
      /\ FirstOf(after) = 0 => \A i \in 1 .. 3 : ~after[i][2]
  <2> HIDE DEF before, after
  <2> QED  BY <1>1, <1>3, FirstIsFound
<1>8. Refusal(given) \in Refusals \cup {"none"}
  <2> HIDE DEF before, after
  <2> QED  BY <1>3, <1>4, <1>5, <1>6, <1>7
<1>9. Refusal(given) \in {"none", "plugin_dependency_cycle"} => FirstOf(before) = 0
  <2>1. "none" \notin Early /\ "plugin_dependency_cycle" \notin Early
    BY DEF Refusals
  <2> HIDE DEF before, after, Early
  <2> QED  BY <1>3, <1>4, <1>5, <1>7, <2>1
<1>10. Refusal(given) = "none" => FirstOf(after) = 0
  <2>1. "none" \notin Refusals
    BY DEF Refusals
  <2> HIDE DEF before, after
  <2> QED  BY <1>4, <1>6, <1>7, <1>9, <2>1
<1>11. Refusal(given) = "plugin_dependency_cycle" => FirstOf(after) = 1
  <2> HIDE DEF before, after
  <2> QED  BY <1>4, <1>6, <1>7, <1>9
<1>12. FirstOf(before) = 0 =>
          /\ ~IdIsTakenTwice(plugins) /\ ~PrefixContainsAnother(plugins) /\ ~DependencyIsMissing(plugins)
          /\ \A i \in DOMAIN plugins : ~RouteIsUnlimited(plugins[i]) /\ ~TableIsAnothers(plugins[i])
  <2> SUFFICES ASSUME FirstOf(before) = 0
               PROVE  /\ ~IdIsTakenTwice(plugins) /\ ~PrefixContainsAnother(plugins)
                      /\ ~DependencyIsMissing(plugins)
                      /\ \A i \in DOMAIN plugins : ~RouteIsUnlimited(plugins[i]) /\ ~TableIsAnothers(plugins[i])
    OBVIOUS
  <2>1. \A i \in 1 .. 5 : ~head[i][2]
    <3> HIDE DEF before, head, theirs
    <3> QED  BY <1>3, <1>7
  <2>2. ~IdIsTakenTwice(plugins) /\ ~PrefixContainsAnother(plugins) /\ ~DependencyIsMissing(plugins)
    <3>1. ~head[3][2] /\ ~head[4][2] /\ ~head[5][2]
      BY <2>1
    <3> QED  BY <3>1 DEF HeadChecks
  <2>3. ASSUME NEW i \in DOMAIN plugins PROVE ~RouteIsUnlimited(plugins[i]) /\ ~TableIsAnothers(plugins[i])
    <3>1. PICK p : Laid(TheirChecks(plugins), Len(plugins), theirs, p)
      BY <1>2
    <3>2. TheirChecks(plugins)[i] = OwnChecks(plugins[i])
      BY DEF TheirChecks
    <3>3. Len(OwnChecks(plugins[i])) = 5
      BY DEF OwnChecks
    <3>4. \A j \in 1 .. 5 : p[i][j] \in 1 .. Len(theirs) /\ theirs[p[i][j]] = OwnChecks(plugins[i])[j]
      <4>1. i \in 1 .. Len(plugins) /\ Len(TheirChecks(plugins)[i]) = 5
        BY <1>1, <3>2, <3>3
      <4> HIDE DEF theirs, plugins
      <4>2. \A j \in 1 .. Len(TheirChecks(plugins)[i]) :
              p[i][j] \in 1 .. Len(theirs) /\ theirs[p[i][j]] = TheirChecks(plugins)[i][j]
        BY <3>1, <4>1 DEF Laid
      <4> QED  BY <3>2, <4>1, <4>2
    <3>5. \A k \in 1 .. Len(theirs) : 5 + k \in 1 .. Len(before) /\ ~theirs[k][2]
      <4> HIDE DEF before, theirs
      <4> QED  BY <1>3, <1>7
    <3>6. ~OwnChecks(plugins[i])[4][2] /\ ~OwnChecks(plugins[i])[5][2]
      <4>1. 4 \in 1 .. 5 /\ 5 \in 1 .. 5
        OBVIOUS
      <4> HIDE DEF theirs
      <4>2. ~theirs[p[i][4]][2] /\ ~theirs[p[i][5]][2]
        BY <3>4, <3>5, <4>1
      <4> QED  BY <3>4, <4>1, <4>2
    <3> QED  BY <3>6 DEF OwnChecks
  <2> QED  BY <2>2, <2>3
<1>13. FirstOf(after) = 0 =>
          /\ InDependencyOrder(plugins) # Nothing /\ ~RouteConflicts(plugins)
          /\ \A i \in DOMAIN plugins : ~RouteIsExempt(plugins[i])
  <2> SUFFICES ASSUME FirstOf(after) = 0
               PROVE  /\ InDependencyOrder(plugins) # Nothing /\ ~RouteConflicts(plugins)
                      /\ \A i \in DOMAIN plugins : ~RouteIsExempt(plugins[i])
    OBVIOUS
  <2>1. ~after[1][2] /\ ~after[2][2] /\ ~after[3][2]
    <3> HIDE DEF after
    <3> QED  BY <1>7
  <2>2. InDependencyOrder(plugins) # Nothing /\ ~SomePlugin(plugins, RouteIsExempt) /\ ~RouteConflicts(plugins)
    <3> HIDE DEF plugins
    <3> QED  BY <2>1 DEF TailChecks
  <2> QED  BY <2>2 DEF SomePlugin
<1>14. FirstOf(after) = 1 => InDependencyOrder(plugins) = Nothing
  <2>1. after[1][2] <=> InDependencyOrder(plugins) = Nothing
    BY DEF TailChecks
  <2> HIDE DEF after
  <2> QED  BY <1>7, <2>1
<1> QED  BY <1>8, <1>9, <1>10, <1>11, <1>12, <1>13, <1>14

(***************************************************************************)
(* The start                                                               *)
(***************************************************************************)
\* Of two names that begin a third one, one begins the other.
LEMMA PrefixesCompare ==
  ASSUME NEW s \in Names, NEW t \in Names, NEW u \in Names, IsPrefix(s, u), IsPrefix(t, u)
  PROVE  IsPrefix(s, t) \/ IsPrefix(t, s)
<1>1. ASSUME NEW a \in Names, NEW b \in Names, IsPrefix(a, b)
      PROVE  Len(a) <= Len(b) /\ \A i \in 1 .. Len(a) : a[i] = b[i]
  <2>1. /\ Len(a) \in Nat /\ Len(b) \in Nat /\ Len(a) <= Len(b)
        /\ SubSeq(a, 1, Len(a)) = SubSeq(b, 1, Len(a))
    BY <1>1 DEF Names, IsPrefix
  <2>2. \A i \in 1 .. Len(a) : SubSeq(a, 1, Len(a))[i] = a[i] /\ SubSeq(b, 1, Len(a))[i] = b[i]
    BY <2>1 DEF Names
  <2> QED  BY <2>1, <2>2
<1>2. ASSUME NEW a \in Names, NEW b \in Names, Len(a) <= Len(b), \A i \in 1 .. Len(a) : a[i] = b[i]
      PROVE  IsPrefix(a, b)
  <2>1. Len(a) \in Nat /\ Len(b) \in Nat
    BY DEF Names
  <2>2. /\ SubSeq(a, 1, Len(a)) = [i \in 1 .. Len(a) |-> a[i]]
        /\ SubSeq(b, 1, Len(a)) = [i \in 1 .. Len(a) |-> b[i]]
    BY <1>2, <2>1 DEF Names
  <2> QED  BY <1>2, <2>2 DEF IsPrefix
<1>3. Len(s) \in Nat /\ Len(t) \in Nat
  BY DEF Names
<1>4. CASE Len(s) <= Len(t)
  BY <1>1, <1>2, <1>3, <1>4
<1>5. CASE Len(t) <= Len(s)
  BY <1>1, <1>2, <1>3, <1>5
<1> QED  BY <1>3, <1>4, <1>5

\* The lists of routes RoutesOf makes one of.
RouteLists(plugins) ==
    [i \in DOMAIN plugins |->
        [j \in DOMAIN plugins[i].routes |-> [route |-> plugins[i].routes[j], owner |-> plugins[i].id]]]

\* Route j of plugin i is the contributed route p[i][j]: everything is, and nothing else.
RoutesLie(plugins, p) ==
    /\ \A i \in 1 .. Len(plugins) : \A j \in 1 .. Len(plugins[i].routes) :
          /\ p[i][j] \in 1 .. Len(RoutesOf(plugins))
          /\ RoutesOf(plugins)[p[i][j]].route = plugins[i].routes[j]
    /\ \A k \in 1 .. Len(RoutesOf(plugins)) : \E i \in 1 .. Len(plugins) :
          \E j \in 1 .. Len(plugins[i].routes) : p[i][j] = k
    /\ \A i, h \in 1 .. Len(plugins) : \A j \in 1 .. Len(plugins[i].routes) :
          \A k \in 1 .. Len(plugins[h].routes) : p[i][j] = p[h][k] => i = h /\ j = k

\* Every route a plugin declares is among the routes, at a place of its own.
LEMMA RoutesAreLaid ==
  ASSUME NEW plugins \in Seq(Readings)
  PROVE  /\ Len(RoutesOf(plugins)) \in Nat /\ DOMAIN RoutesOf(plugins) = 1 .. Len(RoutesOf(plugins))
         /\ \E p : RoutesLie(plugins, p)
<1> DEFINE T == [route : Routes, owner : Names]
           lists == RouteLists(plugins)
<1>1. /\ DOMAIN plugins = 1 .. Len(plugins) /\ Len(plugins) \in Nat
      /\ \A i \in 1 .. Len(plugins) : plugins[i] \in Readings
  OBVIOUS
<1>2. \A plugin \in Readings : plugin.routes \in Seq(Routes) /\ plugin.id \in Names
  BY DEF Readings
<1>3. ASSUME NEW i \in 1 .. Len(plugins)
      PROVE  /\ lists[i] \in Seq(T) /\ Len(lists[i]) = Len(plugins[i].routes)
             /\ \A j \in 1 .. Len(plugins[i].routes) : lists[i][j].route = plugins[i].routes[j]
  <2>1. plugins[i].routes \in Seq(Routes) /\ plugins[i].id \in Names
    BY <1>1, <1>2
  <2> DEFINE routes == plugins[i].routes
             own == plugins[i].id
  <2>2. lists[i] = [j \in 1 .. Len(routes) |-> [route |-> routes[j], owner |-> own]] /\ Len(routes) \in Nat
    BY <1>1, <2>1 DEF RouteLists
  <2>3. \A j \in 1 .. Len(routes) : [route |-> routes[j], owner |-> own] \in T
    BY <2>1
  <2> HIDE DEF routes, own, lists, T
  <2>4. lists[i] \in Seq(T) /\ Len(lists[i]) = Len(routes)
    BY <2>2, <2>3, IsASeq
  <2> QED  BY <2>2, <2>4 DEF routes
<1>4. lists \in Seq(Seq(T)) /\ Len(lists) = Len(plugins)
  <2>1. lists = [i \in 1 .. Len(plugins) |-> lists[i]]
    BY <1>1 DEF RouteLists
  <2> HIDE DEF lists, T
  <2> QED  BY <1>1, <1>3, <2>1, IsASeq
<1>5. RoutesOf(plugins) = FlattenSeq(lists)
  BY DEF RoutesOf, RouteLists
<1>6. RoutesOf(plugins) \in Seq(T)
  <2> HIDE DEF lists, T
  <2> QED  BY <1>4, <1>5, Flattened
<1>7. PICK p : Laid(lists, Len(plugins), RoutesOf(plugins), p)
  <2> HIDE DEF lists, T
  <2> QED  BY <1>4, <1>5, Flattened
<1>8. Len(RoutesOf(plugins)) \in Nat /\ DOMAIN RoutesOf(plugins) = 1 .. Len(RoutesOf(plugins))
  <2> HIDE DEF T
  <2> QED  BY <1>6
<1> HIDE DEF lists
<1>9. \A i \in 1 .. Len(plugins) : Len(lists[i]) = Len(plugins[i].routes)
  BY <1>3
<1>10. \A i \in 1 .. Len(plugins) : \A j \in 1 .. Len(lists[i]) :
          p[i][j] \in 1 .. Len(RoutesOf(plugins)) /\ RoutesOf(plugins)[p[i][j]] = lists[i][j]
  BY <1>7 DEF Laid
<1>11. \A i \in 1 .. Len(plugins) : \A j \in 1 .. Len(plugins[i].routes) :
          /\ p[i][j] \in 1 .. Len(RoutesOf(plugins))
          /\ RoutesOf(plugins)[p[i][j]].route = plugins[i].routes[j]
  <2> TAKE i \in 1 .. Len(plugins)
  <2>1. Len(lists[i]) = Len(plugins[i].routes)
    BY <1>9
  <2> TAKE j \in 1 .. Len(plugins[i].routes)
  <2>2. j \in 1 .. Len(lists[i])
    BY <2>1
  <2>3. p[i][j] \in 1 .. Len(RoutesOf(plugins)) /\ RoutesOf(plugins)[p[i][j]] = lists[i][j]
    BY <1>10, <2>2
  <2>4. lists[i][j].route = plugins[i].routes[j]
    BY <1>3
  <2> QED  BY <2>3, <2>4
<1>12. \A k \in 1 .. Len(RoutesOf(plugins)) : \E i \in 1 .. Len(plugins) :
          \E j \in 1 .. Len(plugins[i].routes) : p[i][j] = k
  BY <1>7, <1>9 DEF Laid
<1>13. \A i, h \in 1 .. Len(plugins) : \A j \in 1 .. Len(plugins[i].routes) :
          \A k \in 1 .. Len(plugins[h].routes) : p[i][j] = p[h][k] => i = h /\ j = k
  BY <1>7, <1>9, SMTT(30) DEF Laid
<1>14. RoutesLie(plugins, p)
  BY <1>11, <1>12, <1>13, Zenon DEF RoutesLie
<1> QED  BY <1>8, <1>14

\* What the runtime keeps of the plugins, in the order of registration.
KeptOf(plugins, order) == [i \in DOMAIN order |-> PluginOf(plugins, order[i])]

\* SoundStart of any plugins, refusal and order.
SoundlyStarted(plugins, refused, order) ==
    LET tables == (UNION {plugins[i].tables : i \in DOMAIN plugins}) \cup CoreTables
        owned == RoutesOf(KeptOf(plugins, order))
        Before(i) == {order[j] : j \in 1 .. (i - 1)}
    IN  /\ refused = "none" =>
              /\ ToSet(order) = IdsOf(plugins) /\ Len(order) = Len(plugins)
              /\ \A i \in DOMAIN order : ToSet(PluginOf(plugins, order[i]).dependsOn) \subseteq Before(i)
              /\ \A table \in tables, p, q \in ToSet(order) :
                    Reaches(p, table) /\ Reaches(q, table) => p = q /\ table \notin CoreTables
              /\ \A i, j \in DOMAIN owned :
                    owned[i].route.name = owned[j].route.name
                    \/ owned[i].route.path = owned[j].route.path => i = j
              /\ \A i \in DOMAIN owned : owned[i].route.limited /\ ~owned[i].route.exempt
        /\ refused = "plugin_dependency_cycle" => IsCyclic(plugins)

\* A sequence that holds nothing twice is as long as its set is large.
LEMMA OnceEach ==
  ASSUME NEW T, NEW s \in Seq(T), \A i, j \in 1 .. Len(s) : s[i] = s[j] => i = j
  PROVE  Cardinality({s[i] : i \in 1 .. Len(s)}) = Len(s)
<1> DEFINE S == {s[i] : i \in 1 .. Len(s)}
           f == [i \in 1 .. Len(s) |-> s[i]]
<1>1. Len(s) \in Nat
  OBVIOUS
<1>2. f \in Bijection(1 .. Len(s), S)
  BY DEF Bijection, Injection, Surjection, IsInjective
<1>3. ExistsBijection(1 .. Len(s), S)
  BY <1>2 DEF ExistsBijection
<1> QED  BY <1>1, <1>3, FS_CountingElements

\* Every declared plugin is in the order once.
LEMMA EveryPluginOnce ==
  ASSUME NEW plugins \in Seq(Readings), ~IdIsTakenTwice(plugins), NEW order,
         Ordered(plugins, order), ToSet(order) = IdsOf(plugins)
  PROVE  Len(order) = Len(plugins)
<1> DEFINE ids == [i \in 1 .. Len(plugins) |-> plugins[i].id]
<1>1. DOMAIN plugins = 1 .. Len(plugins) /\ Len(plugins) \in Nat
  OBVIOUS
<1>2. ids \in Seq(IdsOf(plugins)) /\ Len(ids) = Len(plugins)
  BY <1>1 DEF IdsOf
<1>3. \A i, j \in 1 .. Len(ids) : ids[i] = ids[j] => i = j
  BY <1>1, <1>2 DEF IdIsTakenTwice
<1>4. Cardinality({ids[i] : i \in 1 .. Len(ids)}) = Len(plugins)
  <2> HIDE DEF ids
  <2> QED  BY <1>2, <1>3, OnceEach
<1>5. {ids[i] : i \in 1 .. Len(ids)} = IdsOf(plugins)
  BY <1>1, <1>2 DEF IdsOf
<1>6. order \in Seq(IdsOf(plugins)) /\ \A i, j \in 1 .. Len(order) : order[i] = order[j] => i = j
  BY DEF Ordered
<1>7. Cardinality({order[i] : i \in 1 .. Len(order)}) = Len(order)
  BY <1>6, OnceEach
<1>8. {order[i] : i \in 1 .. Len(order)} = ToSet(order)
  BY <1>6 DEF ToSet
<1> QED  BY <1>4, <1>5, <1>7, <1>8

\* No table has two plugins that reach it, and none of theirs is the core's.
LEMMA TablesHaveOneOwner ==
  ASSUME NEW plugins \in Seq(Readings), ~PrefixContainsAnother(plugins),
         NEW table \in (UNION {plugins[i].tables : i \in DOMAIN plugins}) \cup CoreTables,
         NEW p \in IdsOf(plugins), NEW q \in IdsOf(plugins), Reaches(p, table), Reaches(q, table)
  PROVE  p = q /\ table \notin CoreTables
<1>1. \A id : Reaches(id, table) => IsStrictPrefix(id, table) /\ table \notin CoreTables
  BY DEF Reaches, PassesTheWalk, Statement, NamesAnOwnTable, NamesTableOfPlugin
<1>2. \A i \in DOMAIN plugins : plugins[i].tables \in SUBSET Names /\ plugins[i].id \in Names
  <2>1. \A plugin \in Readings : plugin.tables \in SUBSET Names /\ plugin.id \in Names
    BY DEF Readings
  <2> QED  BY <2>1
<1>3. table \in Names /\ p \in Names /\ q \in Names
  <2>1. table \notin CoreTables
    BY <1>1
  <2>2. table \in UNION {plugins[i].tables : i \in DOMAIN plugins}
    <3> DEFINE S == UNION {plugins[i].tables : i \in DOMAIN plugins}
    <3>1. table \in S \cup CoreTables
      OBVIOUS
    <3> HIDE DEF S
    <3>2. table \in S
      BY <2>1, <3>1
    <3> QED  BY <3>2 DEF S
  <2>3. PICK i \in DOMAIN plugins : table \in plugins[i].tables
    BY <2>2
  <2> QED  BY <1>2, <2>3 DEF IdsOf
<1>4. IsPrefix(p, table) /\ IsPrefix(q, table)
  BY <1>1 DEF IsStrictPrefix
<1>5. IsPrefix(p, q) \/ IsPrefix(q, p)
  BY <1>3, <1>4, PrefixesCompare
<1>6. ~IsStrictPrefix(p, q) /\ ~IsStrictPrefix(q, p)
  BY DEF PrefixContainsAnother, IdsOf
<1> QED  BY <1>1, <1>5, <1>6 DEF IsStrictPrefix

\* The routes the runtime keeps are those the checks have seen: no two share a name or a path.
LEMMA RoutesDoNotConflict ==
  ASSUME NEW plugins \in Seq(Readings), NEW order, Ordered(plugins, order),
         ~RouteConflicts(plugins),
         \A i \in DOMAIN plugins : ~RouteIsUnlimited(plugins[i]) /\ ~RouteIsExempt(plugins[i])
  PROVE  LET owned == RoutesOf(KeptOf(plugins, order))
         IN  /\ \A i, j \in DOMAIN owned :
                    owned[i].route.name = owned[j].route.name
                    \/ owned[i].route.path = owned[j].route.path => i = j
             /\ \A i \in DOMAIN owned : owned[i].route.limited /\ ~owned[i].route.exempt
<1> DEFINE kept == KeptOf(plugins, order)
           owned == RoutesOf(kept)
           contributed == RoutesOf(plugins)
<1>1. /\ order \in Seq(IdsOf(plugins)) /\ DOMAIN order = 1 .. Len(order) /\ Len(order) \in Nat
      /\ \A i, j \in 1 .. Len(order) : order[i] = order[j] => i = j
      /\ DOMAIN plugins = 1 .. Len(plugins) /\ Len(plugins) \in Nat
  BY DEF Ordered
<1>2. \A i \in 1 .. Len(order) :
         /\ \E g \in 1 .. Len(plugins) : kept[i] = plugins[g]
         /\ kept[i] \in Readings /\ kept[i].id = order[i]
  <2> TAKE i \in 1 .. Len(order)
  <2>1. order[i] \in IdsOf(plugins) /\ kept[i] = PluginOf(plugins, order[i])
    BY <1>1 DEF KeptOf
  <2> QED  BY <1>1, <2>1, PluginIsFound
<1>3. kept \in Seq(Readings) /\ Len(kept) = Len(order)
  <2>1. kept = [i \in 1 .. Len(order) |-> kept[i]]
    BY <1>1 DEF KeptOf
  <2> HIDE DEF kept
  <2> QED  BY <1>1, <1>2, <2>1, IsASeq
<1> HIDE DEF kept
<1>4. PICK p : RoutesLie(kept, p)
  BY <1>3, RoutesAreLaid
<1>5. PICK q : RoutesLie(plugins, q)
  BY RoutesAreLaid
<1>6. DOMAIN owned = 1 .. Len(owned) /\ DOMAIN contributed = 1 .. Len(contributed)
      /\ Len(contributed) \in Nat
  BY <1>3, RoutesAreLaid
<1>7. ASSUME NEW a \in 1 .. Len(owned)
      PROVE  \E i \in 1 .. Len(order), j \in Nat, g \in 1 .. Len(plugins) :
                /\ kept[i] = plugins[g] /\ j \in 1 .. Len(plugins[g].routes) /\ p[i][j] = a
                /\ owned[a].route = plugins[g].routes[j]
                /\ q[g][j] \in 1 .. Len(contributed)
                /\ contributed[q[g][j]].route = owned[a].route
  <2>1. PICK i \in 1 .. Len(kept) : \E j \in 1 .. Len(kept[i].routes) : p[i][j] = a
    BY <1>4 DEF RoutesLie
  <2>2. PICK j \in 1 .. Len(kept[i].routes) : p[i][j] = a
    BY <2>1
  <2>3. PICK g \in 1 .. Len(plugins) : kept[i] = plugins[g]
    BY <1>2, <1>3
  <2>4. owned[a].route = plugins[g].routes[j]
    BY <1>4, <2>2, <2>3, SMTT(30) DEF RoutesLie
  <2>5. q[g][j] \in 1 .. Len(contributed) /\ contributed[q[g][j]].route = plugins[g].routes[j]
    BY <1>5, <2>3 DEF RoutesLie
  <2> QED  BY <1>3, <2>2, <2>3, <2>4, <2>5
<1>8. \A a, b \in 1 .. Len(contributed) :
         contributed[a].route.name = contributed[b].route.name
         \/ contributed[a].route.path = contributed[b].route.path => a = b
  <2> SUFFICES ASSUME NEW a \in 1 .. Len(contributed), NEW b \in 1 .. Len(contributed), a < b
               PROVE  ~(\/ contributed[a].route.name = contributed[b].route.name
                        \/ contributed[a].route.path = contributed[b].route.path)
    BY <1>6
  <2>1. a \in 1 .. (b - 1) /\ b \in DOMAIN contributed
    BY <1>6
  <2> QED  BY <2>1 DEF RouteConflicts
<1>9. ASSUME NEW a \in DOMAIN owned, NEW b \in DOMAIN owned,
             owned[a].route.name = owned[b].route.name \/ owned[a].route.path = owned[b].route.path
      PROVE  a = b
  <2>1. PICK i \in 1 .. Len(order), j \in Nat, g \in 1 .. Len(plugins) :
                /\ kept[i] = plugins[g] /\ j \in 1 .. Len(plugins[g].routes) /\ p[i][j] = a
                /\ owned[a].route = plugins[g].routes[j]
                /\ q[g][j] \in 1 .. Len(contributed)
                /\ contributed[q[g][j]].route = owned[a].route
    BY <1>6, <1>7
  <2>2. PICK h \in 1 .. Len(order), k \in Nat, f \in 1 .. Len(plugins) :
                /\ kept[h] = plugins[f] /\ k \in 1 .. Len(plugins[f].routes) /\ p[h][k] = b
                /\ owned[b].route = plugins[f].routes[k]
                /\ q[f][k] \in 1 .. Len(contributed)
                /\ contributed[q[f][k]].route = owned[b].route
    BY <1>6, <1>7
  <2>3. q[g][j] = q[f][k]
    <3> HIDE DEF contributed, owned
    <3> QED  BY <1>8, <1>9, <2>1, <2>2
  <2>4. g = f /\ j = k
    BY <1>5, <2>1, <2>2, <2>3 DEF RoutesLie
  <2>5. order[i] = order[h]
    BY <1>2, <2>1, <2>2, <2>4, SMTT(30)
  <2>6. i = h
    BY <1>1, <2>5
  <2> QED  BY <2>1, <2>2, <2>4, <2>6
<1>10. ASSUME NEW a \in DOMAIN owned PROVE owned[a].route.limited /\ ~owned[a].route.exempt
  <2>1. PICK g \in 1 .. Len(plugins) : \E j \in 1 .. Len(plugins[g].routes) :
            owned[a].route = plugins[g].routes[j]
    BY <1>6, <1>7
  <2>2. plugins[g] \in Readings
    BY <1>1
  <2>3. plugins[g].routes \in Seq(Routes)
    BY <2>2 DEF Readings
  <2> QED  BY <1>1, <2>1, <2>3 DEF RouteIsUnlimited, RouteIsExempt
<1> QED  BY <1>9, <1>10 DEF kept

\* A start keeps what its checks let through (createPluginRuntime).
LEMMA StartGoesWell ==
  ASSUME NEW given \in Seq([read : Readings, later : Readings])
  PROVE  LET order == IF Refusal(given) = "none" THEN InDependencyOrder(OneReading(given)) ELSE <<>>
         IN  /\ SoundlyStarted(OneReading(given), Refusal(given), order)
             /\ order \in Seq(IdsOf(OneReading(given)))
<1> DEFINE plugins == OneReading(given)
           order == IF Refusal(given) = "none" THEN InDependencyOrder(plugins) ELSE <<>>
<1>1. plugins \in Seq(Readings)
  <2>1. DOMAIN given = 1 .. Len(given) /\ Len(given) \in Nat
    OBVIOUS
  <2>2. \A i \in 1 .. Len(given) : given[i].read \in Readings
    <3> TAKE i \in 1 .. Len(given)
    <3>1. given[i] \in [read : Readings, later : Readings]
      <4> DEFINE T == [read : Readings, later : Readings]
      <4>1. given \in Seq(T)
        OBVIOUS
      <4> HIDE DEF T
      <4>2. given[i] \in T
        BY <4>1, ElementOfSeq
      <4> QED  BY <4>2 DEF T
    <3> QED  BY <3>1
  <2> QED  BY <2>1, <2>2, IsASeq DEF OneReading
<1>2. Refusal(given) = "none" =>
          /\ ~IdIsTakenTwice(plugins) /\ ~PrefixContainsAnother(plugins)
          /\ ~DependencyIsMissing(plugins) /\ InDependencyOrder(plugins) # Nothing
          /\ \A i \in DOMAIN plugins : ~RouteIsUnlimited(plugins[i]) /\ ~RouteIsExempt(plugins[i])
          /\ ~RouteConflicts(plugins)
  BY WhatWasRefused
<1>3. Refusal(given) = "plugin_dependency_cycle" =>
          ~DependencyIsMissing(plugins) /\ InDependencyOrder(plugins) = Nothing
  BY WhatWasRefused
<1> HIDE DEF plugins
<1>4. CASE Refusal(given) # "none"
  <2>1. order = <<>>
    BY <1>4
  <2>2. Refusal(given) = "plugin_dependency_cycle" => IsCyclic(plugins)
    BY <1>1, <1>3, DependencyOrder
  <2> QED  BY <1>4, <2>1, <2>2 DEF SoundlyStarted, plugins
<1>5. CASE Refusal(given) = "none"
  <2>1. order = InDependencyOrder(plugins)
    BY <1>5
  <2> HIDE DEF order
  <2>2. Ordered(plugins, order) /\ ToSet(order) = IdsOf(plugins)
    BY <1>1, <1>2, <1>5, <2>1, DependencyOrder
  <2>3. order \in Seq(IdsOf(plugins)) /\ DOMAIN order = 1 .. Len(order)
    BY <2>2 DEF Ordered
  <2>4. Len(order) = Len(plugins)
    BY <1>1, <1>2, <1>5, <2>2, EveryPluginOnce
  <2>5. \A i \in DOMAIN order :
            ToSet(PluginOf(plugins, order[i]).dependsOn) \subseteq {order[j] : j \in 1 .. (i - 1)}
    BY <2>2, <2>3 DEF Ordered, Needs
  <2>6. \A table \in (UNION {plugins[i].tables : i \in DOMAIN plugins}) \cup CoreTables,
           p, q \in ToSet(order) :
               Reaches(p, table) /\ Reaches(q, table) => p = q /\ table \notin CoreTables
    <3> TAKE table \in (UNION {plugins[i].tables : i \in DOMAIN plugins}) \cup CoreTables,
             p, q \in ToSet(order)
    <3>1. p \in IdsOf(plugins) /\ q \in IdsOf(plugins) /\ ~PrefixContainsAnother(plugins)
      BY <1>2, <1>5, <2>2
    <3>2. HAVE Reaches(p, table) /\ Reaches(q, table)
    <3> QED  BY <1>1, <3>1, <3>2, TablesHaveOneOwner
  <2>7. LET owned == RoutesOf(KeptOf(plugins, order))
        IN  /\ \A i, j \in DOMAIN owned :
                    owned[i].route.name = owned[j].route.name
                    \/ owned[i].route.path = owned[j].route.path => i = j
            /\ \A i \in DOMAIN owned : owned[i].route.limited /\ ~owned[i].route.exempt
    BY <1>1, <1>2, <1>5, <2>2, RoutesDoNotConflict
  <2>8. SoundlyStarted(plugins, Refusal(given), order)
    BY <1>5, <2>2, <2>4, <2>5, <2>6, <2>7 DEF SoundlyStarted
  <2> QED  BY <2>3, <2>8 DEF order, plugins
<1> QED  BY <1>4, <1>5

(***************************************************************************)
(* The inductive invariant                                                 *)
(***************************************************************************)
\* Steps of a path, and the step its transaction begins with and the one it ends with (0: none).
Steps == {Told(point) : point \in Points} \cup {Begin, Core, Commit, Discard}
Brackets(steps, b, e) ==
    /\ b \in 0 .. Len(steps) /\ e \in 0 .. Len(steps) /\ ((0 < b /\ b < e) \/ (b = 0 /\ e = 0))
    /\ \A i \in 1 .. Len(steps) :
          (steps[i].does = "begin" <=> i = b) /\ (steps[i].does \in {"commit", "discard"} <=> i = e)

\* A request is on its path: it holds a connection from its begin to its end,
\* and hooks run only where they are told.
OnPath(r) ==
    LET steps == StepsOf[course[r]]
    IN  /\ answer[r] = Nothing => at[r] < Len(steps)
        /\ answer[r] # Nothing => stack[r] = <<>>
        /\ answer[r] \in {"failed", "vetoed"} => ~Lent(r)
        /\ \A b, e \in 0 .. Len(steps) : Brackets(steps, b, e) /\ answer[r] \in {Nothing, "done"} =>
              (Lent(r) <=> b <= at[r] /\ at[r] < e)
        /\ stack[r] # <<>> => Now(r).does = "tell"

\* What is under way is awaited by the innermost call, and every frame of a
\* transaction has a lease that was given out.
Dispatching(r) ==
    /\ \A i \in DOMAIN stack[r] : stack[r][i].lease <= leases[r] /\ (stack[r][i].lease # 0 <=> Lent(r))
    /\ running[r] # Nothing =>
          /\ stack[r] # <<>> /\ Top(r).agenda # <<>>
          /\ running[r].lease = Top(r).lease /\ running[r].on = mine[r]

UnboundLeft == {<<"save", "run", "release">>, <<"run", "release">>, <<"release">>}
RoleLeft == {
    <<"read", "save", "switch", "run", "restore", "release">>,
    <<"save", "switch", "run", "restore", "release">>, <<"switch", "run", "restore", "release">>,
    <<"run", "restore", "release">>, <<"restore", "release">>, <<"release">>}
UndoLeft == {<<"rollback", "discard">>, <<"discard">>}
LoginLeft == {<<"library", "reach", "own">>, <<"reach", "own">>, <<"await", "own">>, <<"own">>}
LeftOf(task) ==
    CASE mode = "login" -> LoginLeft
      [] mode # "login" /\ task.lease = 0 -> {<<"pool">>}
      [] mode = "unbound" /\ task.lease # 0 -> UnboundLeft \cup UndoLeft
      [] mode = "role" /\ task.lease # 0 -> RoleLeft \cup UndoLeft

\* A statement keeps to the connection it was lent while the lease lasts.
TaskFits(r, task) ==
    /\ task.stages \in LeftOf(task)
    /\ task.lease <= leases[r] /\ task.write[1] = r
    /\ task.lease # 0 => task.on \in Conn /\ (Usable(r, task) => task.on = mine[r])
TasksFit(r) == \A task \in Underway(r) : TaskFits(r, task)

\* A connection has one holder, and only what its holder wrote.
ConnsFit ==
    /\ \A r \in Request : Lent(r) => conn[mine[r]].holder = r
    /\ \A c \in Conn :
          /\ conn[c].holder = Nothing => conn[c] = Free
          /\ \A write \in conn[c].writes : write[1] = conn[c].holder
          /\ \A i \in DOMAIN conn[c].saves : \A write \in conn[c].saves[i].writes :
                write[1] = conn[c].holder

\* The connection as the library left it.
Tidy(k) == k.role = "library" /\ ~k.aborted /\ k.saves = <<>>

\* The connection between the savepoint around a statement and its release.
Within(k, task) ==
    /\ Len(k.saves) = 1 /\ k.saves[1].role = "library"
    /\ k.aborted <=> Stage(task) = "rollback"
    /\ \/ k.role = "library" \/ Stage(task) = "rollback"
       \/ mode = "role" /\ Stage(task) \in {"run", "restore"}
    /\ Stage(task) \in {"switch", "run", "discard"} => k.writes = k.saves[1].writes
    /\ Stage(task) \in {"restore", "release"} => k.writes = k.saves[1].writes \cup {task.write}

\* Where no statement was left running, only the one awaited changes the connection.
Undisturbed(r) ==
    Orderly(r) /\ Lent(r) =>
        LET k == conn[mine[r]]
            task == running[r]
        IN  IF task = Nothing \/ mode = "login" THEN Tidy(k)
            ELSE /\ IF Stage(task) \in {"read", "save"} THEN Tidy(k) ELSE Within(k, task)
                 /\ task.held = "library" /\ (task.ok <=> Stage(task) \notin {"rollback", "discard"})

WrittenBy(r, writes) == {write \in writes : write[1] = r}
\* What a transaction would land if the statement under way were rolled back.
Settled(r) ==
    IF ~Lent(r) THEN {}
    ELSE IF conn[mine[r]].saves = <<>> THEN conn[mine[r]].writes ELSE conn[mine[r]].saves[1].writes
Accounted(r) == Orderly(r) /\ answer[r] = Nothing => WrittenBy(r, told) = WrittenBy(r, landed) \cup Settled(r)

Unharmed(r) ==
    Orderly(r) => answer[r] # "failed" /\ (outcome[r] = "rolledBack" => answer[r] = "vetoed")

\* A check that has passed was asked before the grant.
PassesFit ==
    /\ granted # Nothing => granted <= time
    /\ \A i \in DOMAIN passes : /\ passes[i].askedAt <= time
                                /\ passes[i].state = "passed" /\ granted # Nothing => passes[i].askedAt <= granted
IsTimely(task) ==
    /\ task.pass \in 1 .. Len(passes) /\ task.calledAt < passes[task.pass].askedAt + Recheck
    /\ Stage(task) = "own" /\ granted # Nothing => passes[task.pass].askedAt <= granted
Timely(r) == mode = "login" => \A task \in Underway(r) : IsTimely(task)

RequestFits(r) ==
    /\ OnPath(r) /\ Dispatching(r) /\ TasksFit(r) /\ Undisturbed(r)
    /\ Accounted(r) /\ Unharmed(r) /\ Timely(r)

PluginsInv == TypeOK /\ ConnsFit /\ PassesFit /\ \A r \in Request : RequestFits(r)

(***************************************************************************)
(* Paths                                                                   *)
(***************************************************************************)
\* Steps of a path outside a transaction, and of one that opens a transaction with its first.
Outside(s) == s \in Seq(Steps) /\ \A i \in 1 .. Len(s) : s[i].does \notin {"begin", "commit", "discard"}
Opening(s) ==
    /\ s \in Seq(Steps) /\ Len(s) >= 1 /\ s[1].does = "begin"
    /\ \A i \in 2 .. Len(s) : s[i].does \notin {"begin", "commit", "discard"}
Whole(s) == s \in Seq(Steps) /\ Len(s) >= 1 /\ \E b, e \in 0 .. Len(s) : Brackets(s, b, e)

\* Two sequences of steps, one after the other.
LEMMA StepsJoin ==
  ASSUME NEW s \in Seq(Steps), NEW t \in Seq(Steps)
  PROVE  /\ s \o t \in Seq(Steps) /\ Len(s \o t) = Len(s) + Len(t) /\ Len(s) \in Nat /\ Len(t) \in Nat
         /\ \A i \in 1 .. Len(s) : (s \o t)[i] = s[i]
         /\ \A i \in 1 .. Len(t) : (s \o t)[Len(s) + i] = t[i]
         /\ \A i \in 1 .. Len(s \o t) : i \notin 1 .. Len(s) => i - Len(s) \in 1 .. Len(t) /\ i = Len(s) + (i - Len(s))
<1> HIDE DEF Steps
<1> QED  OBVIOUS

\* Steps outside a transaction stay so when they are joined.
LEMMA OutsideJoins ==
  ASSUME NEW s, NEW t, Outside(s), Outside(t)
  PROVE  Outside(s \o t)
<1>1. s \in Seq(Steps) /\ t \in Seq(Steps)
  BY DEF Outside
<1>2. /\ s \o t \in Seq(Steps) /\ Len(s \o t) = Len(s) + Len(t) /\ Len(s) \in Nat /\ Len(t) \in Nat
      /\ \A i \in 1 .. Len(s) : (s \o t)[i] = s[i]
      /\ \A i \in 1 .. Len(t) : (s \o t)[Len(s) + i] = t[i]
      /\ \A i \in 1 .. Len(s \o t) : i \notin 1 .. Len(s) => i - Len(s) \in 1 .. Len(t) /\ i = Len(s) + (i - Len(s))
  BY <1>1, StepsJoin
<1>3. ASSUME NEW i \in 1 .. Len(s \o t) PROVE (s \o t)[i].does \notin {"begin", "commit", "discard"}
  <2>1. CASE i \in 1 .. Len(s)
    BY <1>2, <2>1 DEF Outside
  <2>2. CASE i \notin 1 .. Len(s)
    <3>1. i - Len(s) \in 1 .. Len(t) /\ i = Len(s) + (i - Len(s))
      BY <1>2, <2>2
    <3>2. (s \o t)[i] = t[i - Len(s)]
      BY <1>2, <3>1
    <3> QED  BY <3>1, <3>2 DEF Outside
  <2> QED  BY <2>1, <2>2
<1> QED  BY <1>2, <1>3 DEF Outside

\* A transaction that has begun goes on over further steps.
LEMMA OpeningJoins ==
  ASSUME NEW s, NEW t, Opening(s), Outside(t)
  PROVE  Opening(s \o t)
<1>1. s \in Seq(Steps) /\ t \in Seq(Steps)
  BY DEF Outside, Opening
<1>2. /\ s \o t \in Seq(Steps) /\ Len(s \o t) = Len(s) + Len(t) /\ Len(s) \in Nat /\ Len(t) \in Nat
      /\ \A i \in 1 .. Len(s) : (s \o t)[i] = s[i]
      /\ \A i \in 1 .. Len(t) : (s \o t)[Len(s) + i] = t[i]
      /\ \A i \in 1 .. Len(s \o t) : i \notin 1 .. Len(s) => i - Len(s) \in 1 .. Len(t) /\ i = Len(s) + (i - Len(s))
  BY <1>1, StepsJoin
<1>3. ASSUME NEW i \in 2 .. Len(s \o t) PROVE (s \o t)[i].does \notin {"begin", "commit", "discard"}
  <2>1. CASE i \in 1 .. Len(s)
    <3>1. i \in 2 .. Len(s)
      BY <2>1
    <3> QED  BY <1>2, <2>1, <3>1 DEF Opening
  <2>2. CASE i \notin 1 .. Len(s)
    <3>1. i - Len(s) \in 1 .. Len(t) /\ i = Len(s) + (i - Len(s))
      BY <1>2, <2>2
    <3>2. (s \o t)[i] = t[i - Len(s)]
      BY <1>2, <3>1
    <3> QED  BY <3>1, <3>2 DEF Outside
  <2> QED  BY <2>1, <2>2
<1>4. (s \o t)[1].does = "begin" /\ Len(s \o t) >= 1
  <2>1. 1 \in 1 .. Len(s) /\ s[1].does = "begin"
    BY <1>2 DEF Opening
  <2> QED  BY <1>2, <2>1
<1> QED  BY <1>2, <1>3, <1>4 DEF Opening

\* What comes before a transaction moves its brackets, what comes after leaves them.
LEMMA WholeJoins ==
  ASSUME NEW s, NEW t, Outside(s), Whole(t)
  PROVE  Whole(s \o t)
<1>1. s \in Seq(Steps) /\ t \in Seq(Steps) /\ Len(t) >= 1
  BY DEF Outside, Whole
<1>2. /\ s \o t \in Seq(Steps) /\ Len(s \o t) = Len(s) + Len(t) /\ Len(s) \in Nat /\ Len(t) \in Nat
      /\ \A i \in 1 .. Len(s) : (s \o t)[i] = s[i]
      /\ \A i \in 1 .. Len(t) : (s \o t)[Len(s) + i] = t[i]
      /\ \A i \in 1 .. Len(s \o t) : i \notin 1 .. Len(s) => i - Len(s) \in 1 .. Len(t) /\ i = Len(s) + (i - Len(s))
  BY <1>1, StepsJoin
<1>3. PICK b, e \in 0 .. Len(t) : Brackets(t, b, e)
  BY DEF Whole
<1> DEFINE st == s \o t
           c == IF e = 0 THEN 0 ELSE Len(s) + b
           f == IF e = 0 THEN 0 ELSE Len(s) + e
<1>4. c \in 0 .. Len(st) /\ f \in 0 .. Len(st) /\ ((0 < c /\ c < f) \/ (c = 0 /\ f = 0))
  BY <1>2, <1>3 DEF Brackets
<1>5. ASSUME NEW i \in 1 .. Len(st)
      PROVE  (st[i].does = "begin" <=> i = c) /\ (st[i].does \in {"commit", "discard"} <=> i = f)
  <2>1. CASE i \in 1 .. Len(s)
    <3>1. st[i].does \notin {"begin", "commit", "discard"}
      BY <1>2, <2>1 DEF Outside
    <3>2. i # c /\ i # f
      BY <1>2, <1>3, <2>1 DEF Brackets
    <3> QED  BY <3>1, <3>2
  <2>2. CASE i \notin 1 .. Len(s)
    <3>1. i - Len(s) \in 1 .. Len(t) /\ i = Len(s) + (i - Len(s))
      BY <1>2, <2>2
    <3>2. st[i] = t[i - Len(s)]
      BY <1>2, <3>1
    <3>3. i = c <=> i - Len(s) = b
      BY <1>2, <1>3, <3>1 DEF Brackets
    <3>4. i = f <=> i - Len(s) = e
      BY <1>2, <1>3, <3>1 DEF Brackets
    <3> HIDE DEF c, f, st
    <3> QED  BY <1>3, <3>1, <3>2, <3>3, <3>4 DEF Brackets
  <2> QED  BY <2>1, <2>2
<1>6. Brackets(st, c, f) /\ Len(st) >= 1 /\ st \in Seq(Steps)
  <2>1. Len(st) >= 1 /\ st \in Seq(Steps)
    BY <1>1, <1>2
  <2> HIDE DEF st, c, f
  <2> QED  BY <1>4, <1>5, <2>1 DEF Brackets
<1>7. c \in 0 .. Len(st) /\ f \in 0 .. Len(st)
  BY <1>4
<1> HIDE DEF st, c, f
<1>8. Whole(st)
  BY <1>6, <1>7 DEF Whole
<1> QED  BY <1>8 DEF st

\* A transaction that was begun is whole once it is ended.
LEMMA WholeGoesOn ==
  ASSUME NEW s, NEW t, Whole(s), Outside(t)
  PROVE  Whole(s \o t)
<1>1. s \in Seq(Steps) /\ t \in Seq(Steps) /\ Len(s) >= 1
  BY DEF Outside, Whole
<1>2. /\ s \o t \in Seq(Steps) /\ Len(s \o t) = Len(s) + Len(t) /\ Len(s) \in Nat /\ Len(t) \in Nat
      /\ \A i \in 1 .. Len(s) : (s \o t)[i] = s[i]
      /\ \A i \in 1 .. Len(t) : (s \o t)[Len(s) + i] = t[i]
      /\ \A i \in 1 .. Len(s \o t) : i \notin 1 .. Len(s) => i - Len(s) \in 1 .. Len(t) /\ i = Len(s) + (i - Len(s))
  BY <1>1, StepsJoin
<1>3. PICK b, e \in 0 .. Len(s) : Brackets(s, b, e)
  BY DEF Whole
<1> DEFINE st == s \o t
<1>4. ASSUME NEW i \in 1 .. Len(st)
      PROVE  (st[i].does = "begin" <=> i = b) /\ (st[i].does \in {"commit", "discard"} <=> i = e)
  <2>1. CASE i \in 1 .. Len(s)
    BY <1>2, <1>3, <2>1 DEF Brackets
  <2>2. CASE i \notin 1 .. Len(s)
    <3>1. i - Len(s) \in 1 .. Len(t) /\ i = Len(s) + (i - Len(s))
      BY <1>2, <2>2
    <3>2. st[i] = t[i - Len(s)]
      BY <1>2, <3>1
    <3>3. i # b /\ i # e
      BY <1>3, <2>2
    <3> QED  BY <3>1, <3>2, <3>3 DEF Outside
  <2> QED  BY <2>1, <2>2
<1>5. b \in 0 .. Len(st) /\ e \in 0 .. Len(st) /\ Len(st) >= 1 /\ st \in Seq(Steps)
  BY <1>1, <1>2, <1>3
<1>6. (0 < b /\ b < e) \/ (b = 0 /\ e = 0)
  BY <1>3 DEF Brackets
<1> HIDE DEF st
<1>7. Brackets(st, b, e)
  BY <1>4, <1>5, <1>6 DEF Brackets
<1>8. Whole(st)
  BY <1>5, <1>7 DEF Whole
<1> QED  BY <1>8 DEF st

\* The same for a transaction that ends with its path.
LEMMA WholeEnds ==
  ASSUME NEW s, NEW last \in {Commit, Discard}, Opening(s)
  PROVE  Whole(s \o <<last>>)
<1> DEFINE t == <<last>>
           st == s \o t
<1>1. t \in Seq(Steps) /\ Len(t) = 1 /\ t[1] = last /\ last.does \in {"commit", "discard"}
  BY DEF Steps, Commit, Discard
<1>2. /\ st \in Seq(Steps) /\ Len(st) = Len(s) + 1 /\ Len(s) \in Nat
      /\ \A i \in 1 .. Len(s) : st[i] = s[i]
      /\ st[Len(s) + 1] = last
  <2>1. s \in Seq(Steps)
    BY DEF Opening
  <2>2. 1 \in 1 .. Len(t)
    BY <1>1
  <2> HIDE DEF t
  <2> QED  BY <1>1, <2>1, <2>2, StepsJoin
<1>3. Len(s) >= 1 /\ s[1].does = "begin"
      /\ \A i \in 2 .. Len(s) : s[i].does \notin {"begin", "commit", "discard"}
  BY DEF Opening
<1> HIDE DEF st
<1>4. ASSUME NEW i \in 1 .. Len(st)
      PROVE  (st[i].does = "begin" <=> i = 1) /\ (st[i].does \in {"commit", "discard"} <=> i = Len(s) + 1)
  <2>1. CASE i = 1
    BY <1>2, <1>3, <2>1
  <2>2. CASE i \in 2 .. Len(s)
    BY <1>2, <1>3, <2>2
  <2>3. CASE i = Len(s) + 1
    BY <1>1, <1>2, <1>3, <2>3
  <2> QED  BY <1>2, <2>1, <2>2, <2>3
<1>5. Brackets(st, 1, Len(s) + 1)
  BY <1>2, <1>3, <1>4 DEF Brackets
<1>6. 1 \in 0 .. Len(st) /\ Len(s) + 1 \in 0 .. Len(st) /\ Len(st) >= 1 /\ st \in Seq(Steps)
  BY <1>2, <1>3
<1>7. Whole(st)
  BY <1>5, <1>6 DEF Whole
<1> QED  BY <1>7 DEF st

\* A path without a transaction has none to end.
LEMMA OutsideIsWhole ==
  ASSUME NEW s, Outside(s), Len(s) >= 1
  PROVE  Whole(s)
<1>1. s \in Seq(Steps) /\ Len(s) \in Nat
  BY DEF Outside
<1>2. Brackets(s, 0, 0)
  BY <1>1 DEF Outside, Brackets
<1> QED  BY <1>1, <1>2 DEF Whole

\* Every path is a sequence of steps with at most one transaction, begun and ended once.
LEMMA PathsAreWhole ==
  ASSUME NEW c \in DOMAIN StepsOf
  PROVE  Whole(StepsOf[c])
<1> USE DEF Steps, Begin, Core, Told, Commit, Discard, Points
<1>1. \A p \in Points : Outside(<<Told(p)>>) /\ Len(<<Told(p)>>) = 1
  BY DEF Outside
<1>2. Outside(<<Core>>) /\ Len(<<Core>>) = 1
  BY DEF Outside
<1>3. \A p \in Points : Outside(<<Told(p), Core>>) /\ Len(<<Told(p), Core>>) = 2
  BY DEF Outside
<1> HIDE DEF Steps, Begin, Core, Told, Commit, Discard
<1>4. Outside(TellSessionCreate(<<Core>>)) /\ Whole(TellSessionCreate(<<Core>>))
  <2>1. Outside(<<Told("beforeSessionCreate")>> \o <<Core>>)
    BY <1>1, <1>2, OutsideJoins
  <2>2. Whole(<<Told("beforeSessionCreate")>> \o <<Core>>)
    BY <1>1, <1>2, OutsideIsWhole, WholeGoesOn
  <2> QED  BY <1>1, <2>1, <2>2, OutsideJoins, WholeGoesOn DEF TellSessionCreate
<1>5. \A p \in Points : Whole(<<Told(p), Core>>)
  <2> TAKE p \in Points
  <2>1. Outside(<<Told(p), Core>>) /\ Len(<<Told(p), Core>>) >= 1
    BY <1>3
  <2> QED  BY <2>1, OutsideIsWhole
<1>6. Whole(PasswordSignIn) /\ Whole(PasskeySignIn)
  <2>1. Whole(<<Told("beforeSignIn"), Core>> \o TellSessionCreate(<<Core>>))
    BY <1>4, <1>5, WholeGoesOn
  <2> QED  BY <1>1, <2>1, WholeGoesOn DEF PasswordSignIn, PasskeySignIn
<1>7. Whole(SecondFactor)
  BY <1>1, <1>4, WholeGoesOn DEF SecondFactor
<1>8. ASSUME NEW derived \in BOOLEAN PROVE Opening(Registration(derived))
  <2> DEFINE s == <<Begin, Core, Told("afterUserCreate"), Core>>
             more == IF derived THEN <<Core>> ELSE <<>>
  <2>1. Opening(s)
    BY DEF Opening, Steps, Begin, Core, Told, Commit, Discard, Points
  <2>2. Outside(more)
    <3>1. Outside(<<>>)
      BY DEF Outside
    <3> QED  BY <1>2, <3>1
  <2> HIDE DEF s, more
  <2>3. Opening((s \o TellSessionCreate(<<Core>>)) \o more)
    BY <1>4, <2>1, <2>2, OpeningJoins
  <2> QED  BY <2>3 DEF Registration, s, more
<1>9. ASSUME NEW s, Opening(s), NEW last \in {Commit, Discard}, NEW p \in Points
      PROVE  Whole(<<Told(p)>> \o s \o <<last>>)
  <2>1. Whole(s \o <<last>>)
    BY <1>9, WholeEnds
  <2>2. Whole(<<Told(p)>> \o (s \o <<last>>))
    BY <1>1, <2>1, WholeJoins
  <2>3. s \in Seq(Steps) /\ <<last>> \in Seq(Steps) /\ <<Told(p)>> \in Seq(Steps)
    BY <1>1, <1>9 DEF Outside, Opening, Steps
  <2>4. <<Told(p)>> \o (s \o <<last>>) = (<<Told(p)>> \o s) \o <<last>>
    BY <2>3, ConcatAssociative
  <2> QED  BY <2>2, <2>4
<1>10. Whole(SignUp) /\ Whole(SignUpWithoutPassword) /\ Whole(SignUpCover)
  BY <1>8, <1>9 DEF SignUp, SignUpWithoutPassword, SignUpCover
<1>11. Whole(MagicLink)
  <2> DEFINE s == <<Told("beforeSignIn"), Core, Begin, Core, Told("beforeSessionRevoke"), Core, Commit>>
  <2>1. s \in Seq(Steps) /\ Len(s) = 7 /\ Brackets(s, 3, 7)
    BY DEF Brackets, Begin, Core, Told, Commit, Steps, Discard, Points
  <2> HIDE DEF s
  <2>2. Whole(s)
    <3>1. 3 \in 0 .. Len(s) /\ 7 \in 0 .. Len(s) /\ Len(s) >= 1
      BY <2>1
    <3> QED  BY <2>1, <3>1 DEF Whole
  <2>3. Whole((s \o TellSessionCreate(<<Core>>)) \o <<Told("afterSignIn")>>)
    BY <1>1, <1>4, <2>2, WholeGoesOn
  <2> QED  BY <2>3 DEF MagicLink, s
<1>12. Whole(Reset)
  <2>1. Reset \in Seq(Steps) /\ Len(Reset) = 9 /\ Brackets(Reset, 1, 8)
    BY DEF Reset, Brackets, Begin, Core, Told, Commit, Steps, Discard, Points
  <2>2. 1 \in 0 .. Len(Reset) /\ 8 \in 0 .. Len(Reset) /\ Len(Reset) >= 1
    BY <2>1
  <2> QED  BY <2>1, <2>2 DEF Whole
<1>13. Whole(ChangePassword)
  <2> DEFINE s == <<Begin, Core, Told("beforeSessionRevoke"), Core, Core, Commit>>
  <2>1. s \in Seq(Steps) /\ Len(s) = 6 /\ Brackets(s, 1, 6)
    BY DEF Brackets, Begin, Core, Told, Commit, Steps, Discard, Points
  <2> HIDE DEF s
  <2>2. Whole(s)
    <3>1. 1 \in 0 .. Len(s) /\ 6 \in 0 .. Len(s) /\ Len(s) >= 1
      BY <2>1
    <3> QED  BY <2>1, <3>1 DEF Whole
  <2>3. Whole((<<Told("beforeSessionCreate")>> \o s) \o <<Told("afterSessionCreate")>>)
    BY <1>1, <2>2, WholeJoins, WholeGoesOn
  <2> QED  BY <2>3 DEF ChangePassword, TellSessionCreate, s
<1>14. Whole(OAuthSignUp)
  <2> DEFINE s == <<Told("beforeSignIn"), Begin, Core, Told("beforeUserCreate"), Core,
                    Told("afterUserCreate"), Core, Commit>>
  <2>1. s \in Seq(Steps) /\ Len(s) = 8 /\ Brackets(s, 2, 8)
    BY DEF Brackets, Begin, Core, Told, Commit, Steps, Discard, Points
  <2> HIDE DEF s
  <2>2. Whole(s)
    <3>1. 2 \in 0 .. Len(s) /\ 8 \in 0 .. Len(s) /\ Len(s) >= 1
      BY <2>1
    <3> QED  BY <2>1, <3>1 DEF Whole
  <2>3. Whole((s \o TellSessionCreate(<<Core>>)) \o <<Told("afterSignIn")>>)
    BY <1>1, <1>4, <2>2, WholeGoesOn
  <2> QED  BY <2>3 DEF OAuthSignUp, s
<1>15. Whole(OAuthLink)
  <2>1. Outside(<<Core, Told("beforeSessionRevoke")>>)
    BY DEF Outside, Steps, Begin, Core, Told, Commit, Discard, Points
  <2> QED  BY <1>4, <2>1, WholeJoins DEF OAuthLink
<1>16. Whole(Revocation)
  <2>1. Outside(Revocation) /\ Len(Revocation) = 3
    BY DEF Revocation, Outside, Steps, Begin, Core, Told, Commit, Discard, Points
  <2> QED  BY <2>1, OutsideIsWhole
<1> QED  BY <1>6, <1>7, <1>10, <1>11, <1>12, <1>13, <1>14, <1>15, <1>16 DEF StepsOf

\* Only the cover discards, and that is all it does at last.
LEMMA DiscardIsLast ==
  ASSUME NEW c \in DOMAIN StepsOf, NEW i \in 1 .. Len(StepsOf[c]), StepsOf[c][i].does = "discard"
  PROVE  i = Len(StepsOf[c])
<1> DEFINE T == {step \in Steps : step.does # "discard"}
<1>1. \A s, t \in Seq(T) : s \o t \in Seq(T)
  <2> HIDE DEF T
  <2> QED  OBVIOUS
<1>2. Core \in T /\ Begin \in T /\ Commit \in T /\ \A p \in Points : Told(p) \in T
  BY DEF Steps, Core, Begin, Commit, Told, Discard
<1> HIDE DEF T
<1>3. \A x \in T : <<x>> \in Seq(T)
  OBVIOUS
<1>4. \A x, y \in T : <<x, y>> \in Seq(T)
  OBVIOUS
<1> USE DEF Points
<1>5. \A issue \in Seq(T) : TellSessionCreate(issue) \in Seq(T)
  BY <1>1, <1>2, <1>3 DEF TellSessionCreate
<1>6. \A derived \in BOOLEAN : Registration(derived) \in Seq(T)
  <2>1. <<Begin, Core, Told("afterUserCreate"), Core>> \in Seq(T) /\ <<>> \in Seq(T)
    BY <1>2
  <2> QED  BY <1>1, <1>2, <1>3, <1>5, <2>1 DEF Registration
<1>7. PasswordSignIn \in Seq(T) /\ PasskeySignIn \in Seq(T) /\ SecondFactor \in Seq(T)
  BY <1>1, <1>2, <1>3, <1>4, <1>5 DEF PasswordSignIn, PasskeySignIn, SecondFactor
<1>8. SignUp \in Seq(T) /\ SignUpWithoutPassword \in Seq(T)
  BY <1>1, <1>2, <1>3, <1>6 DEF SignUp, SignUpWithoutPassword
<1>9. MagicLink \in Seq(T) /\ Reset \in Seq(T)
  <2>1. <<Told("beforeSignIn"), Core, Begin, Core, Told("beforeSessionRevoke"), Core, Commit>> \in Seq(T)
        /\ Reset \in Seq(T)
    BY <1>2 DEF Reset
  <2> QED  BY <1>1, <1>2, <1>3, <1>5, <2>1 DEF MagicLink
<1>10. ChangePassword \in Seq(T) /\ OAuthSignUp \in Seq(T)
  <2>1. <<Begin, Core, Told("beforeSessionRevoke"), Core, Core, Commit>> \in Seq(T)
        /\ <<Told("beforeSignIn"), Begin, Core, Told("beforeUserCreate"), Core,
             Told("afterUserCreate"), Core, Commit>> \in Seq(T)
    BY <1>2
  <2> QED  BY <1>1, <1>2, <1>3, <1>5, <2>1 DEF ChangePassword, OAuthSignUp
<1>11. OAuthLink \in Seq(T) /\ Revocation \in Seq(T)
  <2>1. Revocation \in Seq(T)
    BY <1>2 DEF Revocation
  <2> QED  BY <1>1, <1>2, <1>3, <1>4, <1>5, <2>1 DEF OAuthLink
<1>12. CASE StepsOf[c] \in Seq(T)
  <2>1. StepsOf[c][i] \in T
    BY <1>12
  <2> QED  BY <2>1 DEF T
<1>13. CASE StepsOf[c] = SignUpCover
  <2> DEFINE s == <<Told("beforeUserCreate")>> \o Registration(TRUE)
  <2>1. s \in Seq(T)
    BY <1>1, <1>2, <1>3, <1>6
  <2>2. StepsOf[c] = s \o <<Discard>>
    BY <1>13 DEF SignUpCover
  <2> HIDE DEF s
  <2>3. Len(s \o <<Discard>>) = Len(s) + 1 /\ Len(s) \in Nat
        /\ \A j \in 1 .. Len(s) : (s \o <<Discard>>)[j] = s[j] /\ s[j] \in T
    BY <2>1
  <2>4. i \notin 1 .. Len(s)
    BY <2>2, <2>3 DEF T
  <2> QED  BY <2>2, <2>3, <2>4
<1>14. StepsOf[c] \in Seq(T) \/ StepsOf[c] = SignUpCover
  BY <1>7, <1>8, <1>9, <1>10, <1>11 DEF StepsOf
<1> QED  BY <1>12, <1>13, <1>14

(***************************************************************************)
(* What stays                                                              *)
(***************************************************************************)
\* A sequence with another last element.
LastIs(s, x, new) ==
    Len(new) = Len(s) /\ new[Len(s)] = x /\ \A i \in 1 .. (Len(s) - 1) : new[i] = s[i]

\* A sequence without its last element, and with one after it.
LEMMA FrontAndLast ==
  ASSUME NEW T, NEW s \in Seq(T), s # <<>>
  PROVE  /\ Len(s) \in Nat /\ Len(s) >= 1 /\ Last(s) = s[Len(s)] /\ Last(s) \in T
         /\ Front(s) \in Seq(T) /\ Len(Front(s)) = Len(s) - 1
         /\ \A i \in 1 .. (Len(s) - 1) : Front(s)[i] = s[i]
<1>1. Len(s) \in Nat /\ Len(s) >= 1
  OBVIOUS
<1>2. Last(s) = s[Len(s)] /\ Last(s) \in T
  BY <1>1 DEF Last
<1> DEFINE m == Len(s) - 1
<1>3. m \in Int /\ m >= 0 /\ \A i \in 1 .. m : s[i] \in T
  BY <1>1
<1>4. /\ SubSeq(s, 1, m) \in Seq(T) /\ Len(SubSeq(s, 1, m)) = IF 1 <= m THEN m - 1 + 1 ELSE 0
      /\ \A i \in 1 .. m - 1 + 1 : SubSeq(s, 1, m)[i] = s[1 + i - 1]
  <2> HIDE DEF m
  <2> QED  BY <1>3, SubSeqProperties
<1>5. Len(SubSeq(s, 1, m)) = m
  <2> HIDE DEF m
  <2> QED  BY <1>3, <1>4
<1>6. ASSUME NEW i \in 1 .. m PROVE SubSeq(s, 1, m)[i] = s[i]
  <2>1. m - 1 + 1 = m /\ 1 + i - 1 = i
    BY <1>3
  <2> HIDE DEF m
  <2>2. SubSeq(s, 1, m)[i] = s[1 + i - 1]
    BY <1>4, <2>1
  <2> QED  BY <2>1, <2>2
<1> QED  BY <1>1, <1>2, <1>4, <1>5, <1>6 DEF Front

\* Replacing the last frame keeps the ones below it.
LEMMA LastIsReplaced ==
  ASSUME NEW T, NEW s \in Seq(T), s # <<>>, NEW x \in T
  PROVE  Append(Front(s), x) \in Seq(T) /\ LastIs(s, x, Append(Front(s), x))
<1> DEFINE f == Front(s)
<1>1. /\ Len(s) \in Nat /\ f \in Seq(T) /\ Len(f) = Len(s) - 1
      /\ \A i \in 1 .. (Len(s) - 1) : f[i] = s[i]
  BY FrontAndLast
<1> HIDE DEF f
<1>2. /\ Append(f, x) \in Seq(T) /\ Len(Append(f, x)) = Len(f) + 1
      /\ \A i \in 1 .. Len(f) : Append(f, x)[i] = f[i]
      /\ Append(f, x)[Len(f) + 1] = x
  BY <1>1, AppendProperties
<1>3. Append(f, x) \in Seq(T) /\ LastIs(s, x, Append(f, x))
  BY <1>1, <1>2 DEF LastIs
<1> QED  BY <1>3 DEF f

\* The same frames, whatever they have left to call.
Reframed(r, new) ==
    /\ new \in [Request -> Seq(Frames)]
    /\ \A q \in Request : q # r => new[q] = stack[q]
    /\ Len(new[r]) = Len(stack[r])
    /\ \A i \in 1 .. Len(stack[r]) : new[r][i].lease = stack[r][i].lease

\* The innermost call goes on: its frame keeps its lease.
LEMMA AgendaMoves ==
  ASSUME TypeOK, NEW r \in Request, stack[r] # <<>>, NEW agenda \in Seq(Calling)
  PROVE  Reframed(r, WithAgenda(r, agenda))
<1> DEFINE s == stack[r]
           x == [Last(s) EXCEPT !.agenda = agenda]
           new == WithAgenda(r, agenda)
<1>1. stack \in [Request -> Seq(Frames)] /\ s \in Seq(Frames)
  BY DEF TypeOK
<1>2. Last(s) \in Frames
  <2>1. s # <<>>
    OBVIOUS
  <2> HIDE DEF s
  <2>2. Last(s) = s[Len(s)] /\ Len(s) \in 1 .. Len(s)
    BY <1>1, <2>1 DEF Last
  <2> QED  BY <1>1, <2>2
<1>3. x \in Frames /\ x.lease = Last(s).lease
  BY <1>2 DEF Frames
<1>4. Append(Front(s), x) \in Seq(Frames) /\ LastIs(s, x, Append(Front(s), x)) /\ Last(s) = s[Len(s)]
      /\ Len(s) \in Nat
  <2>1. s # <<>>
    OBVIOUS
  <2> HIDE DEF s, x
  <2> QED  BY <1>1, <1>3, <2>1, LastIsReplaced, FrontAndLast
<1>5. new = [stack EXCEPT ![r] = Append(Front(s), x)]
  BY DEF WithAgenda
<1> HIDE DEF s, x, new
<1>6. new[r] = Append(Front(s), x) /\ \A q \in Request : q # r => new[q] = stack[q]
  BY <1>1, <1>5
<1>7. new \in [Request -> Seq(Frames)]
  BY <1>1, <1>4, <1>5
<1>8. \A i \in 1 .. Len(s) : new[r][i].lease = s[i].lease
  <2> TAKE i \in 1 .. Len(s)
  <2>1. CASE i = Len(s)
    BY <1>3, <1>4, <1>6, <2>1 DEF LastIs
  <2>2. CASE i # Len(s)
    <3>1. i \in 1 .. (Len(s) - 1)
      BY <1>4, <2>2
    <3> QED  BY <1>4, <1>6, <3>1 DEF LastIs
  <2> QED  BY <2>1, <2>2
<1> QED  BY <1>4, <1>6, <1>7, <1>8 DEF Reframed, LastIs, s, new

\* Checks keep when they were asked, and a grant comes after all of them.
LoginKept ==
    /\ Len(passes') >= Len(passes)
    /\ \A i \in 1 .. Len(passes) : passes'[i].askedAt = passes[i].askedAt
    /\ granted' # granted => \A i \in 1 .. Len(passes) : passes[i].askedAt <= granted'

\* What stays of a request that did nothing: its path,
LEMMA PathStays ==
  ASSUME NEW q \in Request, OnPath(q), setting' = setting, at'[q] = at[q],
         answer'[q] = answer[q], mine'[q] = mine[q], stack[q] = <<>> => stack'[q] = <<>>
  PROVE  OnPath(q)'
BY DEF OnPath, Lent, Now, course, Brackets

\* The frames that are left are those there were, or have a lease that was not given out before.
FramesKept(q) ==
    \A i \in 1 .. Len(stack'[q]) :
        \/ stack'[q][i].lease = 0 \/ stack'[q][i].lease > leases[q]
        \/ \E j \in 1 .. Len(stack[q]) : stack[q][j].lease = stack'[q][i].lease

\* no lease comes back,
LEMMA UsableStays ==
  ASSUME NEW q \in Request, TypeOK, TypeOK', NEW task \in Tasks, FramesKept(q),
         task.lease # 0, task.lease <= leases[q], Usable(q, task)'
  PROVE  Usable(q, task)
<1>1. stack[q] \in Seq(Frames) /\ stack'[q] \in Seq(Frames) /\ leases[q] \in Nat /\ task.lease \in Nat
  BY DEF TypeOK, Tasks
<1>2. DOMAIN stack[q] = 1 .. Len(stack[q]) /\ DOMAIN stack'[q] = 1 .. Len(stack'[q])
  BY <1>1
<1>3. PICK i \in 1 .. Len(stack'[q]) : stack'[q][i].lease = task.lease
  BY <1>2 DEF Usable
<1>4. \E j \in 1 .. Len(stack[q]) : stack[q][j].lease = task.lease
  BY <1>1, <1>3 DEF FramesKept
<1> QED  BY <1>2, <1>4 DEF Usable

\* a statement under way keeps to its connection,
LEMMA TaskStays ==
  ASSUME NEW q \in Request, TypeOK, TypeOK', NEW task \in Tasks, TaskFits(q, task), setting' = setting,
         leases'[q] >= leases[q], FramesKept(q), mine'[q] = mine[q] \/ stack'[q] = <<>>
  PROVE  TaskFits(q, task)'
<1>1. leases[q] \in Nat /\ leases'[q] \in Nat /\ task.lease \in Nat
  BY DEF TypeOK, Tasks
<1>2. (task.stages \in LeftOf(task))'
  BY DEF TaskFits, LeftOf, mode
<1>3. task.lease <= leases'[q] /\ task.write[1] = q
  BY <1>1 DEF TaskFits
<1>4. ASSUME task.lease # 0 PROVE task.on \in Conn /\ (Usable(q, task)' => task.on = mine'[q])
  <2>1. task.on \in Conn /\ (Usable(q, task) => task.on = mine[q]) /\ task.lease <= leases[q]
    BY <1>4 DEF TaskFits
  <2>2. Usable(q, task)' => Usable(q, task)
    BY <1>4, <2>1, UsableStays
  <2>3. stack'[q] = <<>> => ~Usable(q, task)'
    BY DEF Usable
  <2> QED  BY <2>1, <2>2, <2>3
<1> QED  BY <1>2, <1>3, <1>4 DEF TaskFits

\* all of them do,
LEMMA TasksStay ==
  ASSUME NEW q \in Request, TypeOK, TypeOK', TasksFit(q), setting' = setting,
         leases'[q] >= leases[q], FramesKept(q), mine'[q] = mine[q] \/ stack'[q] = <<>>,
         Underway(q)' \subseteq Underway(q)
  PROVE  TasksFit(q)'
<1>1. \A task \in Underway(q) : task \in Tasks
  BY DEF Underway, TypeOK
<1>2. ASSUME NEW task \in Underway(q)' PROVE TaskFits(q, task)'
  <2>1. task \in Underway(q) /\ task \in Tasks
    BY <1>1, <1>2
  <2>2. TaskFits(q, task)
    BY <2>1 DEF TasksFit
  <2> QED  BY <2>1, <2>2, TaskStays
<1> QED  BY <1>2 DEF TasksFit

\* the connection is undisturbed,
LEMMA UndisturbedStays ==
  ASSUME NEW q \in Request, Undisturbed(q), setting' = setting, left'[q] = Nothing => left[q] = Nothing,
         mine'[q] = mine[q], running'[q] = running[q], Lent(q) => conn'[mine[q]] = conn[mine[q]]
  PROVE  Undisturbed(q)'
BY DEF Undisturbed, Orderly, Lent, mode, Tidy, Within, Stage

\* what its hooks were told is accounted for,
LEMMA AccountedStays ==
  ASSUME NEW q \in Request, Accounted(q), left'[q] = Nothing => left[q] = Nothing,
         answer'[q] = Nothing => answer[q] = Nothing, mine'[q] = mine[q],
         Lent(q) => conn'[mine[q]] = conn[mine[q]],
         WrittenBy(q, told') = WrittenBy(q, told), WrittenBy(q, landed') = WrittenBy(q, landed)
  PROVE  Accounted(q)'
<1>1. Settled(q)' = Settled(q)
  BY DEF Settled, Lent
<1>2. (Orderly(q) /\ answer[q] = Nothing)' => Orderly(q) /\ answer[q] = Nothing
  BY DEF Orderly
<1>3. WrittenBy(q, told)' = WrittenBy(q, told') /\ WrittenBy(q, landed)' = WrittenBy(q, landed')
  BY DEF WrittenBy
<1> QED  BY <1>1, <1>2, <1>3 DEF Accounted

\* it is unharmed,
LEMMA UnharmedStays ==
  ASSUME NEW q \in Request, Unharmed(q), left'[q] = Nothing => left[q] = Nothing,
         outcome'[q] = outcome[q],
         answer'[q] = answer[q] \/ (answer[q] = Nothing /\ answer'[q] # "failed")
  PROVE  Unharmed(q)'
<1>1. Nothing # "vetoed"
  BY NothingAssumption DEF Answers
<1> QED  BY <1>1 DEF Unharmed, Orderly

\* the check a statement awaits stays as recent as it was,
LEMMA CheckStays ==
  ASSUME TypeOK, TypeOK', LoginKept, NEW task, IsTimely(task)
  PROVE  IsTimely(task)'
<1>1. Len(passes) \in Nat /\ Len(passes') \in Nat
  BY DEF TypeOK
<1>2. /\ task.pass \in 1 .. Len(passes) /\ task.calledAt < passes[task.pass].askedAt + Recheck
      /\ Stage(task) = "own" /\ granted # Nothing => passes[task.pass].askedAt <= granted
  BY DEF IsTimely
<1>3. task.pass \in 1 .. Len(passes') /\ passes'[task.pass].askedAt = passes[task.pass].askedAt
  BY <1>1, <1>2 DEF LoginKept
<1>4. granted' # granted => passes[task.pass].askedAt <= granted'
  BY <1>2 DEF LoginKept
<1> QED  BY <1>2, <1>3, <1>4 DEF IsTimely, Stage

\* for every statement,
LEMMA TimelyStays ==
  ASSUME NEW q \in Request, TypeOK, TypeOK', Timely(q), setting' = setting, LoginKept,
         Underway(q)' \subseteq Underway(q)
  PROVE  Timely(q)'
<1>1. ASSUME mode = "login", NEW task \in Underway(q)' PROVE IsTimely(task)'
  BY <1>1, CheckStays DEF Timely
<1> QED  BY <1>1 DEF Timely, mode

\* and its dispatches wait for what they waited for.
LEMMA DispatchingStays ==
  ASSUME NEW q \in Request, TypeOK, TypeOK', Dispatching(q), leases'[q] >= leases[q], mine'[q] = mine[q],
         Len(stack'[q]) = Len(stack[q]),
         \A i \in 1 .. Len(stack[q]) : stack'[q][i].lease = stack[q][i].lease,
         running'[q] = Nothing \/ (running'[q] = running[q] /\ stack'[q] = stack[q])
  PROVE  Dispatching(q)'
<1>1. stack[q] \in Seq(Frames) /\ stack'[q] \in Seq(Frames) /\ leases[q] \in Nat /\ leases'[q] \in Nat
  BY DEF TypeOK
<1>2. DOMAIN stack[q] = 1 .. Len(stack[q]) /\ DOMAIN stack'[q] = 1 .. Len(stack[q])
      /\ \A i \in 1 .. Len(stack[q]) : stack[q][i].lease \in Nat
  <2>1. \A frame \in Frames : frame.lease \in Nat
    BY DEF Frames
  <2>2. \A i \in 1 .. Len(stack[q]) : stack[q][i] \in Frames
    BY <1>1
  <2> QED  BY <1>1, <2>1, <2>2
<1>3. \A i \in DOMAIN stack'[q] :
          stack'[q][i].lease <= leases'[q] /\ (stack'[q][i].lease # 0 <=> mine'[q] # Nothing)
  BY <1>1, <1>2 DEF Dispatching, Lent
<1>4. running'[q] # Nothing =>
          /\ stack'[q] # <<>> /\ Top(q)'.agenda # <<>>
          /\ running'[q].lease = Top(q)'.lease /\ running'[q].on = mine'[q]
  BY DEF Dispatching, Top
<1> QED  BY <1>3, <1>4 DEF Dispatching, Lent

\* What no step of another request changes.
Same(q) ==
    /\ setting' = setting /\ at'[q] = at[q] /\ answer'[q] = answer[q] /\ mine'[q] = mine[q]
    /\ stack'[q] = stack[q] /\ leases'[q] = leases[q] /\ running'[q] = running[q]
    /\ left'[q] = left[q] /\ outcome'[q] = outcome[q]
    /\ Lent(q) => conn'[mine[q]] = conn[mine[q]]
    /\ WrittenBy(q, told') = WrittenBy(q, told) /\ WrittenBy(q, landed') = WrittenBy(q, landed)

\* A request that did nothing fits as before.
LEMMA RequestStays ==
  ASSUME NEW q \in Request, TypeOK, TypeOK', RequestFits(q), Same(q), LoginKept
  PROVE  RequestFits(q)'
<1>1. stack[q] \in Seq(Frames) /\ leases[q] \in Nat
  BY DEF TypeOK
<1>2. FramesKept(q) /\ leases'[q] >= leases[q] /\ Underway(q)' \subseteq Underway(q)
  BY <1>1 DEF FramesKept, Same, Underway
<1>3. OnPath(q)'
  BY PathStays DEF RequestFits, Same
<1>4. Dispatching(q)'
  BY <1>2, DispatchingStays DEF RequestFits, Same
<1>5. TasksFit(q)'
  BY <1>2, TasksStay DEF RequestFits, Same
<1>6. Undisturbed(q)'
  BY UndisturbedStays DEF RequestFits, Same
<1>7. Accounted(q)'
  BY AccountedStays DEF RequestFits, Same
<1>8. Unharmed(q)'
  BY UnharmedStays DEF RequestFits, Same
<1>9. Timely(q)'
  BY <1>2, TimelyStays DEF RequestFits, Same
<1> QED  BY <1>3, <1>4, <1>5, <1>6, <1>7, <1>8, <1>9 DEF RequestFits

(***************************************************************************)
(* The steps of a request                                                  *)
(***************************************************************************)
StaysWell == LoginKept /\ TypeOK' /\ ConnsFit' /\ PassesFit'
GoesWell(r) == StaysWell /\ RequestFits(r)' /\ \A q \in Request : q # r => Same(q)

\* Nothing happens to the others when one request goes on well.
LEMMA AllStay ==
  ASSUME PluginsInv, NEW r \in Request, GoesWell(r)
  PROVE  PluginsInv'
<1>1. ASSUME NEW q \in Request PROVE RequestFits(q)'
  <2>1. CASE q = r
    BY <2>1 DEF GoesWell
  <2>2. CASE q # r
    BY <2>2, RequestStays DEF GoesWell, StaysWell, PluginsInv
  <2> QED  BY <2>1, <2>2
<1> QED  BY <1>1 DEF PluginsInv, GoesWell, StaysWell

\* What stands for nothing is none of the other values.
LEMMA NothingElse ==
  /\ Nothing \notin Request /\ Nothing \notin Conn /\ Nothing \notin Answers /\ Nothing \notin Outcomes
  /\ Nothing \notin Tasks /\ Over \notin Tasks /\ Over # Nothing
  /\ Nothing # "none" /\ Nothing \notin Nat /\ Nothing \notin Refusals
BY NothingAssumption

\* Where a request that is not answered stands.
LEMMA Standing ==
  ASSUME TypeOK, NEW r \in Request, OnPath(r), answer[r] = Nothing
  PROVE  LET steps == StepsOf[course[r]]
         IN  /\ Whole(steps) /\ steps \in Seq(Steps) /\ Len(steps) \in Nat /\ at[r] \in Nat
             /\ at[r] + 1 \in 1 .. Len(steps) /\ Now(r) \in Steps /\ Now(r) = steps[at[r] + 1]
             /\ Now(r).does = "begin" => ~Lent(r)
             /\ Now(r).does \in {"commit", "discard"} => Lent(r)
             /\ Now(r).does = "tell" => Now(r).point \in Points
<1> DEFINE steps == StepsOf[course[r]]
<1>1. course[r] \in Course
  BY DEF TypeOK, Settings, course
<1>2. Whole(steps) /\ steps \in Seq(Steps) /\ Len(steps) \in Nat
  <2>1. Whole(steps)
    BY <1>1, PathsAreWhole, CourseAssumption
  <2> QED  BY <2>1 DEF Whole
<1>3. at[r] \in Nat /\ at[r] + 1 \in 1 .. Len(steps)
  BY <1>2 DEF TypeOK, OnPath
<1>4. Now(r) = steps[at[r] + 1] /\ Now(r) \in Steps
  <2>1. Now(r) = steps[at[r] + 1]
    BY DEF Now
  <2> HIDE DEF steps
  <2> QED  BY <1>2, <1>3, <2>1
<1>5. PICK b, e \in 0 .. Len(steps) : Brackets(steps, b, e)
  BY <1>2 DEF Whole
<1>6. Lent(r) <=> b <= at[r] /\ at[r] < e
  BY <1>5 DEF OnPath
<1>7. Now(r).does = "begin" => ~Lent(r)
  BY <1>3, <1>4, <1>5, <1>6 DEF Brackets
<1>8. Now(r).does \in {"commit", "discard"} => Lent(r)
  BY <1>3, <1>4, <1>5, <1>6 DEF Brackets
<1>9. \A step \in Steps : step.does = "tell" => step.point \in Points
  BY DEF Steps, Told, Begin, Core, Commit, Discard
<1> QED  BY <1>2, <1>3, <1>4, <1>7, <1>8, <1>9

\* A step of the path keeps the request on it.
LEMMA PathGoesOn ==
  ASSUME TypeOK, NEW r \in Request, OnPath(r), answer[r] = Nothing, setting' = setting,
         Proceeds(r), stack'[r] = <<>>,
         mine'[r] # Nothing <=> \/ Now(r).does = "begin"
                                \/ Now(r).does \notin {"commit", "discard"} /\ Lent(r)
  PROVE  /\ OnPath(r)' /\ at' \in [Request -> Nat] /\ answer' \in [Request -> Answers \cup {Nothing}]
         /\ \A q \in Request : at'[q] <= Len(StepsOf[course'[q]])
         /\ \A q \in Request : q # r => at'[q] = at[q] /\ answer'[q] = answer[q]
         /\ answer'[r] \in {Nothing, "done"}
<1> DEFINE steps == StepsOf[course[r]]
<1>1. /\ Whole(steps) /\ steps \in Seq(Steps) /\ Len(steps) \in Nat /\ at[r] \in Nat
      /\ at[r] + 1 \in 1 .. Len(steps) /\ Now(r) \in Steps /\ Now(r) = steps[at[r] + 1]
  BY Standing
<1>2. /\ at \in [Request -> Nat] /\ answer \in [Request -> Answers \cup {Nothing}]
      /\ \A q \in Request : at[q] <= Len(StepsOf[course[q]])
  BY DEF TypeOK
<1>3. at' = [at EXCEPT ![r] = at[r] + 1]
      /\ answer' = [answer EXCEPT ![r] = IF at[r] + 1 = Len(steps) THEN "done" ELSE Nothing]
  BY DEF Proceeds
<1>4. course' = course
  BY DEF course
<1> HIDE DEF steps
<1>5. /\ at'[r] = at[r] + 1 /\ answer'[r] = IF at[r] + 1 = Len(steps) THEN "done" ELSE Nothing
      /\ \A q \in Request : q # r => at'[q] = at[q] /\ answer'[q] = answer[q]
  BY <1>2, <1>3
<1>6. /\ at' \in [Request -> Nat] /\ answer' \in [Request -> Answers \cup {Nothing}]
  BY <1>1, <1>2, <1>3 DEF Answers
<1>7. \A q \in Request : at'[q] <= Len(StepsOf[course'[q]])
  BY <1>1, <1>2, <1>4, <1>5 DEF steps
<1>8. Nothing # "done" /\ Nothing # "failed" /\ Nothing # "vetoed"
  BY NothingElse DEF Answers
<1>9. ASSUME NEW b \in 0 .. Len(steps), NEW e \in 0 .. Len(steps), Brackets(steps, b, e)
      PROVE  mine'[r] # Nothing <=> b <= at'[r] /\ at'[r] < e
  <2>1. Lent(r) <=> b <= at[r] /\ at[r] < e
    BY <1>9 DEF OnPath, steps
  <2>2. /\ (Now(r).does = "begin" <=> at[r] + 1 = b)
        /\ (Now(r).does \in {"commit", "discard"} <=> at[r] + 1 = e)
        /\ (0 < b /\ b < e) \/ (b = 0 /\ e = 0)
    BY <1>1, <1>9 DEF Brackets
  <2>3. b \in Nat /\ e \in Nat
    BY <1>1
  <2> QED  BY <1>1, <1>5, <2>1, <2>2, <2>3
<1>10. OnPath(r)'
  <2>1. answer'[r] = Nothing => at'[r] < Len(steps)
    BY <1>1, <1>5, <1>8
  <2> QED  BY <1>4, <1>5, <1>8, <1>9, <2>1 DEF OnPath, Lent, steps
<1> QED  BY <1>5, <1>6, <1>7, <1>10

\* Nothing happens to the plugin login and its checks.
LEMMA Standstill ==
  ASSUME TypeOK, PassesFit, UNCHANGED <<passes, granted, time>>
  PROVE  LoginKept /\ PassesFit'
BY DEF LoginKept, PassesFit, TypeOK

\* No hook runs: nothing is awaited, and what was left running has lost its connection.
LEMMA Quiet ==
  ASSUME TypeOK, NEW r \in Request, RequestFits(r), stack[r] = <<>>
  PROVE  /\ running[r] = Nothing
         /\ Orderly(r) /\ Lent(r) => Tidy(conn[mine[r]])
BY DEF RequestFits, Dispatching, Undisturbed

\* A request without hooks fits when its path and its connection do.
LEMMA QuietFits ==
  ASSUME TypeOK, TypeOK', NEW r \in Request, RequestFits(r), setting' = setting,
         stack[r] = <<>> \/ running[r] = Nothing, stack'[r] = <<>>, leases'[r] = leases[r],
         running'[r] = running[r], left'[r] = left[r], LoginKept, OnPath(r)',
         Orderly(r) /\ mine'[r] # Nothing => Tidy(conn'[mine'[r]]), Accounted(r)', Unharmed(r)'
  PROVE  RequestFits(r)'
<1>1. running[r] = Nothing
  BY Quiet
<1>2. stack'[r] \in Seq(Frames) /\ leases[r] \in Nat
  BY DEF TypeOK
<1>3. Dispatching(r)'
  BY <1>1 DEF Dispatching
<1>4. FramesKept(r) /\ leases'[r] >= leases[r] /\ Underway(r)' \subseteq Underway(r)
  BY <1>2 DEF FramesKept, Underway
<1>5. TasksFit(r)'
  BY <1>4, TasksStay DEF RequestFits
<1>6. Undisturbed(r)'
  BY <1>1 DEF Undisturbed, Orderly, Lent, mode, Tidy
<1>7. Timely(r)'
  BY <1>4, TimelyStays DEF RequestFits
<1> QED  BY <1>3, <1>5, <1>6, <1>7 DEF RequestFits

\* A connection in the pool is one.
LEMMA FreeIsTyped ==
  /\ Free \in Connections
  /\ \A r \in Request : [Free EXCEPT !.holder = r] \in Connections
<1>1. <<>> \in Seq([role : Roles, writes : SUBSET Writes]) /\ {} \in SUBSET Writes /\ "library" \in Roles
  BY DEF Roles
<1>2. Free \in Connections
  BY <1>1 DEF Free, Connections
<1>3. \A r \in Request : \A k \in Connections : [k EXCEPT !.holder = r] \in Connections
  BY DEF Connections
<1> QED  BY <1>2, <1>3

\* begin: a connection is taken from the pool.
LEMMA OpenFits ==
  ASSUME PluginsInv, NEW r \in Request, Open(r)
  PROVE  GoesWell(r)
<1> USE DEF starting, requests, dispatches, statements, login, clock, history
<1>1. /\ answer[r] = Nothing /\ stack[r] = <<>> /\ Now(r).does = "begin" /\ Proceeds(r)
      /\ UNCHANGED <<started, setting, refusal, registered, hooks, stack, leases, running, left,
                     passes, remembered, time, granted, told, landed, outcome>>
  BY DEF Open, IsAt
<1>2. PICK c \in FreeConns : conn' = [conn EXCEPT ![c].holder = r] /\ mine' = [mine EXCEPT ![r] = c]
  BY DEF Open
<1>3. c \in Conn /\ conn[c].holder = Nothing /\ conn[c] = Free /\ conn \in [Conn -> Connections]
      /\ mine \in [Request -> Conn \cup {Nothing}]
  BY <1>2 DEF FreeConns, PluginsInv, TypeOK, Settings, pool, ConnsFit
<1>4. TypeOK /\ OnPath(r) /\ RequestFits(r) /\ ~Lent(r) /\ LoginKept /\ PassesFit'
  BY <1>1, Standing, Standstill DEF PluginsInv, RequestFits
<1>5. /\ OnPath(r)' /\ at' \in [Request -> Nat] /\ answer' \in [Request -> Answers \cup {Nothing}]
      /\ \A q \in Request : at'[q] <= Len(StepsOf[course'[q]])
      /\ \A q \in Request : q # r => at'[q] = at[q] /\ answer'[q] = answer[q]
      /\ answer'[r] \in {Nothing, "done"}
  <2>1. mine'[r] # Nothing
    BY <1>2, <1>3, NothingElse
  <2> QED  BY <1>1, <1>4, <2>1, PathGoesOn
<1>6. conn' \in [Conn -> Connections] /\ conn'[c] = [Free EXCEPT !.holder = r]
      /\ \A d \in Conn : d # c => conn'[d] = conn[d]
  <2>1. [Free EXCEPT !.holder = r] \in Connections
    BY FreeIsTyped
  <2>2. conn' = [conn EXCEPT ![c] = [Free EXCEPT !.holder = r]]
    BY <1>2, <1>3
  <2> QED  BY <1>3, <2>1, <2>2
<1>7. mine' \in [Request -> Conn \cup {Nothing}] /\ mine'[r] = c /\ \A q \in Request : q # r => mine'[q] = mine[q]
  BY <1>2, <1>3
<1>8. TypeOK'
  BY <1>1, <1>5, <1>6, <1>7 DEF PluginsInv, TypeOK, course
<1>9. \A q \in Request : Lent(q) => mine[q] # c /\ mine[q] \in Conn
  BY <1>3, NothingElse DEF PluginsInv, ConnsFit, Lent
<1>10. ConnsFit'
  BY <1>3, <1>6, <1>7, <1>9, NothingElse DEF PluginsInv, ConnsFit, Lent, Free
<1>11. \A q \in Request : q # r => Same(q)
  BY <1>1, <1>5, <1>6, <1>7, <1>9 DEF Same
<1>12. Accounted(r)'
  <2>1. Settled(r) = {} /\ Settled(r)' = {}
    BY <1>4, <1>6, <1>7 DEF Settled, Free, Lent
  <2> QED  BY <1>1, <1>4, <2>1, NothingElse DEF RequestFits, Accounted, Orderly
<1>13. Unharmed(r)'
  BY <1>1, <1>4, <1>5, UnharmedStays, NothingElse DEF RequestFits
<1>14. Tidy(conn'[mine'[r]])
  BY <1>6, <1>7 DEF Tidy, Free
<1>15. RequestFits(r)'
  BY <1>1, <1>4, <1>5, <1>8, <1>12, <1>13, <1>14, QuietFits
<1> QED  BY <1>4, <1>8, <1>10, <1>11, <1>15 DEF GoesWell, StaysWell

\* A core statement on the connection.
LEMMA RunCoreFits ==
  ASSUME PluginsInv, NEW r \in Request, RunCore(r)
  PROVE  GoesWell(r)
<1> USE DEF starting, requests, dispatches, statements, login, clock, history
<1>1. /\ answer[r] = Nothing /\ stack[r] = <<>> /\ Now(r).does = "core" /\ Proceeds(r)
      /\ UNCHANGED <<started, setting, refusal, registered, hooks, stack, leases, running, left, conn,
                     mine, passes, remembered, time, granted, told, landed, outcome>>
  BY DEF RunCore, IsAt
<1>2. TypeOK /\ OnPath(r) /\ RequestFits(r) /\ LoginKept /\ PassesFit'
  BY <1>1, Standstill DEF PluginsInv, RequestFits
<1>3. /\ OnPath(r)' /\ at' \in [Request -> Nat] /\ answer' \in [Request -> Answers \cup {Nothing}]
      /\ \A q \in Request : at'[q] <= Len(StepsOf[course'[q]])
      /\ \A q \in Request : q # r => at'[q] = at[q] /\ answer'[q] = answer[q]
      /\ answer'[r] \in {Nothing, "done"}
  <2>1. mine'[r] # Nothing <=> Lent(r)
    BY <1>1 DEF Lent
  <2> QED  BY <1>1, <1>2, <2>1, PathGoesOn
<1>4. TypeOK'
  BY <1>1, <1>3 DEF PluginsInv, TypeOK, course
<1>5. ConnsFit'
  BY <1>1 DEF PluginsInv, ConnsFit, Lent
<1>6. \A q \in Request : q # r => Same(q)
  BY <1>1, <1>3 DEF Same
<1>7. Accounted(r)'
  BY <1>1, <1>2, AccountedStays DEF RequestFits
<1>8. Unharmed(r)'
  BY <1>1, <1>2, <1>3, UnharmedStays, NothingElse DEF RequestFits
<1>9. Orderly(r) /\ mine'[r] # Nothing => Tidy(conn'[mine'[r]])
  BY <1>1, <1>2, Quiet DEF Lent
<1>10. RequestFits(r)'
  BY <1>1, <1>2, <1>3, <1>4, <1>7, <1>8, <1>9, QuietFits
<1> QED  BY <1>2, <1>4, <1>5, <1>6, <1>10 DEF GoesWell, StaysWell

\* The connection of an ended transaction is free, and every other as it was.
LEMMA ConnIsGivenBack ==
  ASSUME PluginsInv, NEW r \in Request, Lent(r), NEW how \in Outcomes, Ends(r, how)
  PROVE  /\ conn' \in [Conn -> Connections] /\ mine' \in [Request -> Conn \cup {Nothing}]
         /\ outcome' \in [Request -> Outcomes \cup {Nothing}]
         /\ mine'[r] = Nothing /\ outcome'[r] = how /\ ConnsFit'
         /\ \A q \in Request : q # r => /\ mine'[q] = mine[q] /\ outcome'[q] = outcome[q]
                                        /\ Lent(q) => conn'[mine[q]] = conn[mine[q]]
<1>1. /\ conn \in [Conn -> Connections] /\ mine \in [Request -> Conn \cup {Nothing}]
      /\ outcome \in [Request -> Outcomes \cup {Nothing}] /\ mine[r] \in Conn
  BY DEF PluginsInv, TypeOK, Lent
<1>2. /\ mine' = [mine EXCEPT ![r] = Nothing] /\ conn' = [conn EXCEPT ![mine[r]] = Free]
      /\ outcome' = [outcome EXCEPT ![r] = how]
  BY DEF Ends
<1>3. /\ conn' \in [Conn -> Connections] /\ mine' \in [Request -> Conn \cup {Nothing}]
      /\ outcome' \in [Request -> Outcomes \cup {Nothing}]
      /\ mine'[r] = Nothing /\ outcome'[r] = how /\ conn'[mine[r]] = Free
      /\ \A c \in Conn : c # mine[r] => conn'[c] = conn[c]
      /\ \A q \in Request : q # r => mine'[q] = mine[q] /\ outcome'[q] = outcome[q]
  BY <1>1, <1>2, FreeIsTyped
<1>4. \A q \in Request : q # r /\ Lent(q) => mine[q] # mine[r] /\ mine[q] \in Conn
  BY <1>1 DEF PluginsInv, ConnsFit, Lent
<1>5. ConnsFit'
  BY <1>3, <1>4 DEF PluginsInv, ConnsFit, Lent, Free
<1> QED  BY <1>3, <1>4, <1>5

\* A request that fails has given its connection back and awaits nothing.
LEMMA FailingFits ==
  ASSUME PluginsInv, NEW r \in Request, running[r] = Nothing, answer[r] = Nothing, NEW why \in {"failed", "vetoed"},
         Fails(r, why), why = "failed" => ~Orderly(r)
  PROVE  GoesWell(r)
<1> USE DEF starting, requests, dispatches, statements, login, clock, history
<1>1. UNCHANGED <<started, setting, refusal, registered, hooks, at, leases, running, left,
                  passes, remembered, time, granted, told, landed>>
      /\ answer' = [answer EXCEPT ![r] = why] /\ stack' = [stack EXCEPT ![r] = <<>>]
  BY DEF Fails
<1>2. TypeOK /\ RequestFits(r) /\ LoginKept /\ PassesFit'
  BY <1>1, Standstill DEF PluginsInv
<1>3. /\ answer' \in [Request -> Answers \cup {Nothing}] /\ answer'[r] = why
      /\ stack' \in [Request -> Seq(Frames)] /\ stack'[r] = <<>>
      /\ \A q \in Request : q # r => answer'[q] = answer[q] /\ stack'[q] = stack[q]
  <2>1. <<>> \in Seq(Frames) /\ why \in Answers
    BY DEF Answers
  <2> QED  BY <1>1, <1>2, <2>1 DEF TypeOK
<1>4. /\ conn' \in [Conn -> Connections] /\ mine' \in [Request -> Conn \cup {Nothing}]
      /\ outcome' \in [Request -> Outcomes \cup {Nothing}]
      /\ mine'[r] = Nothing /\ ConnsFit' /\ (outcome'[r] = outcome[r] \/ outcome'[r] = "rolledBack")
      /\ \A q \in Request : q # r => /\ mine'[q] = mine[q] /\ outcome'[q] = outcome[q]
                                     /\ Lent(q) => conn'[mine[q]] = conn[mine[q]]
  <2>1. CASE Lent(r)
    <3>1. Ends(r, "rolledBack") /\ "rolledBack" \in Outcomes
      BY <2>1 DEF Fails, Outcomes
    <3> QED  BY <2>1, <3>1, ConnIsGivenBack
  <2>2. CASE ~Lent(r)
    <3>1. UNCHANGED <<conn, mine, outcome>>
      BY <2>2 DEF Fails
    <3> QED  BY <1>2, <2>2, <3>1 DEF PluginsInv, TypeOK, Lent, ConnsFit
  <2> QED  BY <2>1, <2>2
<1>5. MaxDepth \in Nat /\ Len(<<>>) = 0
  BY BoundsAssumption
<1>6. TypeOK'
  BY <1>1, <1>2, <1>3, <1>4, <1>5 DEF TypeOK, course
<1>7. \A q \in Request : q # r => Same(q)
  BY <1>1, <1>3, <1>4 DEF Same
<1>8. Nothing # why
  BY NothingElse DEF Answers
<1>9. OnPath(r)'
  BY <1>1, <1>3, <1>4, <1>8 DEF OnPath, Lent, course
<1>10. Accounted(r)'
  BY <1>3, <1>8 DEF Accounted
<1>11. Unharmed(r)'
  <2>1. Orderly(r)' => Orderly(r)
    BY <1>1 DEF Orderly
  <2>2. Orderly(r) => why = "vetoed"
    OBVIOUS
  <2> QED  BY <1>3, <2>1, <2>2 DEF Unharmed
<1>12. RequestFits(r)'
  BY <1>1, <1>2, <1>3, <1>4, <1>6, <1>9, <1>10, <1>11, QuietFits
<1> QED  BY <1>2, <1>4, <1>6, <1>7, <1>12 DEF GoesWell, StaysWell

\* While hooks run, the request is not answered; with nothing awaited its connection is in order.
LEMMA Listens ==
  ASSUME PluginsInv, NEW r \in Request, Listening(r)
  PROVE  /\ answer[r] = Nothing /\ running[r] = Nothing /\ stack[r] \in Seq(Frames) /\ stack[r] # <<>>
         /\ Len(stack[r]) \in Nat /\ Len(stack[r]) >= 1 /\ Top(r) = stack[r][Len(stack[r])]
         /\ Top(r) \in Frames /\ Top(r).agenda \in Seq(Calling) /\ Top(r).lease \in Nat
         /\ Top(r).lease # 0 <=> Lent(r)
         /\ Top(r).lease <= leases[r]
         /\ Orderly(r) /\ Lent(r) => Tidy(conn[mine[r]])
<1>1. stack[r] \in Seq(Frames) /\ stack[r] # <<>> /\ running[r] = Nothing
  BY DEF Listening, PluginsInv, TypeOK
<1>2. answer[r] = Nothing
  BY <1>1 DEF PluginsInv, RequestFits, OnPath
<1>3. /\ Len(stack[r]) \in Nat /\ Len(stack[r]) >= 1 /\ Top(r) = stack[r][Len(stack[r])]
      /\ Top(r) \in Frames
  BY <1>1, FrontAndLast DEF Top
<1>4. Top(r).agenda \in Seq(Calling) /\ Top(r).lease \in Nat
  BY <1>3 DEF Frames
<1>5. (Top(r).lease # 0 <=> Lent(r)) /\ Top(r).lease <= leases[r]
  <2>1. Len(stack[r]) \in DOMAIN stack[r]
    BY <1>1, <1>3
  <2> QED  BY <1>3, <2>1 DEF PluginsInv, RequestFits, Dispatching
<1>6. Orderly(r) /\ Lent(r) => Tidy(conn[mine[r]])
  BY <1>1 DEF PluginsInv, RequestFits, Undisturbed
<1> QED  BY <1>1, <1>2, <1>3, <1>4, <1>5, <1>6

\* The core statement meets an aborted transaction: no orderly hook leaves one.
LEMMA CoreFailsFits ==
  ASSUME PluginsInv, NEW r \in Request, CoreFails(r)
  PROVE  GoesWell(r)
<1>1. /\ answer[r] = Nothing /\ stack[r] = <<>> /\ Lent(r) /\ ~RunsForTheLibrary(mine[r])
      /\ Fails(r, "failed")
  BY DEF CoreFails, IsAt
<1>2. running[r] = Nothing /\ (Orderly(r) => Tidy(conn[mine[r]]))
  BY <1>1, Quiet DEF PluginsInv
<1>3. ~Orderly(r)
  BY <1>1, <1>2 DEF Tidy, RunsForTheLibrary
<1> QED  BY <1>1, <1>2, <1>3, FailingFits

\* A hook refuses, and the request is vetoed.
LEMMA RefuseFits ==
  ASSUME PluginsInv, NEW r \in Request, Refuse(r)
  PROVE  GoesWell(r)
<1>1. Listening(r) /\ Fails(r, "vetoed")
  BY DEF Refuse, Calls
<1>2. answer[r] = Nothing /\ running[r] = Nothing
  BY <1>1, Listens
<1> QED  BY <1>1, <1>2, FailingFits

\* A revocation of a hook fails: some statement was left running.
LEMMA RevokeFailsFits ==
  ASSUME PluginsInv, NEW r \in Request, RevokeFails(r)
  PROVE  GoesWell(r)
<1>1. /\ Listening(r) /\ Fails(r, "failed") /\ Top(r).lease # 0 /\ ~RunsForTheLibrary(mine[r])
  BY DEF RevokeFails, Calls, RepositoryFails
<1>2. /\ answer[r] = Nothing /\ running[r] = Nothing
      /\ Orderly(r) => Tidy(conn[mine[r]])
  BY <1>1, Listens
<1>3. ~Orderly(r)
  BY <1>1, <1>2 DEF Tidy, RunsForTheLibrary
<1> QED  BY <1>1, <1>2, <1>3, FailingFits

\* A transaction has ended by a step of its path.
LEMMA EndingFits ==
  ASSUME PluginsInv, NEW r \in Request, NEW how \in {"committed", "rolledBack", "discarded"}, Ends(r, how),
         answer[r] = Nothing, stack[r] = <<>>, Now(r).does \in {"commit", "discard"}, Proceeds(r),
         UNCHANGED <<started, setting, refusal, registered, hooks, stack, leases, running, left,
                     passes, remembered, time, granted, told>>,
         landed' \subseteq Writes, \A q \in Request : q # r => WrittenBy(q, landed') = WrittenBy(q, landed),
         Orderly(r) => how # "rolledBack",
         Orderly(r) /\ answer'[r] = Nothing => WrittenBy(r, landed') = WrittenBy(r, landed) \cup conn[mine[r]].writes
  PROVE  GoesWell(r)
<1>1. TypeOK /\ RequestFits(r) /\ OnPath(r) /\ LoginKept /\ PassesFit' /\ how \in Outcomes
  BY Standstill DEF PluginsInv, RequestFits, Outcomes
<1>2. Lent(r)
  BY <1>1, Standing
<1>3. /\ conn' \in [Conn -> Connections] /\ mine' \in [Request -> Conn \cup {Nothing}]
      /\ outcome' \in [Request -> Outcomes \cup {Nothing}]
      /\ mine'[r] = Nothing /\ outcome'[r] = how /\ ConnsFit'
      /\ \A q \in Request : q # r => /\ mine'[q] = mine[q] /\ outcome'[q] = outcome[q]
                                     /\ Lent(q) => conn'[mine[q]] = conn[mine[q]]
  BY <1>1, <1>2, ConnIsGivenBack
<1>4. /\ OnPath(r)' /\ at' \in [Request -> Nat] /\ answer' \in [Request -> Answers \cup {Nothing}]
      /\ \A q \in Request : at'[q] <= Len(StepsOf[course'[q]])
      /\ \A q \in Request : q # r => at'[q] = at[q] /\ answer'[q] = answer[q]
      /\ answer'[r] \in {Nothing, "done"}
  <2>1. setting' = setting /\ stack'[r] = <<>>
    OBVIOUS
  <2>2. mine'[r] # Nothing <=> \/ Now(r).does = "begin"
                               \/ Now(r).does \notin {"commit", "discard"} /\ Lent(r)
    BY <1>3
  <2> QED  BY <1>1, <2>1, <2>2, PathGoesOn
<1>5. TypeOK'
  BY <1>1, <1>3, <1>4 DEF TypeOK, course
<1>6. \A q \in Request : q # r => Same(q)
  BY <1>3, <1>4 DEF Same
<1>7. running[r] = Nothing /\ (Orderly(r) => Tidy(conn[mine[r]]))
  BY <1>1, <1>2, Quiet
<1>8. Accounted(r)'
  <2>1. Settled(r)' = {}
    BY <1>3 DEF Settled, Lent
  <2>2. Orderly(r) => Settled(r) = conn[mine[r]].writes
    BY <1>2, <1>7 DEF Settled, Tidy
  <2>3. Orderly(r) => WrittenBy(r, told) = WrittenBy(r, landed) \cup Settled(r)
    BY <1>1 DEF RequestFits, Accounted
  <2> QED  BY <2>1, <2>2, <2>3 DEF Accounted, Orderly, WrittenBy
<1>9. Unharmed(r)'
  <2>1. answer'[r] # "failed"
    BY <1>4, NothingElse DEF Answers
  <2>2. outcome'[r] = "rolledBack" => ~Orderly(r)
    BY <1>3
  <2> QED  BY <2>1, <2>2 DEF Unharmed, Orderly
<1>10. RequestFits(r)'
  BY <1>1, <1>3, <1>4, <1>5, <1>8, <1>9, QuietFits
<1> QED  BY <1>1, <1>3, <1>5, <1>6, <1>10 DEF GoesWell, StaysWell

\* What a connection lands is its holder's.
LEMMA HoldersWrite ==
  ASSUME PluginsInv, NEW r \in Request, Lent(r)
  PROVE  /\ mine[r] \in Conn /\ conn[mine[r]] \in Connections /\ conn[mine[r]].writes \subseteq Writes
         /\ WrittenBy(r, conn[mine[r]].writes) = conn[mine[r]].writes
         /\ \A q \in Request : q # r => WrittenBy(q, conn[mine[r]].writes) = {}
<1>1. mine[r] \in Conn /\ conn[mine[r]] \in Connections
  BY DEF PluginsInv, TypeOK, Lent
<1>2. \A write \in conn[mine[r]].writes : write[1] = r
  BY <1>1 DEF PluginsInv, ConnsFit
<1> QED  BY <1>1, <1>2 DEF WrittenBy, Connections

\* Commit lands what was written, or rolls an aborted transaction back.
LEMMA CloseFits ==
  ASSUME PluginsInv, NEW r \in Request, Close(r)
  PROVE  GoesWell(r)
<1> USE DEF starting, requests, dispatches, statements, login, clock, history
<1> DEFINE k == conn[mine[r]]
           how == IF k.aborted THEN "rolledBack" ELSE "committed"
<1>1. /\ answer[r] = Nothing /\ stack[r] = <<>> /\ Now(r).does = "commit" /\ Proceeds(r)
      /\ Ends(r, how) /\ landed' = IF k.aborted THEN landed ELSE landed \cup k.writes
      /\ UNCHANGED <<started, setting, refusal, registered, hooks, stack, leases, running, left,
                     passes, remembered, time, granted, told>>
  BY DEF Close, IsAt
<1>2. Lent(r) /\ (Orderly(r) => Tidy(k))
  BY <1>1, Standing, Quiet DEF PluginsInv, RequestFits
<1>3. /\ k.writes \subseteq Writes /\ WrittenBy(r, k.writes) = k.writes
      /\ \A q \in Request : q # r => WrittenBy(q, k.writes) = {}
  BY <1>2, HoldersWrite
<1>4. \A q \in Request : WrittenBy(q, landed \cup k.writes) = WrittenBy(q, landed) \cup WrittenBy(q, k.writes)
  BY DEF WrittenBy
<1>5. landed' \subseteq Writes /\ \A q \in Request : q # r => WrittenBy(q, landed') = WrittenBy(q, landed)
  <2>1. landed \subseteq Writes
    BY DEF PluginsInv, TypeOK
  <2> HIDE DEF k
  <2> QED  BY <1>1, <1>3, <1>4, <2>1
<1>6. Orderly(r) => ~k.aborted
  BY <1>2 DEF Tidy
<1>7. /\ Orderly(r) => how # "rolledBack"
      /\ Orderly(r) => WrittenBy(r, landed') = WrittenBy(r, landed) \cup conn[mine[r]].writes
  BY <1>1, <1>3, <1>4, <1>6
<1>8. how \in {"committed", "rolledBack", "discarded"} /\ Now(r).does \in {"commit", "discard"}
  BY <1>1
<1> HIDE DEF how
<1> QED  BY <1>1, <1>5, <1>7, <1>8, EndingFits

\* The cover discards what it wrote.
LEMMA ThrowAwayFits ==
  ASSUME PluginsInv, NEW r \in Request, ThrowAway(r)
  PROVE  GoesWell(r)
<1> USE DEF starting, requests, dispatches, statements, login, clock, history
<1>1. /\ answer[r] = Nothing /\ stack[r] = <<>> /\ Now(r).does = "discard" /\ Proceeds(r)
      /\ Ends(r, "discarded")
      /\ UNCHANGED <<started, setting, refusal, registered, hooks, stack, leases, running, left,
                     passes, remembered, time, granted, told, landed>>
  BY DEF ThrowAway, IsAt
<1>2. TypeOK /\ OnPath(r)
  BY DEF PluginsInv, RequestFits
<1>3. answer'[r] # Nothing
  <2>1. at[r] + 1 \in 1 .. Len(StepsOf[course[r]]) /\ Now(r) = StepsOf[course[r]][at[r] + 1]
    BY <1>1, <1>2, Standing
  <2>2. course[r] \in DOMAIN StepsOf
    BY <1>2, CourseAssumption DEF TypeOK, Settings, course
  <2>3. at[r] + 1 = Len(StepsOf[course[r]])
    BY <1>1, <2>1, <2>2, DiscardIsLast
  <2>4. answer' = [answer EXCEPT ![r] = "done"]
    BY <1>1, <2>3 DEF Proceeds
  <2> QED  BY <1>2, <2>4, NothingElse DEF TypeOK, Answers
<1>4. landed' \subseteq Writes /\ \A q \in Request : q # r => WrittenBy(q, landed') = WrittenBy(q, landed)
  BY <1>1, <1>2 DEF TypeOK
<1> QED  BY <1>1, <1>3, <1>4, EndingFits

\* The leases of the frames that are left were given out, to a frame before or to a new one.
LeasesGoOn(r) ==
    \A i \in 1 .. Len(stack'[r]) :
        \/ \E j \in 1 .. Len(stack[r]) : stack'[r][i].lease = stack[r][j].lease
        \/ Lent(r) /\ stack'[r][i].lease = leases[r] + 1 /\ leases'[r] = leases[r] + 1
        \/ ~Lent(r) /\ stack'[r][i].lease = 0

\* Frames come and go while nothing else of the request changes.
LEMMA FramesMove ==
  ASSUME PluginsInv, NEW r \in Request, running[r] = Nothing, answer[r] = Nothing, Now(r).does = "tell",
         UNCHANGED <<started, setting, refusal, registered, hooks, at, answer, mine, running, left, conn,
                     passes, remembered, time, granted, told, landed, outcome>>,
         stack' \in [Request -> Seq(Frames)], Len(stack'[r]) <= MaxDepth,
         leases' \in [Request -> Nat], leases'[r] >= leases[r],
         \A q \in Request : q # r => stack'[q] = stack[q] /\ leases'[q] = leases[q],
         LeasesGoOn(r)
  PROVE  GoesWell(r)
<1>1. TypeOK /\ RequestFits(r) /\ LoginKept /\ PassesFit' /\ leases[r] \in Nat
      /\ stack[r] \in Seq(Frames) /\ stack'[r] \in Seq(Frames) /\ leases'[r] \in Nat
  BY Standstill DEF PluginsInv, TypeOK
<1>2. TypeOK'
  BY <1>1 DEF TypeOK, course
<1>3. ConnsFit'
  BY DEF PluginsInv, ConnsFit, Lent
<1>4. \A q \in Request : q # r => Same(q)
  BY DEF Same
<1>5. DOMAIN stack[r] = 1 .. Len(stack[r]) /\ DOMAIN stack'[r] = 1 .. Len(stack'[r])
  BY <1>1
<1>6. \A i \in 1 .. Len(stack[r]) :
         stack[r][i].lease <= leases[r] /\ (stack[r][i].lease # 0 <=> Lent(r)) /\ stack[r][i].lease \in Nat
  <2>1. \A frame \in Frames : frame.lease \in Nat
    BY DEF Frames
  <2>2. \A i \in 1 .. Len(stack[r]) : stack[r][i] \in Frames
    BY <1>1
  <2> QED  BY <1>1, <1>5, <2>1, <2>2 DEF RequestFits, Dispatching
<1>7. FramesKept(r)
  BY <1>1 DEF FramesKept, LeasesGoOn
<1>8. Dispatching(r)'
  <2>1. \A i \in 1 .. Len(stack'[r]) :
           stack'[r][i].lease <= leases'[r] /\ (stack'[r][i].lease # 0 <=> Lent(r))
    <3> TAKE i \in 1 .. Len(stack'[r])
    <3>1. CASE \E j \in 1 .. Len(stack[r]) : stack'[r][i].lease = stack[r][j].lease
      <4>1. PICK j \in 1 .. Len(stack[r]) : stack'[r][i].lease = stack[r][j].lease
        BY <3>1
      <4>2. stack[r][j].lease <= leases[r] /\ (stack[r][j].lease # 0 <=> Lent(r)) /\ stack[r][j].lease \in Nat
        BY <1>6
      <4> QED  BY <1>1, <4>1, <4>2
    <3>2. CASE Lent(r) /\ stack'[r][i].lease = leases[r] + 1 /\ leases'[r] = leases[r] + 1
      BY <1>1, <3>2
    <3>3. CASE ~Lent(r) /\ stack'[r][i].lease = 0
      BY <1>1, <3>3
    <3> QED  BY <3>1, <3>2, <3>3 DEF LeasesGoOn
  <2> QED  BY <1>5, <2>1 DEF Dispatching, Lent
<1>9. Underway(r)' \subseteq Underway(r)
  BY DEF Underway
<1>10. TasksFit(r)' /\ Timely(r)'
  BY <1>1, <1>2, <1>7, <1>9, TasksStay, TimelyStays DEF RequestFits
<1>11. Undisturbed(r)' /\ Accounted(r)' /\ Unharmed(r)'
  BY <1>1, UndisturbedStays, AccountedStays, UnharmedStays DEF RequestFits
<1>12. OnPath(r)'
  BY <1>1 DEF RequestFits, OnPath, Lent, Now, course, Brackets
<1>13. RequestFits(r)'
  BY <1>8, <1>10, <1>11, <1>12 DEF RequestFits
<1> QED  BY <1>1, <1>2, <1>3, <1>4, <1>13 DEF GoesWell, StaysWell

\* The frame of a point that is told.
LEMMA FrameIsTyped ==
  ASSUME TypeOK, NEW r \in Request, NEW point \in Points, NEW lent
  PROVE  /\ Frame(r, point, lent) \in Frames
         /\ Frame(r, point, lent).lease = IF lent THEN leases[r] + 1 ELSE 0
<1>1. hooks[point] \in Seq(Calling) /\ (IF lent THEN leases[r] + 1 ELSE 0) \in Nat
      /\ (point = "beforeSessionRevoke") \in BOOLEAN
  BY DEF TypeOK
<1> QED  BY <1>1 DEF Frame, Frames

\* A point is told: a frame, and inside a transaction a lease of its own.
LEMMA TellFits ==
  ASSUME PluginsInv, NEW r \in Request, Tell(r)
  PROVE  GoesWell(r)
<1> USE DEF starting, requests, dispatches, statements, login, clock, history
<1> DEFINE frame == Frame(r, Now(r).point, Lent(r))
<1>1. /\ answer[r] = Nothing /\ stack[r] = <<>> /\ Now(r).does = "tell"
      /\ stack' = [stack EXCEPT ![r] = Append(stack[r], frame)]
      /\ leases' = [leases EXCEPT ![r] = IF Lent(r) THEN leases[r] + 1 ELSE leases[r]]
      /\ UNCHANGED <<started, setting, refusal, registered, hooks, at, answer, mine, running, left, conn,
                     passes, remembered, time, granted, told, landed, outcome>>
  BY DEF Tell, IsAt, Dispatches
<1>2. TypeOK /\ OnPath(r) /\ RequestFits(r) /\ Now(r).point \in Points
  BY <1>1, Standing DEF PluginsInv, RequestFits
<1>3. frame \in Frames /\ frame.lease = IF Lent(r) THEN leases[r] + 1 ELSE 0
  BY <1>2, FrameIsTyped
<1> HIDE DEF frame
<1>4. stack \in [Request -> Seq(Frames)] /\ leases \in [Request -> Nat] /\ running[r] = Nothing
  BY <1>1, <1>2, Quiet DEF TypeOK
<1>5. Append(stack[r], frame) = <<frame>>
  BY <1>1
<1>6. /\ stack' \in [Request -> Seq(Frames)] /\ stack'[r] = <<frame>>
      /\ leases' \in [Request -> Nat] /\ leases'[r] = IF Lent(r) THEN leases[r] + 1 ELSE leases[r]
      /\ \A q \in Request : q # r => stack'[q] = stack[q] /\ leases'[q] = leases[q]
  <2>1. <<frame>> \in Seq(Frames) /\ leases[r] \in Nat
    BY <1>3, <1>4
  <2> QED  BY <1>1, <1>4, <1>5, <2>1
<1>7. Len(stack'[r]) <= MaxDepth
  BY <1>6, BoundsAssumption
<1>8. LeasesGoOn(r)
  <2>1. \A i \in 1 .. Len(stack'[r]) : stack'[r][i] = frame
    BY <1>6
  <2> QED  BY <1>3, <1>6, <2>1 DEF LeasesGoOn
<1>9. leases'[r] >= leases[r]
  BY <1>4, <1>6
<1> QED  BY <1>1, <1>4, <1>6, <1>7, <1>8, <1>9, FramesMove

\* The last listener has returned, and the lease ends with the dispatch.
LEMMA ReturnFits ==
  ASSUME PluginsInv, NEW r \in Request, Return(r)
  PROVE  GoesWell(r)
<1> USE DEF starting, requests, dispatches, statements, login, clock, history
<1>1. /\ Listening(r) /\ stack' = [stack EXCEPT ![r] = Front(stack[r])]
      /\ IF Len(stack[r]) = 1 THEN Proceeds(r) ELSE UNCHANGED <<at, answer>>
      /\ UNCHANGED <<started, setting, refusal, registered, hooks, mine, leases, running, left, conn,
                     passes, remembered, time, granted, told, landed, outcome>>
  BY DEF Return
<1>2. /\ answer[r] = Nothing /\ running[r] = Nothing /\ stack[r] \in Seq(Frames) /\ stack[r] # <<>>
      /\ Orderly(r) /\ Lent(r) => Tidy(conn[mine[r]])
  BY <1>1, Listens
<1>3. TypeOK /\ OnPath(r) /\ RequestFits(r) /\ LoginKept /\ PassesFit' /\ Now(r).does = "tell"
  BY <1>1, <1>2, Standstill DEF PluginsInv, RequestFits, OnPath
<1>4. /\ Len(stack[r]) \in Nat /\ Len(stack[r]) >= 1
      /\ Front(stack[r]) \in Seq(Frames) /\ Len(Front(stack[r])) = Len(stack[r]) - 1
      /\ \A i \in 1 .. (Len(stack[r]) - 1) : Front(stack[r])[i] = stack[r][i]
  BY <1>2, FrontAndLast
<1>5. /\ stack' \in [Request -> Seq(Frames)] /\ stack'[r] = Front(stack[r])
      /\ \A q \in Request : q # r => stack'[q] = stack[q]
  BY <1>1, <1>3, <1>4 DEF TypeOK
<1>6. Len(stack[r]) <= MaxDepth /\ MaxDepth \in Nat /\ Len(stack'[r]) <= MaxDepth
  BY <1>3, <1>4, <1>5, BoundsAssumption DEF TypeOK
<1>7. CASE Len(stack[r]) # 1
  <2>1. UNCHANGED <<at, answer>>
    BY <1>1, <1>7
  <2>2. leases \in [Request -> Nat] /\ leases'[r] >= leases[r]
    BY <1>1, <1>3 DEF TypeOK
  <2>3. LeasesGoOn(r)
    BY <1>4, <1>5 DEF LeasesGoOn
  <2> QED  BY <1>1, <1>2, <1>3, <1>5, <1>6, <2>1, <2>2, <2>3, FramesMove
<1>8. CASE Len(stack[r]) = 1
  <2>1. Proceeds(r) /\ stack'[r] = <<>>
    <3>1. Len(stack'[r]) = 0 /\ stack'[r] \in Seq(Frames)
      BY <1>4, <1>5, <1>8
    <3> QED  BY <1>1, <1>8, <3>1
  <2>2. /\ OnPath(r)' /\ at' \in [Request -> Nat] /\ answer' \in [Request -> Answers \cup {Nothing}]
        /\ \A q \in Request : at'[q] <= Len(StepsOf[course'[q]])
        /\ \A q \in Request : q # r => at'[q] = at[q] /\ answer'[q] = answer[q]
        /\ answer'[r] \in {Nothing, "done"}
    <3>1. mine'[r] # Nothing <=> Lent(r)
      BY <1>1 DEF Lent
    <3> QED  BY <1>1, <1>2, <1>3, <2>1, <3>1, PathGoesOn
  <2>3. TypeOK'
    BY <1>1, <1>3, <1>5, <1>6, <2>2 DEF TypeOK, course
  <2>4. ConnsFit'
    BY <1>1 DEF PluginsInv, ConnsFit, Lent
  <2>5. \A q \in Request : q # r => Same(q)
    BY <1>1, <1>5, <2>2 DEF Same
  <2>6. Accounted(r)'
    BY <1>1, <1>2, <1>3, AccountedStays DEF RequestFits
  <2>7. Unharmed(r)'
    BY <1>1, <1>2, <1>3, <2>2, UnharmedStays, NothingElse DEF RequestFits
  <2>8. Orderly(r) /\ mine'[r] # Nothing => Tidy(conn'[mine'[r]])
    BY <1>1, <1>2 DEF Lent
  <2>9. RequestFits(r)'
    BY <1>1, <1>2, <1>3, <2>1, <2>2, <2>3, <2>6, <2>7, <2>8, QuietFits
  <2> QED  BY <1>3, <2>3, <2>4, <2>5, <2>9 DEF GoesWell, StaysWell
<1> QED  BY <1>7, <1>8

\* A call of the innermost listener.
LEMMA ListenerCalls ==
  ASSUME PluginsInv, NEW r \in Request, Listening(r), Top(r).agenda # <<>>
  PROVE  /\ Called(r) \in Calling /\ Tail(Top(r).agenda) \in Seq(Calling)
         /\ Now(r).does = "tell" /\ stack[r] # <<>> /\ TypeOK /\ Len(Top(r).agenda) \in Nat
         /\ Reframed(r, WithAgenda(r, Tail(Top(r).agenda)))
<1>1. Top(r).agenda \in Seq(Calling) /\ stack[r] # <<>>
  BY Listens
<1>2. Called(r) \in Calling /\ Tail(Top(r).agenda) \in Seq(Calling) /\ Len(Top(r).agenda) \in Nat
  BY <1>1 DEF Called
<1>3. TypeOK /\ Now(r).does = "tell"
  BY <1>1 DEF PluginsInv, RequestFits, OnPath
<1> QED  BY <1>1, <1>2, <1>3, AgendaMoves

\* The innermost listener goes on, and nothing else happens.
LEMMA AgendaFits ==
  ASSUME PluginsInv, NEW r \in Request, Listening(r), Reframed(r, stack'), leases' = leases,
         UNCHANGED <<started, setting, refusal, registered, hooks, at, answer, mine, running, left, conn,
                     passes, remembered, time, granted, told, landed, outcome>>
  PROVE  GoesWell(r)
<1>1. /\ answer[r] = Nothing /\ running[r] = Nothing /\ stack[r] # <<>> /\ Len(stack[r]) \in Nat
  BY Listens
<1>2. TypeOK /\ Now(r).does = "tell"
  BY <1>1 DEF PluginsInv, RequestFits, OnPath
<1>3. /\ stack' \in [Request -> Seq(Frames)] /\ leases' \in [Request -> Nat] /\ leases'[r] >= leases[r]
      /\ \A q \in Request : q # r => stack'[q] = stack[q] /\ leases'[q] = leases[q]
      /\ Len(stack'[r]) = Len(stack[r]) /\ Len(stack'[r]) <= MaxDepth
  BY <1>2 DEF Reframed, TypeOK
<1>4. LeasesGoOn(r)
  BY <1>3 DEF LeasesGoOn, Reframed
<1> QED  BY <1>1, <1>2, <1>3, <1>4, FramesMove

\* A hook deletes a session on the lent connection.
LEMMA DeleteSessionFits ==
  ASSUME PluginsInv, NEW r \in Request, DeleteSession(r)
  PROVE  GoesWell(r)
<1> USE DEF starting, requests, dispatches, statements, login, clock, history
<1>1. /\ Listening(r) /\ Top(r).agenda # <<>> /\ stack' = WithAgenda(r, Tail(Top(r).agenda)) /\ leases' = leases
      /\ UNCHANGED <<started, setting, refusal, registered, hooks, at, answer, mine, running, left, conn,
                     passes, remembered, time, granted, told, landed, outcome>>
  BY DEF DeleteSession, Calls, CallReturns
<1>2. Reframed(r, stack')
  BY <1>1, ListenerCalls
<1> QED  BY <1>1, <1>2, AgendaFits

\* A hook looks a session up, and revokes it next.
LEMMA FindOwnerFits ==
  ASSUME PluginsInv, NEW r \in Request, FindOwner(r)
  PROVE  GoesWell(r)
<1> USE DEF starting, requests, dispatches, statements, login, clock, history
<1> DEFINE rest == Tail(Top(r).agenda)
           more == <<[Called(r) EXCEPT !.does = "delete"]>> \o rest
           deletes == WithAgenda(r, more)
           announced == Frame(r, "beforeSessionRevoke", Top(r).lease # 0)
<1>1. /\ Listening(r) /\ Top(r).agenda # <<>>
      /\ UNCHANGED <<started, setting, refusal, registered, hooks, at, answer, mine, running, left, conn,
                     passes, remembered, time, granted, told, landed, outcome>>
      /\ \/ CallReturns(r) /\ UNCHANGED leases
         \/ stack' = deletes /\ UNCHANGED leases
         \/ /\ Len(stack[r]) < MaxDepth
            /\ stack' = [deletes EXCEPT ![r] = Append(deletes[r], announced)]
            /\ leases' = [leases EXCEPT ![r] = IF announced.lease = 0 THEN leases[r] ELSE leases[r] + 1]
  <2>1. PICK found \in BOOLEAN :
            IF ~found THEN CallReturns(r) /\ UNCHANGED leases
            ELSE IF Top(r).silent \/ ~Listened THEN stack' = deletes /\ UNCHANGED leases
            ELSE /\ Len(stack[r]) < MaxDepth
                 /\ stack' = [deletes EXCEPT ![r] = Append(@, announced)]
                 /\ leases' = [leases EXCEPT ![r] = IF announced.lease = 0 THEN @ ELSE @ + 1]
    BY DEF FindOwner
  <2>2. Listening(r) /\ Top(r).agenda # <<>>
        /\ UNCHANGED <<started, setting, refusal, registered, hooks, at, answer, mine, running, left, conn,
                       passes, remembered, time, granted, told, landed, outcome>>
    BY DEF FindOwner, Calls
  <2> HIDE DEF deletes, announced
  <2> QED  BY <2>1, <2>2
<1>2. /\ Called(r) \in Calling /\ rest \in Seq(Calling) /\ stack[r] # <<>> /\ TypeOK
      /\ Reframed(r, WithAgenda(r, rest)) /\ Now(r).does = "tell"
  BY <1>1, ListenerCalls
<1>3. Reframed(r, deletes)
  <2>1. [Called(r) EXCEPT !.does = "delete"] \in Calling
    BY <1>2 DEF Calling
  <2>2. more \in Seq(Calling)
    <3> HIDE DEF rest
    <3> QED  BY <1>2, <2>1
  <2> HIDE DEF more
  <2> QED  BY <1>2, <2>2, AgendaMoves
<1>4. CASE CallReturns(r) /\ UNCHANGED leases
  BY <1>1, <1>2, <1>4, AgendaFits DEF CallReturns
<1>5. CASE stack' = deletes /\ UNCHANGED leases
  BY <1>1, <1>3, <1>5, AgendaFits
<1>6. CASE /\ Len(stack[r]) < MaxDepth
           /\ stack' = [deletes EXCEPT ![r] = Append(deletes[r], announced)]
           /\ leases' = [leases EXCEPT ![r] = IF announced.lease = 0 THEN leases[r] ELSE leases[r] + 1]
  <2>1. /\ answer[r] = Nothing /\ running[r] = Nothing /\ (Top(r).lease # 0 <=> Lent(r))
        /\ Len(stack[r]) \in Nat
    BY <1>1, Listens
  <2>2. announced \in Frames /\ announced.lease = IF Lent(r) THEN leases[r] + 1 ELSE 0
    <3>1. "beforeSessionRevoke" \in Points
      BY DEF Points
    <3> QED  BY <1>2, <2>1, <3>1, FrameIsTyped
  <2>3. leases \in [Request -> Nat] /\ leases[r] \in Nat /\ leases[r] + 1 # 0
    BY <1>2 DEF TypeOK
  <2> HIDE DEF deletes, announced
  <2>4. deletes \in [Request -> Seq(Frames)] /\ deletes[r] \in Seq(Frames) /\ Len(deletes[r]) = Len(stack[r])
        /\ (\A q \in Request : q # r => deletes[q] = stack[q])
        /\ \A i \in 1 .. Len(stack[r]) : deletes[r][i].lease = stack[r][i].lease
    BY <1>3 DEF Reframed
  <2> DEFINE s == deletes[r]
             new == Append(s, announced)
  <2>5. /\ new \in Seq(Frames) /\ Len(new) = Len(stack[r]) + 1 /\ new[Len(stack[r]) + 1] = announced
        /\ \A i \in 1 .. Len(stack[r]) : new[i] = s[i]
    <3> HIDE DEF s
    <3>1. s \in Seq(Frames) /\ Len(s) = Len(stack[r])
      BY <2>4 DEF s
    <3> QED  BY <2>2, <3>1, AppendProperties
  <2>6. /\ stack' \in [Request -> Seq(Frames)] /\ stack'[r] = new
        /\ \A q \in Request : q # r => stack'[q] = stack[q]
    <3> HIDE DEF new
    <3>1. stack' = [deletes EXCEPT ![r] = new]
      BY <1>6 DEF new
    <3> QED  BY <2>4, <2>5, <3>1
  <2>7. /\ leases' \in [Request -> Nat] /\ leases'[r] >= leases[r]
        /\ leases'[r] = IF Lent(r) THEN leases[r] + 1 ELSE leases[r]
        /\ \A q \in Request : q # r => leases'[q] = leases[q]
    BY <1>6, <2>2, <2>3
  <2> HIDE DEF new
  <2>8. Len(stack'[r]) <= MaxDepth
    BY <1>6, <2>1, <2>5, <2>6, BoundsAssumption
  <2>9. LeasesGoOn(r)
    <3> SUFFICES ASSUME NEW i \in 1 .. Len(stack'[r])
                 PROVE  \/ \E j \in 1 .. Len(stack[r]) : stack'[r][i].lease = stack[r][j].lease
                        \/ Lent(r) /\ stack'[r][i].lease = leases[r] + 1 /\ leases'[r] = leases[r] + 1
                        \/ ~Lent(r) /\ stack'[r][i].lease = 0
      BY DEF LeasesGoOn
    <3>1. CASE i = Len(stack[r]) + 1
      BY <2>2, <2>5, <2>6, <2>7, <3>1
    <3>2. CASE i \in 1 .. Len(stack[r])
      BY <2>4, <2>5, <2>6, <3>2 DEF s
    <3> QED  BY <2>1, <2>5, <2>6, <3>1, <3>2
  <2> QED  BY <1>1, <1>2, <2>1, <2>6, <2>7, <2>8, <2>9, FramesMove
<1> HIDE DEF deletes, announced
<1> QED  BY <1>1, <1>4, <1>5, <1>6

Passes == [askedAt : Nat, state : {"asking", "passed", "failed"}]

\* A check is remembered, or a new one is asked for.
LEMMA CheckBegins ==
  ASSUME PluginsInv, BeginsACheck, UNCHANGED <<time, granted>>
  PROVE  /\ passes' \in Seq(Passes) /\ remembered' \in 0 .. Len(passes') /\ LoginKept /\ PassesFit'
         /\ mode # "login" => UNCHANGED login
         /\ mode = "login" /\ IsRecent(remembered) =>
              /\ remembered \in 1 .. Len(passes') /\ time < passes'[remembered].askedAt + Recheck
         /\ mode = "login" /\ ~IsRecent(remembered) =>
              /\ Len(passes) + 1 \in 1 .. Len(passes') /\ time < passes'[Len(passes) + 1].askedAt + Recheck
<1>1. /\ passes \in Seq(Passes) /\ remembered \in 0 .. Len(passes) /\ Len(passes) \in Nat
      /\ time \in Nat /\ DOMAIN passes = 1 .. Len(passes)
      /\ \A i \in 1 .. Len(passes) : passes[i].askedAt \in Nat
  <2>1. passes \in Seq(Passes) /\ remembered \in 0 .. Len(passes) /\ time \in Nat
    BY BoundsAssumption DEF PluginsInv, TypeOK, Passes
  <2>2. \A pass \in Passes : pass.askedAt \in Nat
    BY DEF Passes
  <2>3. \A i \in 1 .. Len(passes) : passes[i] \in Passes
    BY <2>1
  <2> QED  BY <2>1, <2>2, <2>3
<1>2. Recheck \in Nat /\ Recheck > 0
  BY BoundsAssumption
<1>3. CASE mode # "login" \/ IsRecent(remembered)
  <2>1. passes' = passes /\ remembered' = remembered
    BY <1>3 DEF BeginsACheck, login
  <2>2. LoginKept /\ PassesFit'
    BY <1>1, <2>1 DEF LoginKept, PassesFit, PluginsInv
  <2>3. IsRecent(remembered) => remembered \in 1 .. Len(passes) /\ time < passes[remembered].askedAt + Recheck
    <3> SUFFICES ASSUME IsRecent(remembered)
                 PROVE  remembered \in 1 .. Len(passes) /\ time < passes[remembered].askedAt + Recheck
      OBVIOUS
    <3>1. remembered # 0 /\ time - passes[remembered].askedAt < Recheck
      BY DEF IsRecent
    <3>2. remembered \in 1 .. Len(passes)
      BY <1>1, <3>1
    <3> QED  BY <1>1, <1>2, <3>1, <3>2
  <2> QED  BY <1>1, <1>3, <2>1, <2>2, <2>3 DEF login
<1>4. CASE mode = "login" /\ ~IsRecent(remembered)
  <2> DEFINE new == [askedAt |-> time, state |-> "asking"]
  <2>1. passes' = Append(passes, new) /\ remembered' = Len(passes) + 1
    BY <1>4 DEF BeginsACheck
  <2>2. new \in Passes /\ new.askedAt = time /\ new.state # "passed"
    BY <1>1 DEF Passes
  <2> HIDE DEF new
  <2>3. /\ passes' \in Seq(Passes) /\ Len(passes') = Len(passes) + 1 /\ passes'[Len(passes) + 1] = new
        /\ \A i \in 1 .. Len(passes) : passes'[i] = passes[i]
    BY <1>1, <2>1, <2>2, AppendProperties
  <2>4. LoginKept
    BY <1>1, <2>3 DEF LoginKept
  <2>5. DOMAIN passes' = 1 .. (Len(passes) + 1)
    BY <2>3
  <2>6. PassesFit'
    <3>1. ASSUME NEW i \in DOMAIN passes'
          PROVE  /\ passes'[i].askedAt <= time
                 /\ passes'[i].state = "passed" /\ granted # Nothing => passes'[i].askedAt <= granted
      <4>1. CASE i = Len(passes) + 1
        BY <1>1, <2>2, <2>3, <4>1
      <4>2. CASE i \in 1 .. Len(passes)
        BY <1>1, <2>3, <4>2 DEF PluginsInv, PassesFit
      <4> QED  BY <1>1, <2>5, <4>1, <4>2
    <3> QED  BY <3>1 DEF PluginsInv, PassesFit
  <2>7. Len(passes) + 1 \in 1 .. Len(passes') /\ time < passes'[Len(passes) + 1].askedAt + Recheck
    BY <1>1, <1>2, <2>2, <2>3
  <2>8. remembered' \in 0 .. Len(passes')
    BY <1>1, <2>1, <2>3
  <2> QED  BY <1>4, <2>3, <2>4, <2>6, <2>7, <2>8
<1> QED  BY <1>3, <1>4

\* A statement as it is called.
Fresh(r, task) ==
    /\ task \in Tasks /\ task.lease = Top(r).lease /\ task.on = mine[r] /\ task.write[1] = r
    /\ task.held = "library" /\ task.ok = TRUE /\ task.stages \in LeftOf(task) /\ Stage(task) # "own"
    /\ mode # "login" /\ task.lease # 0 => Stage(task) \in {"read", "save"}
    /\ mode = "login" => /\ task.pass \in 1 .. Len(passes')
                         /\ task.calledAt < passes'[task.pass].askedAt + Recheck

\* A statement just called fits.
LEMMA BegunFits ==
  ASSUME PluginsInv, NEW r \in Request, Listening(r), Top(r).agenda # <<>>, NEW fails \in BOOLEAN,
         BeginsACheck, UNCHANGED <<time, granted>>
  PROVE  Fresh(r, Begun(r, fails))
<1> DEFINE task == Begun(r, fails)
           plain == Task(r, fails)
           onTheLogin(pass, stages) == [plain EXCEPT !.pass = pass, !.calledAt = time, !.stages = stages]
<1>1. /\ Top(r).lease \in Nat /\ Len(Top(r).agenda) \in Nat /\ time \in Nat /\ Len(passes) \in Nat
      /\ mine[r] \in Conn \cup {Nothing} /\ remembered \in Nat
  BY Listens, ListenerCalls, BoundsAssumption, SMTT(30) DEF PluginsInv, TypeOK
<1>2. mode \in Modes
  BY DEF PluginsInv, TypeOK, Settings, mode
<1>3. plain \in [lease : Nat, on : Conn \cup {Nothing}, held : Roles, fails : BOOLEAN, ok : BOOLEAN,
                 write : Writes, pass : Nat, calledAt : Nat, stages : {plain.stages}]
      /\ plain.lease = Top(r).lease /\ plain.on = mine[r] /\ plain.write[1] = r /\ plain.held = "library"
      /\ plain.ok = TRUE /\ plain.stages = IF Top(r).lease = 0 THEN <<"pool">> ELSE Inside[mode]
  <2>1. <<r, Top(r).lease, Len(Top(r).agenda)>> \in Writes
    BY <1>1 DEF Writes
  <2> QED  BY <1>1, <2>1 DEF Task, Roles
<1>4. CASE mode # "login"
  <2>1. task = plain
    BY <1>4 DEF Begun
  <2>2. plain.stages \in {<<"pool">>, Inside["unbound"], Inside["role"]}
    BY <1>2, <1>3, <1>4 DEF Modes
  <2>3. \A stages \in {<<"pool">>, Inside["unbound"], Inside["role"]} :
           stages \in Seq(Stages) /\ Head(stages) # "own"
    <3>1. <<"pool">> \in Seq(Stages) /\ Head(<<"pool">>) # "own"
      BY DEF Stages
    <3>2. Inside["unbound"] \in Seq(Stages) /\ Head(Inside["unbound"]) # "own"
      BY DEF Inside, Stages
    <3>3. Inside["role"] \in Seq(Stages) /\ Head(Inside["role"]) # "own"
      BY DEF Inside, Stages
    <3> QED  BY <3>1, <3>2, <3>3
  <2>4. Head(Inside["unbound"]) = "save" /\ Head(Inside["role"]) = "read"
        /\ Inside["unbound"] \in UnboundLeft /\ Inside["role"] \in RoleLeft
    BY DEF Inside, UnboundLeft, RoleLeft
  <2>5. plain \in Tasks /\ Stage(plain) # "own"
    <3> HIDE DEF plain
    <3> QED  BY <1>3, <2>2, <2>3 DEF Tasks, Stage
  <2>6. plain.stages \in LeftOf(plain)
    <3> HIDE DEF plain
    <3> QED  BY <1>2, <1>3, <1>4, <2>4 DEF LeftOf, Modes
  <2>7. plain.lease # 0 => Stage(plain) \in {"read", "save"}
    <3> HIDE DEF plain
    <3> QED  BY <1>2, <1>3, <1>4, <2>4 DEF Stage, Modes
  <2> HIDE DEF plain, task
  <2> QED  BY <1>3, <1>4, <2>1, <2>5, <2>6, <2>7 DEF task, Fresh
<1>5. CASE mode = "login"
  <2> DEFINE pass == IF IsRecent(remembered) THEN remembered ELSE Len(passes) + 1
             stages == IF IsRecent(remembered) THEN <<"await", "own">> ELSE <<"library", "reach", "own">>
  <2>1. task = onTheLogin(pass, stages)
    BY <1>5 DEF Begun
  <2>2. /\ pass \in Nat /\ stages \in Seq(Stages) /\ stages \in LoginLeft /\ Head(stages) # "own"
    <3>1. <<"await", "own">> \in Seq(Stages) /\ Head(<<"await", "own">>) # "own"
          /\ <<"await", "own">> \in LoginLeft
      BY DEF Stages, LoginLeft
    <3>2. <<"library", "reach", "own">> \in Seq(Stages) /\ Head(<<"library", "reach", "own">>) # "own"
          /\ <<"library", "reach", "own">> \in LoginLeft
      BY DEF Stages, LoginLeft
    <3> HIDE DEF LoginLeft, Stages
    <3> QED  BY <1>1, <3>1, <3>2
  <2>3. pass \in 1 .. Len(passes') /\ time < passes'[pass].askedAt + Recheck
    BY <1>5, CheckBegins
  <2> HIDE DEF plain, pass, stages
  <2>4. onTheLogin(pass, stages) \in Tasks /\ onTheLogin(pass, stages).lease = plain.lease
        /\ onTheLogin(pass, stages).on = plain.on /\ onTheLogin(pass, stages).write = plain.write
        /\ onTheLogin(pass, stages).held = plain.held /\ onTheLogin(pass, stages).ok = plain.ok
        /\ onTheLogin(pass, stages).pass = pass /\ onTheLogin(pass, stages).calledAt = time
        /\ onTheLogin(pass, stages).stages = stages
    BY <1>1, <1>3, <2>2 DEF Tasks
  <2> HIDE DEF onTheLogin, task
  <2>5. task.stages \in LeftOf(task)
    BY <1>5, <2>1, <2>2, <2>4 DEF LeftOf
  <2> QED  BY <1>3, <1>5, <2>1, <2>2, <2>3, <2>4, <2>5 DEF Stage, task, Fresh
<1> QED  BY <1>4, <1>5

\* A call begins a statement that is awaited, or one that is left running.
LEMMA CallFits ==
  ASSUME PluginsInv, NEW r \in Request, Listening(r), Top(r).agenda # <<>>, NEW task, Fresh(r, task),
         BeginsACheck,
         UNCHANGED <<started, setting, refusal, registered, hooks, at, answer, mine, leases, conn,
                     time, granted, told, landed, outcome>>,
         \/ /\ Orderly(r) /\ left' = [left EXCEPT ![r] = task] /\ CallReturns(r) /\ UNCHANGED running
         \/ running' = [running EXCEPT ![r] = task] /\ UNCHANGED <<stack, left>>
  PROVE  GoesWell(r)
<1>1. /\ answer[r] = Nothing /\ running[r] = Nothing /\ stack[r] \in Seq(Frames) /\ stack[r] # <<>>
      /\ (Top(r).lease # 0 <=> Lent(r)) /\ Top(r).lease <= leases[r] /\ Top(r).lease \in Nat
      /\ (Orderly(r) /\ Lent(r) => Tidy(conn[mine[r]])) /\ Len(stack[r]) \in Nat
  BY Listens
<1>2. /\ TypeOK /\ RequestFits(r) /\ Reframed(r, WithAgenda(r, Tail(Top(r).agenda)))
  BY ListenerCalls DEF PluginsInv
<1>3. /\ passes' \in Seq(Passes) /\ remembered' \in 0 .. Len(passes') /\ LoginKept /\ PassesFit'
      /\ mode # "login" => UNCHANGED login
  BY CheckBegins
<1>4. /\ running \in [Request -> Tasks \cup {Nothing}] /\ left \in [Request -> Tasks \cup {Nothing, Over}]
      /\ stack \in [Request -> Seq(Frames)] /\ leases[r] \in Nat /\ mine[r] \in Conn \cup {Nothing}
  BY <1>2 DEF TypeOK
<1>5. /\ stack' \in [Request -> Seq(Frames)] /\ Len(stack'[r]) = Len(stack[r])
      /\ \A i \in 1 .. Len(stack[r]) : stack'[r][i].lease = stack[r][i].lease
      /\ \A q \in Request : q # r => stack'[q] = stack[q]
  BY <1>2, <1>4 DEF Reframed, CallReturns
<1>6. /\ running' \in [Request -> Tasks \cup {Nothing}] /\ left' \in [Request -> Tasks \cup {Nothing, Over}]
      /\ \A q \in Request : q # r => running'[q] = running[q] /\ left'[q] = left[q]
  <2>1. task \in Tasks /\ task \in Tasks \cup {Nothing} /\ task \in Tasks \cup {Nothing, Over}
    BY DEF Fresh
  <2>2. CASE running' = [running EXCEPT ![r] = task] /\ left' = left
    BY <1>4, <2>1, <2>2
  <2>3. CASE left' = [left EXCEPT ![r] = task] /\ running' = running
    BY <1>4, <2>1, <2>3
  <2> QED  BY <2>2, <2>3
<1>7. \/ left'[r] = task /\ running'[r] = Nothing /\ Orderly(r)
      \/ running'[r] = task /\ left'[r] = left[r] /\ stack' = stack
  BY <1>1, <1>4
<1>8. task # Nothing /\ task # Over
  BY NothingElse DEF Fresh
<1>9. TypeOK'
  BY <1>2, <1>3, <1>5, <1>6 DEF TypeOK, course, Passes
<1>10. ConnsFit'
  BY DEF PluginsInv, ConnsFit, Lent
<1>11. \A q \in Request : q # r => Same(q)
  BY <1>5, <1>6 DEF Same
<1>12. OnPath(r)'
  BY <1>1, <1>2, PathStays DEF RequestFits
<1>13. Dispatching(r)'
  <2>1. CASE running'[r] = Nothing
    <3>1. leases'[r] >= leases[r] /\ mine'[r] = mine[r] /\ Dispatching(r)
      BY <1>2, <1>4 DEF RequestFits
    <3> QED  BY <1>2, <1>5, <1>9, <2>1, <3>1, DispatchingStays
  <2>2. CASE running'[r] = task /\ stack' = stack
    BY <1>1, <1>2, <2>2 DEF RequestFits, Dispatching, Lent, Top, Fresh
  <2> QED  BY <1>7, <2>1, <2>2
<1>14. \A other \in Underway(r)' : other = task \/ other \in Underway(r)
  BY <1>1, <1>7 DEF Underway
<1>15. FramesKept(r) /\ leases'[r] >= leases[r]
  BY <1>4, <1>5 DEF FramesKept
<1>16. TasksFit(r)'
  <2>1. TaskFits(r, task)'
    <3>1. (task.stages \in LeftOf(task))'
      BY DEF LeftOf, mode, Fresh
    <3>2. task.lease # 0 => task.on \in Conn
      BY <1>1, <1>4 DEF Lent, Fresh
    <3> QED  BY <1>1, <3>1, <3>2 DEF TaskFits, Fresh
  <2>2. \A other \in Underway(r) : other \in Tasks /\ TaskFits(r, other)
    BY <1>2 DEF Underway, TypeOK, RequestFits, TasksFit
  <2>3. ASSUME NEW other \in Underway(r)' PROVE TaskFits(r, other)'
    <3>1. CASE other = task
      BY <2>1, <3>1
    <3>2. CASE other \in Underway(r)
      BY <1>2, <1>9, <1>15, <2>2, <3>2, TaskStays
    <3> QED  BY <1>14, <3>1, <3>2
  <2> QED  BY <2>3 DEF TasksFit
<1>17. Undisturbed(r)'
  BY <1>1, <1>7, <1>8 DEF Undisturbed, Orderly, Lent, mode, Tidy, Stage, Fresh
<1>18. Accounted(r)'
  <2>1. left'[r] = Nothing => left[r] = Nothing
    BY <1>7, <1>8
  <2> QED  BY <1>2, <2>1, AccountedStays DEF RequestFits
<1>19. Unharmed(r)'
  <2>1. left'[r] = Nothing => left[r] = Nothing
    BY <1>7, <1>8
  <2> QED  BY <1>2, <2>1, UnharmedStays DEF RequestFits
<1>20. Timely(r)'
  <2>1. ASSUME mode = "login", NEW other \in Underway(r)' PROVE IsTimely(other)'
    <3>1. CASE other = task
      BY <2>1, <3>1 DEF IsTimely, Stage, Fresh
    <3>2. CASE other \in Underway(r)
      <4>1. IsTimely(other)
        BY <1>2, <2>1, <3>2 DEF RequestFits, Timely
      <4> QED  BY <1>2, <1>3, <1>9, <4>1, CheckStays
    <3> QED  BY <1>14, <3>1, <3>2
  <2> QED  BY <2>1 DEF Timely, mode
<1>21. RequestFits(r)'
  BY <1>12, <1>13, <1>16, <1>17, <1>18, <1>19, <1>20 DEF RequestFits
<1> QED  BY <1>3, <1>9, <1>10, <1>11, <1>21 DEF GoesWell, StaysWell

\* A hook calls a statement.
LEMMA QueryFits ==
  ASSUME PluginsInv, NEW r \in Request, Query(r)
  PROVE  GoesWell(r)
<1> USE DEF starting, requests, dispatches, statements, login, clock, history
<1>1. /\ Listening(r) /\ Top(r).agenda # <<>>
      /\ UNCHANGED <<started, setting, refusal, registered, hooks, at, answer, mine, leases, conn,
                     time, granted, told, landed, outcome>>
  BY DEF Query, Calls
<1>2. \/ CallReturns(r) /\ UNCHANGED <<running, left, passes, remembered>>
      \/ \E fails \in BOOLEAN :
            /\ BeginsACheck
            /\ \/ /\ Orderly(r) /\ left' = [left EXCEPT ![r] = Begun(r, fails)]
                  /\ CallReturns(r) /\ UNCHANGED running
               \/ running' = [running EXCEPT ![r] = Begun(r, fails)] /\ UNCHANGED <<stack, left>>
  <2>1. (Called(r).does = "fail") \in BOOLEAN
    OBVIOUS
  <2> QED  BY <2>1 DEF Query
<1>3. CASE CallReturns(r) /\ UNCHANGED <<running, left, passes, remembered>>
  <2>1. Reframed(r, stack')
    BY <1>1, <1>3, ListenerCalls DEF CallReturns
  <2> QED  BY <1>1, <1>3, <2>1, AgendaFits
<1>4. ASSUME NEW fails \in BOOLEAN, BeginsACheck,
             \/ /\ Orderly(r) /\ left' = [left EXCEPT ![r] = Begun(r, fails)]
                /\ CallReturns(r) /\ UNCHANGED running
             \/ running' = [running EXCEPT ![r] = Begun(r, fails)] /\ UNCHANGED <<stack, left>>
      PROVE  GoesWell(r)
  <2>1. Fresh(r, Begun(r, fails))
    BY <1>1, <1>4, BegunFits
  <2>2. PICK task : task = Begun(r, fails)
    OBVIOUS
  <2> QED  BY <1>1, <1>4, <2>1, <2>2, CallFits
<1> QED  BY <1>2, <1>3, <1>4

(***************************************************************************)
(* What a statement has left                                               *)
(***************************************************************************)
\* After `stage` comes `next`, and what is left then is of the same kind.
Follows(kind, stage, next) ==
    \A stages \in kind : Head(stages) = stage =>
        Tail(stages) \in kind /\ Tail(stages) # <<>> /\ Head(Tail(stages)) = next
Finishes(kind, stage) == \A stages \in kind : Head(stages) = stage => Tail(stages) = <<>>
Kind(kind, heads) == \A stages \in kind : stages \in Seq(Stages) /\ stages # <<>> /\ Head(stages) \in heads

\* What is left of a statement after each stage, for an unbound plugin,
LEMMA UnboundLeftGoesOn ==
  /\ Kind(UnboundLeft, {"save", "run", "release"})
  /\ Follows(UnboundLeft, "save", "run") /\ Follows(UnboundLeft, "run", "release")
  /\ Finishes(UnboundLeft, "release")
<1>1. /\ <<"save", "run", "release">> \in Seq(Stages) /\ <<"save", "run", "release">> # <<>>
      /\ Head(<<"save", "run", "release">>) = "save"
      /\ Tail(<<"save", "run", "release">>) = <<"run", "release">>
  BY DEF Stages
<1>2. /\ <<"run", "release">> \in Seq(Stages) /\ <<"run", "release">> # <<>>
      /\ Head(<<"run", "release">>) = "run"
      /\ Tail(<<"run", "release">>) = <<"release">>
  BY DEF Stages
<1>3. /\ <<"release">> \in Seq(Stages) /\ <<"release">> # <<>>
      /\ Head(<<"release">>) = "release"
      /\ Tail(<<"release">>) = <<>>
  BY DEF Stages
<1>4. \A stages \in UnboundLeft :
        \/ stages = <<"save", "run", "release">>
        \/ stages = <<"run", "release">>
        \/ stages = <<"release">>
  BY DEF UnboundLeft
<1>5. /\ <<"save", "run", "release">> \in UnboundLeft
      /\ <<"run", "release">> \in UnboundLeft
      /\ <<"release">> \in UnboundLeft
  BY DEF UnboundLeft
<1> HIDE DEF UnboundLeft
<1>6. Kind(UnboundLeft, {"save", "run", "release"})
  BY <1>1, <1>2, <1>3, <1>4, <1>5 DEF Kind
<1>7. Follows(UnboundLeft, "save", "run")
  BY <1>1, <1>2, <1>3, <1>4, <1>5 DEF Follows
<1>8. Follows(UnboundLeft, "run", "release")
  BY <1>1, <1>2, <1>3, <1>4, <1>5 DEF Follows
<1>9. Finishes(UnboundLeft, "release")
  BY <1>1, <1>2, <1>3, <1>4, <1>5 DEF Finishes
<1> QED  BY <1>6, <1>7, <1>8, <1>9

\* with a role of its own,
LEMMA RoleLeftGoesOn ==
  /\ Kind(RoleLeft, {"read", "save", "switch", "run", "restore", "release"})
  /\ Follows(RoleLeft, "read", "save") /\ Follows(RoleLeft, "save", "switch")
  /\ Follows(RoleLeft, "switch", "run") /\ Follows(RoleLeft, "run", "restore")
  /\ Follows(RoleLeft, "restore", "release")
  /\ Finishes(RoleLeft, "release")
<1>1. /\ <<"read", "save", "switch", "run", "restore", "release">> \in Seq(Stages) /\ <<"read", "save", "switch", "run", "restore", "release">> # <<>>
      /\ Head(<<"read", "save", "switch", "run", "restore", "release">>) = "read"
      /\ Tail(<<"read", "save", "switch", "run", "restore", "release">>) = <<"save", "switch", "run", "restore", "release">>
  BY DEF Stages
<1>2. /\ <<"save", "switch", "run", "restore", "release">> \in Seq(Stages) /\ <<"save", "switch", "run", "restore", "release">> # <<>>
      /\ Head(<<"save", "switch", "run", "restore", "release">>) = "save"
      /\ Tail(<<"save", "switch", "run", "restore", "release">>) = <<"switch", "run", "restore", "release">>
  BY DEF Stages
<1>3. /\ <<"switch", "run", "restore", "release">> \in Seq(Stages) /\ <<"switch", "run", "restore", "release">> # <<>>
      /\ Head(<<"switch", "run", "restore", "release">>) = "switch"
      /\ Tail(<<"switch", "run", "restore", "release">>) = <<"run", "restore", "release">>
  BY DEF Stages
<1>4. /\ <<"run", "restore", "release">> \in Seq(Stages) /\ <<"run", "restore", "release">> # <<>>
      /\ Head(<<"run", "restore", "release">>) = "run"
      /\ Tail(<<"run", "restore", "release">>) = <<"restore", "release">>
  BY DEF Stages
<1>5. /\ <<"restore", "release">> \in Seq(Stages) /\ <<"restore", "release">> # <<>>
      /\ Head(<<"restore", "release">>) = "restore"
      /\ Tail(<<"restore", "release">>) = <<"release">>
  BY DEF Stages
<1>6. /\ <<"release">> \in Seq(Stages) /\ <<"release">> # <<>>
      /\ Head(<<"release">>) = "release"
      /\ Tail(<<"release">>) = <<>>
  BY DEF Stages
<1>7. \A stages \in RoleLeft :
        \/ stages = <<"read", "save", "switch", "run", "restore", "release">>
        \/ stages = <<"save", "switch", "run", "restore", "release">>
        \/ stages = <<"switch", "run", "restore", "release">>
        \/ stages = <<"run", "restore", "release">>
        \/ stages = <<"restore", "release">>
        \/ stages = <<"release">>
  BY DEF RoleLeft
<1>8. /\ <<"read", "save", "switch", "run", "restore", "release">> \in RoleLeft
      /\ <<"save", "switch", "run", "restore", "release">> \in RoleLeft
      /\ <<"switch", "run", "restore", "release">> \in RoleLeft
      /\ <<"run", "restore", "release">> \in RoleLeft
      /\ <<"restore", "release">> \in RoleLeft
      /\ <<"release">> \in RoleLeft
  BY DEF RoleLeft
<1> HIDE DEF RoleLeft
<1>9. Kind(RoleLeft, {"read", "save", "switch", "run", "restore", "release"})
  BY <1>1, <1>2, <1>3, <1>4, <1>5, <1>6, <1>7, <1>8 DEF Kind
<1>10. Follows(RoleLeft, "read", "save")
  BY <1>1, <1>2, <1>3, <1>4, <1>5, <1>6, <1>7, <1>8 DEF Follows
<1>11. Follows(RoleLeft, "save", "switch")
  BY <1>1, <1>2, <1>3, <1>4, <1>5, <1>6, <1>7, <1>8 DEF Follows
<1>12. Follows(RoleLeft, "switch", "run")
  BY <1>1, <1>2, <1>3, <1>4, <1>5, <1>6, <1>7, <1>8 DEF Follows
<1>13. Follows(RoleLeft, "run", "restore")
  BY <1>1, <1>2, <1>3, <1>4, <1>5, <1>6, <1>7, <1>8 DEF Follows
<1>14. Follows(RoleLeft, "restore", "release")
  BY <1>1, <1>2, <1>3, <1>4, <1>5, <1>6, <1>7, <1>8 DEF Follows
<1>15. Finishes(RoleLeft, "release")
  BY <1>1, <1>2, <1>3, <1>4, <1>5, <1>6, <1>7, <1>8 DEF Finishes
<1> QED  BY <1>9, <1>10, <1>11, <1>12, <1>13, <1>14, <1>15

\* after a failure,
LEMMA UndoLeftGoesOn ==
  /\ Kind(UndoLeft, {"rollback", "discard"})
  /\ Follows(UndoLeft, "rollback", "discard")
  /\ Finishes(UndoLeft, "discard")
<1>1. /\ <<"rollback", "discard">> \in Seq(Stages) /\ <<"rollback", "discard">> # <<>>
      /\ Head(<<"rollback", "discard">>) = "rollback"
      /\ Tail(<<"rollback", "discard">>) = <<"discard">>
  BY DEF Stages
<1>2. /\ <<"discard">> \in Seq(Stages) /\ <<"discard">> # <<>>
      /\ Head(<<"discard">>) = "discard"
      /\ Tail(<<"discard">>) = <<>>
  BY DEF Stages
<1>3. \A stages \in UndoLeft :
        \/ stages = <<"rollback", "discard">>
        \/ stages = <<"discard">>
  BY DEF UndoLeft
<1>4. /\ <<"rollback", "discard">> \in UndoLeft
      /\ <<"discard">> \in UndoLeft
  BY DEF UndoLeft
<1> HIDE DEF UndoLeft
<1>5. Kind(UndoLeft, {"rollback", "discard"})
  BY <1>1, <1>2, <1>3, <1>4 DEF Kind
<1>6. Follows(UndoLeft, "rollback", "discard")
  BY <1>1, <1>2, <1>3, <1>4 DEF Follows
<1>7. Finishes(UndoLeft, "discard")
  BY <1>1, <1>2, <1>3, <1>4 DEF Finishes
<1> QED  BY <1>5, <1>6, <1>7

\* and on the plugin login.
LEMMA LoginLeftGoesOn ==
  /\ Kind(LoginLeft, {"library", "reach", "await", "own"})
  /\ Follows(LoginLeft, "library", "reach") /\ Follows(LoginLeft, "reach", "own")
  /\ Follows(LoginLeft, "await", "own")
  /\ Finishes(LoginLeft, "own")
<1>1. /\ <<"library", "reach", "own">> \in Seq(Stages) /\ <<"library", "reach", "own">> # <<>>
      /\ Head(<<"library", "reach", "own">>) = "library"
      /\ Tail(<<"library", "reach", "own">>) = <<"reach", "own">>
  BY DEF Stages
<1>2. /\ <<"reach", "own">> \in Seq(Stages) /\ <<"reach", "own">> # <<>>
      /\ Head(<<"reach", "own">>) = "reach"
      /\ Tail(<<"reach", "own">>) = <<"own">>
  BY DEF Stages
<1>3. /\ <<"await", "own">> \in Seq(Stages) /\ <<"await", "own">> # <<>>
      /\ Head(<<"await", "own">>) = "await"
      /\ Tail(<<"await", "own">>) = <<"own">>
  BY DEF Stages
<1>4. /\ <<"own">> \in Seq(Stages) /\ <<"own">> # <<>>
      /\ Head(<<"own">>) = "own"
      /\ Tail(<<"own">>) = <<>>
  BY DEF Stages
<1>5. \A stages \in LoginLeft :
        \/ stages = <<"library", "reach", "own">>
        \/ stages = <<"reach", "own">>
        \/ stages = <<"await", "own">>
        \/ stages = <<"own">>
  BY DEF LoginLeft
<1>6. /\ <<"library", "reach", "own">> \in LoginLeft
      /\ <<"reach", "own">> \in LoginLeft
      /\ <<"await", "own">> \in LoginLeft
      /\ <<"own">> \in LoginLeft
  BY DEF LoginLeft
<1> HIDE DEF LoginLeft
<1>7. Kind(LoginLeft, {"library", "reach", "await", "own"})
  BY <1>1, <1>2, <1>3, <1>4, <1>5, <1>6 DEF Kind
<1>8. Follows(LoginLeft, "library", "reach")
  BY <1>1, <1>2, <1>3, <1>4, <1>5, <1>6 DEF Follows
<1>9. Follows(LoginLeft, "reach", "own")
  BY <1>1, <1>2, <1>3, <1>4, <1>5, <1>6 DEF Follows
<1>10. Follows(LoginLeft, "await", "own")
  BY <1>1, <1>2, <1>3, <1>4, <1>5, <1>6 DEF Follows
<1>11. Finishes(LoginLeft, "own")
  BY <1>1, <1>2, <1>3, <1>4, <1>5, <1>6 DEF Finishes
<1> QED  BY <1>7, <1>8, <1>9, <1>10, <1>11

Goes(task, stage, next) ==
    Stage(task) = stage => /\ Tail(task.stages) \in LeftOf(task) /\ Tail(task.stages) # <<>>
                           /\ Head(Tail(task.stages)) = next
IsLast(task, stage) == Stage(task) = stage => Tail(task.stages) = <<>>

\* The stages of a statement, and what comes after each.
LEMMA StagesFit ==
  ASSUME mode \in Modes, NEW task, task.stages \in LeftOf(task)
  PROVE  /\ task.stages \in Seq(Stages) /\ task.stages # <<>>
         /\ mode = "login" => /\ Stage(task) \in {"library", "reach", "await", "own"}
                              /\ Goes(task, "library", "reach") /\ Goes(task, "reach", "own")
                              /\ Goes(task, "await", "own")
         /\ mode # "login" /\ task.lease = 0 => Stage(task) = "pool"
         /\ mode # "login" /\ task.lease # 0 =>
              /\ Stage(task) \in {"read", "save", "switch", "run", "restore", "release", "rollback", "discard"}
              /\ mode # "role" => Stage(task) \notin {"read", "switch", "restore"}
              /\ Goes(task, "read", "save") /\ Goes(task, "switch", "run") /\ Goes(task, "restore", "release")
              /\ Goes(task, "save", IF mode = "role" THEN "switch" ELSE "run")
              /\ Goes(task, "run", IF mode = "role" THEN "restore" ELSE "release")
              /\ Goes(task, "rollback", "discard")
              /\ IsLast(task, "release") /\ IsLast(task, "discard")
              /\ <<"rollback", "discard">> \in LeftOf(task)
<1>1. mode = "unbound" \/ mode = "role" \/ mode = "login"
  BY DEF Modes
<1>2. CASE mode = "login"
  <2>1. LeftOf(task) = LoginLeft
    BY <1>2 DEF LeftOf
  <2> QED  BY <1>2, <2>1, LoginLeftGoesOn DEF Kind, Follows, Goes, Stage
<1>3. CASE mode # "login" /\ task.lease = 0
  <2>1. LeftOf(task) = {<<"pool">>}
    BY <1>3 DEF LeftOf
  <2>2. task.stages = <<"pool">>
    BY <2>1
  <2>3. <<"pool">> \in Seq(Stages) /\ <<"pool">> # <<>> /\ Head(<<"pool">>) = "pool"
    BY DEF Stages
  <2> QED  BY <1>3, <2>2, <2>3 DEF Stage
<1>4. <<"rollback", "discard">> \in UndoLeft
  BY DEF UndoLeft
<1>5. CASE mode = "unbound" /\ task.lease # 0
  <2>1. LeftOf(task) = UnboundLeft \cup UndoLeft
    BY <1>5 DEF LeftOf
  <2>2. CASE task.stages \in UnboundLeft
    BY <1>4, <1>5, <2>1, <2>2, UnboundLeftGoesOn DEF Kind, Follows, Finishes, Goes, IsLast, Stage
  <2>3. CASE task.stages \in UndoLeft
    BY <1>4, <1>5, <2>1, <2>3, UndoLeftGoesOn DEF Kind, Follows, Finishes, Goes, IsLast, Stage
  <2> QED  BY <2>1, <2>2, <2>3
<1>6. CASE mode = "role" /\ task.lease # 0
  <2>1. LeftOf(task) = RoleLeft \cup UndoLeft
    BY <1>6 DEF LeftOf
  <2>2. CASE task.stages \in RoleLeft
    BY <1>4, <1>6, <2>1, <2>2, RoleLeftGoesOn DEF Kind, Follows, Finishes, Goes, IsLast, Stage
  <2>3. CASE task.stages \in UndoLeft
    BY <1>4, <1>6, <2>1, <2>3, UndoLeftGoesOn DEF Kind, Follows, Finishes, Goes, IsLast, Stage
  <2> QED  BY <2>1, <2>2, <2>3
<1> QED  BY <1>1, <1>2, <1>3, <1>5, <1>6

\* The same statement later.
Continues(task, next) ==
    /\ next \in Tasks /\ next.lease = task.lease /\ next.on = task.on /\ next.write = task.write
    /\ next.pass = task.pass /\ next.calledAt = task.calledAt
    /\ next.stages # <<>> => next.stages \in LeftOf(next)

\* What becomes of the request when its statement is settled.
LEMMA SettledWell ==
  ASSUME PluginsInv, NEW r \in Request, NEW task \in Underway(r), NEW next, Continues(task, next),
         Settles(r, task, next)
  PROVE  /\ task \in Tasks /\ TaskFits(r, task) /\ task # Nothing /\ task # Over
         /\ running' \in [Request -> Tasks \cup {Nothing}] /\ left' \in [Request -> Tasks \cup {Nothing, Over}]
         /\ stack' \in [Request -> Seq(Frames)] /\ Len(stack'[r]) = Len(stack[r]) /\ Len(stack[r]) \in Nat
         /\ (\A i \in 1 .. Len(stack[r]) : stack'[r][i].lease = stack[r][i].lease)
         /\ (\A q \in Request : q # r => running'[q] = running[q] /\ left'[q] = left[q] /\ stack'[q] = stack[q])
         /\ \/ running'[r] = Nothing
            \/ (running'[r] = running[r] \/ (task = running[r] /\ running'[r] = next)) /\ stack' = stack
         /\ (\A other \in Underway(r)' : (other = next /\ next.stages # <<>>) \/ other \in Underway(r))
         /\ told' = told \/ told' = told \cup {task.write}
         /\ left'[r] = Nothing =>
              /\ left[r] = Nothing /\ task = running[r]
              /\ running'[r] = IF next.stages # <<>> THEN next ELSE Nothing
              /\ told' = IF next.stages = <<>> /\ next.ok /\ task.lease # 0 /\ mode # "login"
                         THEN told \cup {task.write} ELSE told
<1>1. TypeOK /\ RequestFits(r)
  BY DEF PluginsInv
<1>2. /\ running \in [Request -> Tasks \cup {Nothing}] /\ left \in [Request -> Tasks \cup {Nothing, Over}]
      /\ stack \in [Request -> Seq(Frames)] /\ Len(stack[r]) \in Nat
  BY <1>1 DEF TypeOK
<1>3. /\ task \in Tasks /\ task # Nothing /\ task # Over /\ (task = running[r] \/ task = left[r])
  BY <1>2, NothingElse DEF Underway
<1>4. TaskFits(r, task)
  BY <1>1 DEF RequestFits, TasksFit
<1>5. next \in Tasks /\ next # Nothing /\ next # Over
  BY NothingElse DEF Continues
<1>6. \/ /\ next.stages # <<>> /\ task = running[r] /\ running' = [running EXCEPT ![r] = next]
         /\ left' = left /\ stack' = stack /\ told' = told
      \/ /\ next.stages # <<>> /\ task = left[r] /\ left' = [left EXCEPT ![r] = next]
         /\ running' = running /\ stack' = stack /\ told' = told
      \/ /\ next.stages = <<>> /\ task = running[r] /\ running' = [running EXCEPT ![r] = Nothing]
         /\ CallReturns(r) /\ left' = left
         /\ told' = IF next.ok /\ task.lease # 0 /\ mode # "login" THEN told \cup {task.write} ELSE told
      \/ /\ next.stages = <<>> /\ task = left[r] /\ left' = [left EXCEPT ![r] = Over]
         /\ running' = running /\ stack' = stack /\ told' = told
  BY DEF Settles
<1>7. /\ running' \in [Request -> Tasks \cup {Nothing}] /\ left' \in [Request -> Tasks \cup {Nothing, Over}]
      /\ \A q \in Request : q # r => running'[q] = running[q] /\ left'[q] = left[q]
  BY <1>2, <1>5, <1>6
<1>8. /\ stack' \in [Request -> Seq(Frames)] /\ Len(stack'[r]) = Len(stack[r])
      /\ (\A i \in 1 .. Len(stack[r]) : stack'[r][i].lease = stack[r][i].lease)
      /\ (\A q \in Request : q # r => stack'[q] = stack[q])
  <2>1. CASE stack' = stack
    BY <1>2, <2>1
  <2>2. CASE CallReturns(r) /\ task = running[r]
    <3>1. stack[r] # <<>> /\ Top(r).agenda # <<>>
      BY <1>1, <1>3, <2>2 DEF RequestFits, Dispatching
    <3>2. Tail(Top(r).agenda) \in Seq(Calling)
      <4>1. Top(r) \in Frames
        BY <1>2, <3>1, FrontAndLast DEF Top
      <4>2. Top(r).agenda \in Seq(Calling)
        BY <4>1 DEF Frames
      <4> QED  BY <3>1, <4>2
    <3>3. Reframed(r, stack')
      BY <1>1, <2>2, <3>1, <3>2, AgendaMoves DEF CallReturns
    <3> QED  BY <3>3 DEF Reframed
  <2> QED  BY <1>6, <2>1, <2>2
<1>9. \/ running'[r] = Nothing
      \/ (running'[r] = running[r] \/ (task = running[r] /\ running'[r] = next)) /\ stack' = stack
  BY <1>2, <1>6
<1>10. \A other \in Underway(r)' : (other = next /\ next.stages # <<>>) \/ other \in Underway(r)
  BY <1>2, <1>6 DEF Underway
<1>11. told' = told \/ told' = told \cup {task.write}
  BY <1>6
<1>12. ASSUME left'[r] = Nothing
       PROVE  /\ left[r] = Nothing /\ task = running[r]
              /\ running'[r] = IF next.stages # <<>> THEN next ELSE Nothing
              /\ told' = IF next.stages = <<>> /\ next.ok /\ task.lease # 0 /\ mode # "login"
                         THEN told \cup {task.write} ELSE told
  <2>1. left[r] = Nothing
    BY <1>2, <1>3, <1>5, <1>6, <1>12, NothingElse
  <2>2. task # left[r]
    BY <1>3, <2>1
  <2> QED  BY <1>2, <1>6, <2>1, <2>2
<1> QED  BY <1>2, <1>3, <1>4, <1>7, <1>8, <1>9, <1>10, <1>11, <1>12

\* A statement goes on: all that is left to show is what it did to the connection.
LEMMA StatementFits ==
  ASSUME PluginsInv, NEW r \in Request, NEW task \in Underway(r), NEW next, Continues(task, next),
         Settles(r, task, next),
         UNCHANGED <<started, setting, refusal, registered, hooks, at, answer, mine, leases,
                     time, granted, landed, outcome>>,
         passes' \in Seq(Passes), remembered' \in 0 .. Len(passes'), LoginKept, PassesFit',
         conn' \in [Conn -> Connections], ConnsFit',
         \A q \in Request : q # r /\ Lent(q) => conn'[mine[q]] = conn[mine[q]],
         next.stages # <<>> /\ Stage(next) = "own" /\ granted # Nothing
            => passes'[next.pass].askedAt <= granted,
         Undisturbed(r)', Accounted(r)'
  PROVE  GoesWell(r)
<1>1. /\ task \in Tasks /\ TaskFits(r, task) /\ task # Nothing /\ task # Over
      /\ running' \in [Request -> Tasks \cup {Nothing}] /\ left' \in [Request -> Tasks \cup {Nothing, Over}]
      /\ stack' \in [Request -> Seq(Frames)] /\ Len(stack'[r]) = Len(stack[r]) /\ Len(stack[r]) \in Nat
      /\ (\A i \in 1 .. Len(stack[r]) : stack'[r][i].lease = stack[r][i].lease)
      /\ (\A q \in Request : q # r => running'[q] = running[q] /\ left'[q] = left[q] /\ stack'[q] = stack[q])
      /\ \/ running'[r] = Nothing
         \/ (running'[r] = running[r] \/ (task = running[r] /\ running'[r] = next)) /\ stack' = stack
      /\ (\A other \in Underway(r)' : (other = next /\ next.stages # <<>>) \/ other \in Underway(r))
      /\ told' = told \/ told' = told \cup {task.write}
      /\ left'[r] = Nothing => left[r] = Nothing
  BY SettledWell
<1>2. TypeOK /\ RequestFits(r) /\ leases[r] \in Nat
      /\ Len(stack[r]) <= MaxDepth
      /\ told \subseteq Writes
  BY DEF PluginsInv, TypeOK
<1>3. /\ next \in Tasks /\ next.lease = task.lease /\ next.on = task.on /\ next.write = task.write
      /\ next.pass = task.pass /\ next.calledAt = task.calledAt
      /\ next.stages # <<>> => next.stages \in LeftOf(next)
  BY DEF Continues
<1>4. told' \subseteq Writes /\ task.write[1] = r
  <2>1. task.write \in Writes /\ task.write[1] = r
    BY <1>1 DEF Tasks, TaskFits
  <2> QED  BY <1>1, <1>2, <2>1
<1>5. TypeOK'
  <2>1. \A q \in Request : Len(stack'[q]) <= MaxDepth
    BY <1>1, <1>2 DEF TypeOK
  <2> QED  BY <1>1, <1>2, <1>4, <2>1 DEF TypeOK, course, Passes
<1>6. \A q \in Request : q # r => Same(q)
  <2>1. \A q \in Request : q # r => WrittenBy(q, told') = WrittenBy(q, told)
    BY <1>1, <1>4 DEF WrittenBy
  <2> QED  BY <1>1, <2>1 DEF Same
<1>7. OnPath(r)'
  <2>1. stack[r] = <<>> => stack'[r] = <<>>
    BY <1>1
  <2> QED  BY <1>2, <2>1, PathStays DEF RequestFits
<1>8. leases'[r] >= leases[r] /\ mine'[r] = mine[r] /\ Dispatching(r)
  BY <1>2 DEF RequestFits
<1>9. Dispatching(r)'
  <2>1. CASE running'[r] = Nothing \/ (running'[r] = running[r] /\ stack' = stack)
    BY <1>1, <1>2, <1>5, <1>8, <2>1, DispatchingStays
  <2>2. CASE task = running[r] /\ running'[r] = next /\ stack' = stack
    BY <1>1, <1>2, <1>3, <2>2 DEF RequestFits, Dispatching, Lent, Top
  <2> QED  BY <1>1, <2>1, <2>2
<1>10. FramesKept(r)
  BY <1>1 DEF FramesKept
<1>11. TasksFit(r)'
  <2>1. TaskFits(r, task)'
    BY <1>1, <1>2, <1>5, <1>8, <1>10, TaskStays
  <2>2. next.stages # <<>> => TaskFits(r, next)'
    BY <1>3, <2>1 DEF TaskFits, LeftOf, mode, Usable
  <2>3. \A other \in Underway(r) : other \in Tasks /\ TaskFits(r, other)
    BY <1>2 DEF Underway, TypeOK, RequestFits, TasksFit
  <2>4. ASSUME NEW other \in Underway(r)' PROVE TaskFits(r, other)'
    <3>1. CASE other = next /\ next.stages # <<>>
      BY <2>2, <3>1
    <3>2. CASE other \in Underway(r)
      BY <1>2, <1>5, <1>8, <1>10, <2>3, <3>2, TaskStays
    <3> QED  BY <1>1, <3>1, <3>2
  <2> QED  BY <2>4 DEF TasksFit
<1>12. Unharmed(r)'
  BY <1>1, <1>2, UnharmedStays DEF RequestFits
<1>13. Timely(r)'
  <2>1. ASSUME mode = "login", NEW other \in Underway(r)' PROVE IsTimely(other)'
    <3>1. IsTimely(task) /\ \A o \in Underway(r) : IsTimely(o)
      BY <1>2, <2>1 DEF RequestFits, Timely
    <3>2. IsTimely(task)' /\ \A o \in Underway(r) : IsTimely(o)'
      BY <1>2, <1>5, <3>1, CheckStays
    <3>3. CASE other = next /\ next.stages # <<>>
      BY <1>3, <3>2, <3>3 DEF IsTimely, Stage
    <3> QED  BY <1>1, <3>2, <3>3
  <2> QED  BY <2>1 DEF Timely, mode
<1>14. RequestFits(r)'
  BY <1>7, <1>9, <1>11, <1>12, <1>13 DEF RequestFits
<1> QED  BY <1>5, <1>6, <1>14 DEF GoesWell, StaysWell

\* What is under way is a statement that fits.
LEMMA UnderwayIs ==
  ASSUME PluginsInv, NEW r \in Request, NEW task \in Underway(r)
  PROVE  /\ task \in Tasks /\ TaskFits(r, task) /\ mode \in Modes /\ task.stages \in LeftOf(task)
         /\ mode = "login" => IsTimely(task)
<1>1. TypeOK /\ RequestFits(r)
  BY DEF PluginsInv
<1>2. task \in Tasks
  BY <1>1 DEF TypeOK, Underway
<1>3. TaskFits(r, task) /\ task.stages \in LeftOf(task)
  BY <1>1 DEF RequestFits, TasksFit, TaskFits
<1>4. mode \in Modes
  BY <1>1 DEF TypeOK, Settings, mode
<1>5. mode = "login" => IsTimely(task)
  BY <1>1 DEF RequestFits, Timely
<1> QED  BY <1>2, <1>3, <1>4, <1>5

\* A stage that is done leaves the statement the rest of them.
LEMMA RestContinues ==
  ASSUME NEW task \in Tasks, task.stages # <<>>, NEW held \in Roles, NEW ok \in BOOLEAN,
         Tail(task.stages) = <<>> \/ Tail(task.stages) \in LeftOf(task)
  PROVE  LET next == [task EXCEPT !.stages = Tail(@), !.held = held, !.ok = ok]
         IN  Continues(task, next) /\ next.stages = Tail(task.stages) /\ next.held = held /\ next.ok = ok
<1> DEFINE rest == Tail(task.stages)
           next == [task EXCEPT !.stages = rest, !.held = held, !.ok = ok]
<1>1. rest \in Seq(Stages)
  <2>1. task.stages \in Seq(Stages)
    BY DEF Tasks
  <2> QED  BY <2>1
<1>2. rest = <<>> \/ rest \in LeftOf(task)
  OBVIOUS
<1> HIDE DEF rest
<1>3. /\ next \in Tasks /\ next.lease = task.lease /\ next.on = task.on /\ next.write = task.write
      /\ next.pass = task.pass /\ next.calledAt = task.calledAt /\ next.stages = rest
      /\ next.held = held /\ next.ok = ok
  BY <1>1 DEF Tasks
<1> HIDE DEF next
<1>4. Continues(task, next)
  BY <1>2, <1>3 DEF Continues, LeftOf
<1> QED  BY <1>3, <1>4 DEF next, rest

\* A statement that is over has nothing left.
LEMMA OverContinues ==
  ASSUME NEW task \in Tasks, NEW ok \in BOOLEAN
  PROVE  LET next == [task EXCEPT !.stages = <<>>, !.ok = ok]
         IN  Continues(task, next) /\ next.stages = <<>> /\ next.ok = ok
<1>1. <<>> \in Seq(Stages)
  OBVIOUS
<1> QED  BY <1>1 DEF Tasks, Continues

\* A statement on the pool or on the plugin login leaves the connections alone.
LEMMA ApartFits ==
  ASSUME PluginsInv, NEW r \in Request, NEW task \in Underway(r), NEW next, Continues(task, next),
         Settles(r, task, next), mode = "login" \/ task.lease = 0,
         UNCHANGED <<started, setting, refusal, registered, hooks, at, answer, mine, leases, conn,
                     time, granted, landed, outcome>>,
         passes' \in Seq(Passes), remembered' \in 0 .. Len(passes'), LoginKept, PassesFit',
         next.stages # <<>> /\ Stage(next) = "own" /\ granted # Nothing
            => passes'[next.pass].askedAt <= granted
  PROVE  GoesWell(r)
<1>1. /\ task # Nothing
      /\ left'[r] = Nothing =>
           /\ left[r] = Nothing /\ task = running[r]
           /\ told' = IF next.stages = <<>> /\ next.ok /\ task.lease # 0 /\ mode # "login"
                      THEN told \cup {task.write} ELSE told
  BY SettledWell
<1>2. TypeOK /\ RequestFits(r) /\ conn \in [Conn -> Connections] /\ ConnsFit'
  BY DEF PluginsInv, TypeOK, ConnsFit, Lent
<1>3. ASSUME left'[r] = Nothing PROVE told' = told /\ Orderly(r) /\ (Lent(r) => mode = "login")
  <2>1. task = running[r] /\ Orderly(r) /\ told' = told
    BY <1>1, <1>3 DEF Orderly
  <2>2. stack[r] # <<>> /\ running[r].lease = Top(r).lease
    BY <1>1, <1>2, <2>1 DEF RequestFits, Dispatching
  <2>3. Top(r).lease # 0 <=> Lent(r)
    <3>1. stack[r] \in Seq(Frames)
      BY <1>2 DEF TypeOK
    <3>2. Len(stack[r]) \in Nat /\ Len(stack[r]) >= 1 /\ Top(r) = stack[r][Len(stack[r])]
      BY <2>2, <3>1, FrontAndLast DEF Top
    <3>3. Len(stack[r]) \in DOMAIN stack[r]
      BY <3>1, <3>2
    <3> QED  BY <1>2, <3>2, <3>3 DEF RequestFits, Dispatching
  <2> QED  BY <2>1, <2>2, <2>3
<1>4. Undisturbed(r)'
  <2>1. ASSUME left'[r] = Nothing, Lent(r) PROVE mode = "login" /\ Tidy(conn[mine[r]])
    BY <1>2, <1>3, <2>1 DEF RequestFits, Undisturbed
  <2> QED  BY <2>1 DEF Undisturbed, Orderly, Lent, mode, Tidy
<1>5. Accounted(r)'
  <2>1. CASE left'[r] = Nothing
    BY <1>2, <1>3, <2>1, AccountedStays DEF RequestFits, Orderly
  <2>2. CASE left'[r] # Nothing
    BY <2>2 DEF Accounted, Orderly
  <2> QED  BY <2>1, <2>2
<1> QED  BY <1>2, <1>4, <1>5, StatementFits

\* A statement on a connection of its own.
LEMMA SendOnThePoolFits ==
  ASSUME PluginsInv, NEW r \in Request, SendOnThePool(r)
  PROVE  GoesWell(r)
<1> USE DEF starting, requests, dispatches, statements, login, clock, history
<1>1. UNCHANGED <<started, setting, refusal, registered, hooks, at, answer, mine, leases, conn,
                  passes, remembered, time, granted, landed, outcome>>
  BY DEF SendOnThePool
<1>2. PICK task \in Underway(r) :
          Stage(task) = "pool" /\ Settles(r, task, [task EXCEPT !.stages = <<>>, !.ok = ~task.fails])
  BY DEF SendOnThePool, InExecution
<1>3. PICK next : next = [task EXCEPT !.stages = <<>>, !.ok = ~task.fails]
  OBVIOUS
<1>4. task \in Tasks /\ mode \in Modes /\ task.stages \in LeftOf(task)
  BY UnderwayIs
<1>5. mode = "login" \/ task.lease = 0
  BY <1>2, <1>4, StagesFit
<1>6. Continues(task, next) /\ next.stages = <<>>
  <2>1. (~task.fails) \in BOOLEAN
    BY Zenon
  <2> QED  BY <1>3, <1>4, <2>1, OverContinues
<1>7. passes' \in Seq(Passes) /\ remembered' \in 0 .. Len(passes') /\ LoginKept /\ PassesFit'
  BY <1>1, Standstill DEF PluginsInv, TypeOK, Passes
<1> QED  BY <1>1, <1>2, <1>3, <1>5, <1>6, <1>7, ApartFits

\* A statement on the plugin login.
LEMMA RunOnTheLoginFits ==
  ASSUME PluginsInv, NEW r \in Request, RunOnTheLogin(r)
  PROVE  GoesWell(r)
<1> USE DEF starting, requests, dispatches, statements, login, clock, history
<1>1. UNCHANGED <<started, setting, refusal, registered, hooks, at, answer, mine, leases, conn,
                  passes, remembered, time, granted, landed, outcome>>
  BY DEF RunOnTheLogin
<1>2. PICK task \in Underway(r) :
          Stage(task) = "own" /\ Settles(r, task, [task EXCEPT !.stages = <<>>, !.ok = ~task.fails])
  BY DEF RunOnTheLogin, InExecution
<1>3. PICK next : next = [task EXCEPT !.stages = <<>>, !.ok = ~task.fails]
  OBVIOUS
<1>4. task \in Tasks /\ mode \in Modes /\ task.stages \in LeftOf(task)
  BY UnderwayIs
<1>5. mode = "login" \/ task.lease = 0
  BY <1>2, <1>4, StagesFit
<1>6. Continues(task, next) /\ next.stages = <<>>
  <2>1. (~task.fails) \in BOOLEAN
    BY Zenon
  <2> QED  BY <1>3, <1>4, <2>1, OverContinues
<1>7. passes' \in Seq(Passes) /\ remembered' \in 0 .. Len(passes') /\ LoginKept /\ PassesFit'
  BY <1>1, Standstill DEF PluginsInv, TypeOK, Passes
<1> QED  BY <1>1, <1>2, <1>3, <1>5, <1>6, <1>7, ApartFits

\* A check ends as it ends; none passes once the login was granted a core table.
LEMMA CheckEndsWell ==
  ASSUME PluginsInv, NEW r \in Request, NEW task \in Underway(r), mode = "login", UNCHANGED <<time, granted>>,
         NEW state \in {"passed", "failed"}, CheckEnds(task, state), state = "passed" => granted = Nothing
  PROVE  passes' \in Seq(Passes) /\ remembered' \in 0 .. Len(passes') /\ LoginKept /\ PassesFit'
<1>1. passes \in Seq(Passes) /\ remembered \in 0 .. Len(passes) /\ Len(passes) \in Nat
  BY DEF PluginsInv, TypeOK, Passes
<1>2. task.pass \in 1 .. Len(passes)
  BY UnderwayIs DEF IsTimely
<1> DEFINE new == [passes[task.pass] EXCEPT !.state = state]
<1>3. passes[task.pass] \in Passes
  BY <1>1, <1>2
<1>4. new \in Passes /\ new.askedAt = passes[task.pass].askedAt /\ new.state = state
  BY <1>3 DEF Passes
<1>5. passes' = [passes EXCEPT ![task.pass] = new]
  BY DEF CheckEnds
<1> HIDE DEF new
<1>6. /\ passes' \in Seq(Passes) /\ Len(passes') = Len(passes) /\ passes'[task.pass] = new
      /\ DOMAIN passes' = 1 .. Len(passes) /\ DOMAIN passes = 1 .. Len(passes)
      /\ \A i \in 1 .. Len(passes) : i # task.pass => passes'[i] = passes[i]
  BY <1>1, <1>2, <1>4, <1>5
<1>7. remembered' \in 0 .. Len(passes')
  BY <1>1, <1>6 DEF CheckEnds
<1>8. LoginKept
  BY <1>1, <1>4, <1>6 DEF LoginKept
<1>9. PassesFit'
  BY <1>4, <1>6 DEF PluginsInv, PassesFit
<1> QED  BY <1>6, <1>7, <1>8, <1>9

\* A check that failed ends the statement.
LEMMA FailedContinues ==
  ASSUME NEW task \in Tasks
  PROVE  Continues(task, Failed(task)) /\ Failed(task).stages = <<>>
BY OverContinues DEF Failed

\* One that passed lets it run on the login.
LEMMA PassedContinues ==
  ASSUME NEW task \in Tasks, mode = "login", task.stages \in LeftOf(task), Stage(task) # "own"
  PROVE  /\ Continues(task, Passed(task)) /\ Passed(task).pass = task.pass
         /\ Stage(task) = "library" => Stage(Passed(task)) # "own"
<1>1. /\ task.stages # <<>> /\ Tail(task.stages) \in LeftOf(task)
      /\ Stage(task) = "library" => Head(Tail(task.stages)) = "reach"
  BY StagesFit DEF Goes, Modes
<1>2. task.held \in Roles /\ task.ok \in BOOLEAN /\ task.stages \in Seq(Stages)
  BY DEF Tasks
<1> DEFINE rest == Tail(task.stages)
<1>3. rest \in Seq(Stages)
  BY <1>1, <1>2
<1> HIDE DEF rest
<1>4. [task EXCEPT !.stages = rest] \in Tasks
  BY <1>3 DEF Tasks
<1>5. Continues(task, [task EXCEPT !.stages = rest])
  BY <1>1, <1>4 DEF Continues, LeftOf, Tasks, rest
<1>6. Passed(task) = [task EXCEPT !.stages = rest]
  BY DEF Passed, rest
<1>7. Passed(task).stages = rest /\ Passed(task).pass = task.pass
  BY <1>6 DEF Tasks
<1> QED  BY <1>1, <1>5, <1>6, <1>7 DEF Stage, rest

\* The library answers first, then the reach of the login is asked for,
LEMMA AskTheLibraryFits ==
  ASSUME PluginsInv, NEW r \in Request, AskTheLibrary(r)
  PROVE  GoesWell(r)
<1> USE DEF starting, requests, dispatches, statements, login, clock, history
<1>1. UNCHANGED <<started, setting, refusal, registered, hooks, at, answer, mine, leases, conn,
                  time, granted, landed, outcome>>
  BY DEF AskTheLibrary
<1>2. PICK task \in Underway(r) :
          /\ Stage(task) = "library"
          /\ \/ CheckEnds(task, "failed") /\ Settles(r, task, Failed(task))
             \/ Settles(r, task, Passed(task)) /\ UNCHANGED <<passes, remembered>>
  BY DEF AskTheLibrary, InExecution
<1>3. task \in Tasks /\ mode \in Modes /\ task.stages \in LeftOf(task)
  BY UnderwayIs
<1>4. mode = "login"
  BY <1>2, <1>3, StagesFit
<1>5. CASE CheckEnds(task, "failed") /\ Settles(r, task, Failed(task))
  <2>1. passes' \in Seq(Passes) /\ remembered' \in 0 .. Len(passes') /\ LoginKept /\ PassesFit'
    BY <1>1, <1>4, <1>5, CheckEndsWell
  <2>2. PICK next : next = Failed(task)
    OBVIOUS
  <2>3. Continues(task, next) /\ next.stages = <<>>
    BY <1>3, <2>2, FailedContinues
  <2> QED  BY <1>1, <1>4, <1>5, <2>1, <2>2, <2>3, ApartFits
<1>6. CASE Settles(r, task, Passed(task)) /\ UNCHANGED <<passes, remembered>>
  <2>1. passes' \in Seq(Passes) /\ remembered' \in 0 .. Len(passes') /\ LoginKept /\ PassesFit'
    BY <1>1, <1>6, Standstill DEF PluginsInv, TypeOK, Passes
  <2>2. PICK next : next = Passed(task)
    OBVIOUS
  <2>3. Continues(task, next) /\ Stage(next) # "own"
    BY <1>2, <1>3, <1>4, <2>2, PassedContinues
  <2> QED  BY <1>1, <1>4, <1>6, <2>1, <2>2, <2>3, ApartFits
<1> QED  BY <1>2, <1>5, <1>6

\* the database answers,
LEMMA AskTheReachFits ==
  ASSUME PluginsInv, NEW r \in Request, AskTheReach(r)
  PROVE  GoesWell(r)
<1> USE DEF starting, requests, dispatches, statements, login, clock, history
<1>1. UNCHANGED <<started, setting, refusal, registered, hooks, at, answer, mine, leases, conn,
                  time, granted, landed, outcome>>
  BY DEF AskTheReach
<1>2. PICK task \in Underway(r) :
          /\ Stage(task) = "reach"
          /\ \/ CheckEnds(task, "failed") /\ Settles(r, task, Failed(task))
             \/ granted = Nothing /\ CheckEnds(task, "passed") /\ Settles(r, task, Passed(task))
  BY DEF AskTheReach, InExecution
<1>3. task \in Tasks /\ mode \in Modes /\ task.stages \in LeftOf(task)
  BY UnderwayIs
<1>4. mode = "login"
  BY <1>2, <1>3, StagesFit
<1>5. CASE CheckEnds(task, "failed") /\ Settles(r, task, Failed(task))
  <2>1. passes' \in Seq(Passes) /\ remembered' \in 0 .. Len(passes') /\ LoginKept /\ PassesFit'
    BY <1>1, <1>4, <1>5, CheckEndsWell
  <2>2. PICK next : next = Failed(task)
    OBVIOUS
  <2>3. Continues(task, next) /\ next.stages = <<>>
    BY <1>3, <2>2, FailedContinues
  <2> QED  BY <1>1, <1>4, <1>5, <2>1, <2>2, <2>3, ApartFits
<1>6. CASE granted = Nothing /\ CheckEnds(task, "passed") /\ Settles(r, task, Passed(task))
  <2>1. passes' \in Seq(Passes) /\ remembered' \in 0 .. Len(passes') /\ LoginKept /\ PassesFit'
    BY <1>1, <1>4, <1>6, CheckEndsWell
  <2>2. PICK next : next = Passed(task)
    OBVIOUS
  <2>3. Continues(task, next)
    BY <1>2, <1>3, <1>4, <2>2, PassedContinues
  <2> QED  BY <1>1, <1>4, <1>6, <2>1, <2>2, <2>3, ApartFits
<1> QED  BY <1>2, <1>5, <1>6

\* and whoever shares the check awaits that answer.
LEMMA AwaitTheCheckFits ==
  ASSUME PluginsInv, NEW r \in Request, AwaitTheCheck(r)
  PROVE  GoesWell(r)
<1> USE DEF starting, requests, dispatches, statements, login, clock, history
<1>1. UNCHANGED <<started, setting, refusal, registered, hooks, at, answer, mine, leases, conn,
                  passes, remembered, time, granted, landed, outcome>>
  BY DEF AwaitTheCheck
<1>2. PICK task \in Underway(r) :
          /\ Stage(task) = "await"
          /\ \/ Settles(r, task, Failed(task))
             \/ passes[task.pass].state = "passed" /\ Settles(r, task, Passed(task))
  BY DEF AwaitTheCheck, InExecution
<1>3. task \in Tasks /\ mode \in Modes /\ task.stages \in LeftOf(task)
  BY UnderwayIs
<1>4. mode = "login"
  BY <1>2, <1>3, StagesFit
<1>5. passes' \in Seq(Passes) /\ remembered' \in 0 .. Len(passes') /\ LoginKept /\ PassesFit'
  BY <1>1, Standstill DEF PluginsInv, TypeOK, Passes
<1>6. CASE Settles(r, task, Failed(task))
  <2>1. PICK next : next = Failed(task)
    OBVIOUS
  <2>2. Continues(task, next) /\ next.stages = <<>>
    BY <1>3, <2>1, FailedContinues
  <2> QED  BY <1>1, <1>4, <1>5, <1>6, <2>1, <2>2, ApartFits
<1>7. CASE passes[task.pass].state = "passed" /\ Settles(r, task, Passed(task))
  <2>1. PICK next : next = Passed(task)
    OBVIOUS
  <2>2. Continues(task, next) /\ next.pass = task.pass
    BY <1>2, <1>3, <1>4, <2>1, PassedContinues
  <2>3. granted # Nothing => passes'[next.pass].askedAt <= granted
    <3>1. task.pass \in 1 .. Len(passes)
      BY <1>4, UnderwayIs DEF IsTimely
    <3>2. task.pass \in DOMAIN passes
      BY <3>1 DEF PluginsInv, TypeOK
    <3> QED  BY <1>1, <1>7, <2>2, <3>2 DEF PluginsInv, PassesFit
  <2> QED  BY <1>1, <1>4, <1>5, <1>7, <2>1, <2>2, <2>3, ApartFits
<1> QED  BY <1>2, <1>6, <1>7

(***************************************************************************)
(* A statement on a lent connection                                        *)
(***************************************************************************)
Saves == [role : Roles, writes : SUBSET Writes]
\* What a statement changes of the connection it is sent on.
Changed(k, k2, role, aborted, writes, saves) ==
    /\ k2 \in Connections /\ k2.holder = k.holder /\ k2.role = role /\ k2.aborted = aborted
    /\ k2.writes = writes /\ k2.saves = saves

\* A connection is changed in its role, its writes and its savepoints.
LEMMA ChangesAre ==
  ASSUME NEW k \in Connections, NEW role \in Roles, NEW aborted \in BOOLEAN, NEW writes \in SUBSET Writes,
         NEW saves \in Seq(Saves)
  PROVE  /\ Changed(k, k, k.role, k.aborted, k.writes, k.saves)
         /\ Changed(k, [k EXCEPT !.role = role], role, k.aborted, k.writes, k.saves)
         /\ Changed(k, [k EXCEPT !.writes = writes], k.role, k.aborted, writes, k.saves)
         /\ Changed(k, [k EXCEPT !.saves = saves], k.role, k.aborted, k.writes, saves)
         /\ Changed(k, [k EXCEPT !.aborted = aborted], k.role, aborted, k.writes, k.saves)
         /\ Changed(k, [k EXCEPT !.aborted = aborted, !.role = role, !.writes = writes],
                    role, aborted, writes, k.saves)
<1>1. Changed(k, k, k.role, k.aborted, k.writes, k.saves)
  BY DEF Changed
<1>2. Changed(k, [k EXCEPT !.role = role], role, k.aborted, k.writes, k.saves)
  BY DEF Changed, Connections, Saves
<1>3. Changed(k, [k EXCEPT !.writes = writes], k.role, k.aborted, writes, k.saves)
  BY DEF Changed, Connections, Saves
<1>4. Changed(k, [k EXCEPT !.saves = saves], k.role, k.aborted, k.writes, saves)
  BY DEF Changed, Connections, Saves
<1>5. Changed(k, [k EXCEPT !.aborted = aborted], k.role, aborted, k.writes, k.saves)
  BY DEF Changed, Connections, Saves
<1>6. Changed(k, [k EXCEPT !.aborted = aborted, !.role = role, !.writes = writes],
              role, aborted, writes, k.saves)
  BY DEF Changed, Connections, Saves
<1> QED  BY <1>1, <1>2, <1>3, <1>4, <1>5, <1>6

\* A savepoint saves the role and what was written.
LEMMA SavesAre ==
  ASSUME NEW k \in Connections
  PROVE  /\ k.saves \in Seq(Saves) /\ k.writes \in SUBSET Writes /\ k.role \in Roles /\ k.aborted \in BOOLEAN
         /\ Append(k.saves, [role |-> k.role, writes |-> k.writes]) \in Seq(Saves)
         /\ k.saves # <<>> => /\ Front(k.saves) \in Seq(Saves) /\ Last(k.saves) \in Saves
                              /\ Last(k.saves).role \in Roles /\ Last(k.saves).writes \in SUBSET Writes
<1>1. k.saves \in Seq(Saves) /\ k.writes \in SUBSET Writes /\ k.role \in Roles /\ k.aborted \in BOOLEAN
  BY DEF Connections, Saves
<1>2. [role |-> k.role, writes |-> k.writes] \in Saves
  BY <1>1 DEF Saves
<1>3. Append(k.saves, [role |-> k.role, writes |-> k.writes]) \in Seq(Saves)
  <2> HIDE DEF Saves
  <2> QED  BY <1>1, <1>2, AppendProperties
<1>4. k.saves # <<>> => Front(k.saves) \in Seq(Saves) /\ Last(k.saves) \in Saves
  <2> HIDE DEF Saves
  <2> QED  BY <1>1, FrontAndLast
<1>5. \A save \in Saves : save.role \in Roles /\ save.writes \in SUBSET Writes
  BY DEF Saves
<1> QED  BY <1>1, <1>3, <1>4, <1>5

SentStages == {"read", "save", "switch", "run", "restore", "release", "rollback", "discard"}

\* What each stage does to the connection it is sent on.
LEMMA EffectIs ==
  ASSUME NEW k \in Connections, NEW task \in Tasks, Stage(task) \in SentStages,
         Stage(task) \in {"release", "rollback", "discard"} => k.saves # <<>>
  PROVE  LET k2 == Effect(k, task)
             save == [role |-> k.role, writes |-> k.writes]
         IN  /\ Stage(task) = "read" => Changed(k, k2, k.role, k.aborted, k.writes, k.saves)
             /\ Stage(task) = "save" => Changed(k, k2, k.role, k.aborted, k.writes, Append(k.saves, save))
             /\ Stage(task) = "switch" => Changed(k, k2, "plugin", k.aborted, k.writes, k.saves)
             /\ Stage(task) = "run" => Changed(k, k2, k.role, k.aborted, k.writes \cup {task.write}, k.saves)
             /\ Stage(task) = "restore" => Changed(k, k2, task.held, k.aborted, k.writes, k.saves)
             /\ Stage(task) \in {"release", "discard"}
                   => Changed(k, k2, k.role, k.aborted, k.writes, Front(k.saves))
             /\ Stage(task) = "rollback"
                   => Changed(k, k2, Last(k.saves).role, FALSE, Last(k.saves).writes, k.saves)
<1> DEFINE k2 == Effect(k, task)
           save == [role |-> k.role, writes |-> k.writes]
<1>1. task.held \in Roles /\ task.write \in Writes /\ "plugin" \in Roles
  BY DEF Tasks, Roles
<1>2. /\ k.saves \in Seq(Saves) /\ k.writes \in SUBSET Writes /\ k.role \in Roles /\ k.aborted \in BOOLEAN
      /\ Append(k.saves, save) \in Seq(Saves)
      /\ k.saves # <<>> => /\ Front(k.saves) \in Seq(Saves)
                           /\ Last(k.saves).role \in Roles /\ Last(k.saves).writes \in SUBSET Writes
  BY SavesAre
<1>3. k.writes \cup {task.write} \in SUBSET Writes
  BY <1>1, <1>2
<1> HIDE DEF save
<1>4. CASE Stage(task) = "read"
  <2>1. k2 = k
    BY <1>4 DEF Effect
  <2> QED  BY <1>1, <1>2, <1>4, <2>1, ChangesAre
<1>5. CASE Stage(task) = "save"
  <2>1. k2 = [k EXCEPT !.saves = Append(k.saves, save)]
    BY <1>5 DEF Effect, Connections, save
  <2> HIDE DEF k2
  <2>2. Changed(k, k2, k.role, k.aborted, k.writes, Append(k.saves, save))
    BY <1>2, <2>1, ChangesAre
  <2> QED  BY <1>5, <2>2 DEF k2, save
<1>6. CASE Stage(task) = "switch"
  <2>1. k2 = [k EXCEPT !.role = "plugin"]
    BY <1>6 DEF Effect
  <2> HIDE DEF k2
  <2>2. Changed(k, k2, "plugin", k.aborted, k.writes, k.saves)
    BY <1>1, <1>2, <2>1, ChangesAre
  <2> QED  BY <1>6, <2>2 DEF k2
<1>7. CASE Stage(task) = "run"
  <2>1. k2 = [k EXCEPT !.writes = k.writes \cup {task.write}]
    BY <1>7 DEF Effect, Connections
  <2> HIDE DEF k2
  <2>2. Changed(k, k2, k.role, k.aborted, k.writes \cup {task.write}, k.saves)
    BY <1>2, <1>3, <2>1, ChangesAre
  <2> QED  BY <1>7, <2>2 DEF k2
<1>8. CASE Stage(task) = "restore"
  <2>1. k2 = [k EXCEPT !.role = task.held]
    BY <1>8 DEF Effect
  <2> HIDE DEF k2
  <2>2. Changed(k, k2, task.held, k.aborted, k.writes, k.saves)
    BY <1>1, <1>2, <2>1, ChangesAre
  <2> QED  BY <1>8, <2>2 DEF k2
<1>9. CASE Stage(task) \in {"release", "discard"}
  <2>1. k2 = [k EXCEPT !.saves = Front(k.saves)]
    BY <1>9 DEF Effect, Connections
  <2> HIDE DEF k2
  <2>2. Changed(k, k2, k.role, k.aborted, k.writes, Front(k.saves))
    BY <1>2, <1>9, <2>1, ChangesAre
  <2> QED  BY <1>9, <2>2 DEF k2
<1>10. CASE Stage(task) = "rollback"
  <2>1. k2 = [k EXCEPT !.aborted = FALSE, !.role = Last(k.saves).role, !.writes = Last(k.saves).writes]
    BY <1>10 DEF Effect, Connections
  <2> HIDE DEF k2
  <2>2. Changed(k, k2, Last(k.saves).role, FALSE, Last(k.saves).writes, k.saves)
    BY <1>2, <1>10, <2>1, ChangesAre
  <2> QED  BY <1>10, <2>2 DEF k2
<1> QED  BY <1>4, <1>5, <1>6, <1>7, <1>8, <1>9, <1>10 DEF SentStages

\* The connection after a statement was sent on it.
After(k, task) == IF FailsThere(task) THEN [k EXCEPT !.aborted = TRUE] ELSE Effect(k, task)

\* Everything on the connection was written by its holder.
OwnWrites(k) ==
    /\ \A write \in k.writes : write[1] = k.holder
    /\ \A i \in DOMAIN k.saves : \A write \in k.saves[i].writes : write[1] = k.holder

\* Only a step between a statement's savepoint and its release can fail there.
LEMMA FailsOnlyWithin ==
  ASSUME NEW task, Stage(task) \in {"release", "rollback", "discard"}, ~FailsThere(task)
  PROVE  conn[task.on].saves # <<>>
BY DEF FailsThere

\* The connection after a stage is one, and its holder wrote all of it.
LEMMA AfterIsTyped ==
  ASSUME NEW task \in Tasks, Stage(task) \in SentStages, NEW k \in Connections, k = conn[task.on],
         OwnWrites(k), task.write[1] = k.holder
  PROVE  After(k, task) \in Connections /\ After(k, task).holder = k.holder /\ OwnWrites(After(k, task))
<1> DEFINE k2 == After(k, task)
<1>1. /\ k.saves \in Seq(Saves) /\ k.writes \in SUBSET Writes /\ k.role \in Roles /\ k.aborted \in BOOLEAN
  BY SavesAre
<1>2. CASE FailsThere(task)
  <2>1. k2 = [k EXCEPT !.aborted = TRUE]
    BY <1>2 DEF After
  <2> HIDE DEF k2
  <2>2. Changed(k, k2, k.role, TRUE, k.writes, k.saves)
    BY <1>1, <2>1, ChangesAre
  <2>3. k2 \in Connections /\ k2.holder = k.holder /\ OwnWrites(k2)
    BY <2>2 DEF Changed, OwnWrites
  <2> QED  BY <2>3 DEF k2
<1>3. CASE ~FailsThere(task)
  <2>1. k2 = Effect(k, task)
    BY <1>3 DEF After
  <2>2. Stage(task) \in {"release", "rollback", "discard"} => k.saves # <<>>
    BY <1>3, FailsOnlyWithin
  <2> DEFINE save == [role |-> k.role, writes |-> k.writes]
             e == Effect(k, task)
  <2>3. /\ Stage(task) = "read" => Changed(k, e, k.role, k.aborted, k.writes, k.saves)
        /\ Stage(task) = "save" => Changed(k, e, k.role, k.aborted, k.writes, Append(k.saves, save))
        /\ Stage(task) = "switch" => Changed(k, e, "plugin", k.aborted, k.writes, k.saves)
        /\ Stage(task) = "run" => Changed(k, e, k.role, k.aborted, k.writes \cup {task.write}, k.saves)
        /\ Stage(task) = "restore" => Changed(k, e, task.held, k.aborted, k.writes, k.saves)
        /\ Stage(task) \in {"release", "discard"}
              => Changed(k, e, k.role, k.aborted, k.writes, Front(k.saves))
        /\ Stage(task) = "rollback"
              => Changed(k, e, Last(k.saves).role, FALSE, Last(k.saves).writes, k.saves)
    BY <2>2, EffectIs
  <2> HIDE DEF k2, e
  <2>4. CASE Stage(task) \in {"read", "switch", "restore"}
    BY <2>1, <2>3, <2>4 DEF Changed, OwnWrites, k2, e
  <2>5. CASE Stage(task) = "save"
    <3>1. /\ DOMAIN Append(k.saves, save) = 1 .. (Len(k.saves) + 1) /\ Len(k.saves) \in Nat
          /\ DOMAIN k.saves = 1 .. Len(k.saves)
          /\ Append(k.saves, save)[Len(k.saves) + 1] = save
          /\ \A i \in 1 .. Len(k.saves) : Append(k.saves, save)[i] = k.saves[i]
      <4>1. save \in Saves
        BY <1>1 DEF Saves
      <4> HIDE DEF save, Saves
      <4>2. Len(k.saves) \in Nat /\ DOMAIN k.saves = 1 .. Len(k.saves)
        BY <1>1
      <4>3. /\ Append(k.saves, save) \in Seq(Saves) /\ Len(Append(k.saves, save)) = Len(k.saves) + 1
            /\ Append(k.saves, save)[Len(k.saves) + 1] = save
            /\ \A i \in 1 .. Len(k.saves) : Append(k.saves, save)[i] = k.saves[i]
        BY <1>1, <4>1, AppendProperties
      <4> QED  BY <4>2, <4>3
    <3>2. save.writes = k.writes
      OBVIOUS
    <3> DEFINE saves == Append(k.saves, save)
    <3>3. Changed(k, e, k.role, k.aborted, k.writes, saves)
      BY <2>3, <2>5
    <3> HIDE DEF saves, save
    <3>4. \A i \in DOMAIN saves : \A write \in saves[i].writes : write[1] = k.holder
      <4> TAKE i \in DOMAIN saves
      <4>1. CASE i = Len(k.saves) + 1
        BY <3>1, <3>2, <4>1 DEF saves, OwnWrites
      <4>2. CASE i \in 1 .. Len(k.saves)
        BY <3>1, <4>2 DEF saves, OwnWrites
      <4> QED  BY <3>1, <4>1, <4>2 DEF saves
    <3> QED  BY <2>1, <3>3, <3>4 DEF Changed, OwnWrites, k2, e
  <2>6. CASE Stage(task) = "run"
    BY <2>1, <2>3, <2>6 DEF Changed, OwnWrites, k2, e
  <2>7. k.saves # <<>> => /\ Len(k.saves) \in DOMAIN k.saves /\ Last(k.saves) = k.saves[Len(k.saves)]
                          /\ DOMAIN Front(k.saves) \subseteq DOMAIN k.saves
                          /\ \A i \in DOMAIN Front(k.saves) : Front(k.saves)[i] = k.saves[i]
    <3> SUFFICES ASSUME k.saves # <<>>
                 PROVE  /\ Len(k.saves) \in DOMAIN k.saves /\ Last(k.saves) = k.saves[Len(k.saves)]
                        /\ DOMAIN Front(k.saves) \subseteq DOMAIN k.saves
                        /\ \A i \in DOMAIN Front(k.saves) : Front(k.saves)[i] = k.saves[i]
      OBVIOUS
    <3> HIDE DEF Saves
    <3>1. /\ Len(k.saves) \in Nat /\ Len(k.saves) >= 1 /\ Last(k.saves) = k.saves[Len(k.saves)]
          /\ Front(k.saves) \in Seq(Saves) /\ Len(Front(k.saves)) = Len(k.saves) - 1
          /\ \A i \in 1 .. (Len(k.saves) - 1) : Front(k.saves)[i] = k.saves[i]
      BY <1>1, FrontAndLast
    <3>2. DOMAIN k.saves = 1 .. Len(k.saves) /\ DOMAIN Front(k.saves) = 1 .. (Len(k.saves) - 1)
      BY <1>1, <3>1
    <3>3. Len(k.saves) \in 1 .. Len(k.saves) /\ 1 .. (Len(k.saves) - 1) \subseteq 1 .. Len(k.saves)
      BY <3>1
    <3> QED  BY <3>1, <3>2, <3>3
  <2>8. CASE Stage(task) \in {"release", "discard"}
    BY <2>1, <2>2, <2>3, <2>7, <2>8 DEF Changed, OwnWrites, k2, e
  <2>9. CASE Stage(task) = "rollback"
    <3>1. Changed(k, k2, Last(k.saves).role, FALSE, Last(k.saves).writes, k.saves)
      BY <2>1, <2>3, <2>9 DEF e
    <3>2. \A write \in Last(k.saves).writes : write[1] = k.holder
      BY <2>2, <2>7, <2>9 DEF OwnWrites
    <3>3. k2 \in Connections /\ k2.holder = k.holder /\ OwnWrites(k2)
      BY <3>1, <3>2 DEF Changed, OwnWrites
    <3> QED  BY <3>3 DEF k2
  <2> QED  BY <2>4, <2>5, <2>6, <2>8, <2>9 DEF SentStages, k2
<1> QED  BY <1>2, <1>3

\* What the statement has left after a stage on a lent connection.
LEMMA NextIs ==
  ASSUME NEW task \in Tasks, mode \in Modes, mode # "login", task.lease # 0, task.stages \in LeftOf(task),
         conn[task.on].role \in Roles, NEW fails \in BOOLEAN
  PROVE  LET next == NextOf(task, fails)
         IN  /\ Continues(task, next)
             /\ ~fails => /\ next.stages = Tail(task.stages) /\ next.ok = task.ok
                          /\ next.held = IF Stage(task) = "read" THEN conn[task.on].role ELSE task.held
             /\ fails => /\ next.ok = FALSE /\ next.held = task.held
                         /\ next.stages = IF Stage(task) \in {"switch", "run", "restore", "release"}
                                          THEN <<"rollback", "discard">> ELSE <<>>
<1>1. /\ task.stages # <<>> /\ Stage(task) \in SentStages
      /\ Tail(task.stages) = <<>> \/ Tail(task.stages) \in LeftOf(task)
      /\ <<"rollback", "discard">> \in LeftOf(task)
  <2>1. /\ task.stages # <<>>
        /\ Stage(task) \in {"read", "save", "switch", "run", "restore", "release", "rollback", "discard"}
        /\ Goes(task, "read", "save") /\ Goes(task, "switch", "run") /\ Goes(task, "restore", "release")
        /\ Goes(task, "save", IF mode = "role" THEN "switch" ELSE "run")
        /\ Goes(task, "run", IF mode = "role" THEN "restore" ELSE "release")
        /\ Goes(task, "rollback", "discard")
        /\ IsLast(task, "release") /\ IsLast(task, "discard")
        /\ <<"rollback", "discard">> \in LeftOf(task)
    BY StagesFit
  <2> QED  BY <2>1 DEF Goes, IsLast, SentStages
<1>2. task.held \in Roles /\ task.ok \in BOOLEAN /\ task.stages \in Seq(Stages)
  BY DEF Tasks
<1>3. CASE ~fails
  <2> DEFINE held == IF Stage(task) = "read" THEN conn[task.on].role ELSE task.held
             rest == Tail(task.stages)
  <2>1. NextOf(task, fails) = [task EXCEPT !.stages = rest, !.held = held]
    BY <1>3 DEF NextOf, Tasks
  <2>2. held \in Roles /\ rest \in Seq(Stages)
    BY <1>1, <1>2
  <2>3. rest = <<>> \/ rest \in LeftOf(task)
    BY <1>1
  <2> HIDE DEF held, rest
  <2> DEFINE next == [task EXCEPT !.stages = rest, !.held = held]
  <2>4. /\ next \in Tasks /\ next.lease = task.lease /\ next.on = task.on /\ next.write = task.write
        /\ next.pass = task.pass /\ next.calledAt = task.calledAt /\ next.stages = rest
        /\ next.held = held /\ next.ok = task.ok
    BY <2>2 DEF Tasks
  <2> HIDE DEF next
  <2>5. Continues(task, next)
    BY <2>3, <2>4 DEF Continues, LeftOf
  <2> QED  BY <1>3, <2>1, <2>4, <2>5 DEF next, held, rest
<1>4. CASE fails
  <2> DEFINE rest == IF Stage(task) \in {"switch", "run", "restore", "release"}
                     THEN <<"rollback", "discard">> ELSE <<>>
             next == [task EXCEPT !.ok = FALSE, !.stages = rest]
  <2>1. NextOf(task, fails) = next
    BY <1>4 DEF NextOf
  <2>2. rest \in Seq(Stages)
    <3>1. <<"rollback", "discard">> \in Seq(Stages) /\ <<>> \in Seq(Stages)
      BY DEF Stages
    <3> QED  BY <3>1
  <2>3. rest # <<>> => rest \in LeftOf(task)
    BY <1>1
  <2> HIDE DEF rest
  <2>4. /\ next \in Tasks /\ next.lease = task.lease /\ next.on = task.on /\ next.write = task.write
        /\ next.pass = task.pass /\ next.calledAt = task.calledAt /\ next.stages = rest
        /\ next.held = task.held /\ next.ok = FALSE
    BY <2>2 DEF Tasks
  <2> HIDE DEF next
  <2>5. Continues(task, next)
    BY <2>3, <2>4 DEF Continues, LeftOf
  <2> QED  BY <1>4, <2>1, <2>4, <2>5 DEF rest
<1> QED  BY <1>3, <1>4

\* The connection as the statement awaited needs it.
Suits(k, task) ==
    /\ IF Stage(task) \in {"read", "save"} THEN Tidy(k) ELSE Within(k, task)
    /\ task.held = "library" /\ (task.ok <=> Stage(task) \notin {"rollback", "discard"})
Base(k) == IF k.saves = <<>> THEN k.writes ELSE k.saves[1].writes

\* Around one savepoint.
LEMMA OneSave ==
  ASSUME NEW saves \in Seq(Saves), NEW save \in Saves
  PROVE  /\ Len(saves) = 1 => saves # <<>> /\ Last(saves) = saves[1] /\ Front(saves) = <<>>
         /\ saves = <<>> => /\ Append(saves, save) # <<>> /\ Len(Append(saves, save)) = 1
                            /\ Append(saves, save)[1] = save
<1> HIDE DEF Saves
<1>1. ASSUME Len(saves) = 1 PROVE saves # <<>> /\ Last(saves) = saves[1] /\ Front(saves) = <<>>
  <2>1. saves # <<>>
    BY <1>1, SMTT(30)
  <2>2. Last(saves) = saves[Len(saves)] /\ Front(saves) \in Seq(Saves) /\ Len(Front(saves)) = Len(saves) - 1
    BY <2>1, FrontAndLast
  <2>3. Front(saves) = <<>>
    BY <1>1, <2>2
  <2> QED  BY <1>1, <2>1, <2>2, <2>3
<1>2. ASSUME saves = <<>>
      PROVE  /\ Append(saves, save) # <<>> /\ Len(Append(saves, save)) = 1
             /\ Append(saves, save)[1] = save
  BY <1>2
<1> QED  BY <1>1, <1>2

\* One stage of the statement awaited, on a connection that only it uses.
LEMMA StageDone ==
  ASSUME mode \in Modes, mode # "login", NEW task \in Tasks, task.lease # 0, task.stages \in LeftOf(task),
         NEW k \in Connections, k = conn[task.on], Suits(k, task)
  PROVE  LET next == NextOf(task, FailsThere(task))
             k2 == After(k, task)
         IN  IF next.stages # <<>> THEN Suits(k2, next) /\ Base(k2) = Base(k)
             ELSE /\ Tidy(k2)
                  /\ Base(k2) = IF next.ok THEN Base(k) \cup {task.write} ELSE Base(k)
<1> DEFINE fails == FailsThere(task)
           next == NextOf(task, fails)
           k2 == After(k, task)
           save == [role |-> k.role, writes |-> k.writes]
<1>1. /\ task.stages # <<>> /\ Stage(task) \in SentStages
      /\ mode # "role" => Stage(task) \notin {"read", "switch", "restore"}
      /\ Goes(task, "read", "save") /\ Goes(task, "switch", "run") /\ Goes(task, "restore", "release")
      /\ Goes(task, "save", IF mode = "role" THEN "switch" ELSE "run")
      /\ Goes(task, "run", IF mode = "role" THEN "restore" ELSE "release")
      /\ Goes(task, "rollback", "discard")
      /\ IsLast(task, "release") /\ IsLast(task, "discard")
  BY StagesFit DEF SentStages
<1>2. /\ k.saves \in Seq(Saves) /\ k.writes \in SUBSET Writes /\ k.role \in Roles /\ k.aborted \in BOOLEAN
      /\ save \in Saves /\ save.role = k.role /\ save.writes = k.writes
  BY SavesAre DEF Saves
<1>3. task.held = "library" /\ (task.ok <=> Stage(task) \notin {"rollback", "discard"}) /\ task.ok \in BOOLEAN
  BY DEF Suits, Tasks
<1>4. /\ ~fails => /\ next.stages = Tail(task.stages) /\ next.ok = task.ok
                   /\ next.held = IF Stage(task) = "read" THEN k.role ELSE task.held
      /\ fails => /\ next.ok = FALSE /\ next.held = task.held
                  /\ next.stages = IF Stage(task) \in {"switch", "run", "restore", "release"}
                                   THEN <<"rollback", "discard">> ELSE <<>>
  <2>1. fails \in BOOLEAN
    BY DEF FailsThere
  <2> QED  BY <1>2, <2>1, NextIs
<1>5. fails => Changed(k, k2, k.role, TRUE, k.writes, k.saves)
  BY <1>2, ChangesAre DEF After
<1>6. Stage(task) \in {"release", "rollback", "discard"} => k.saves # <<>>
  <2>1. Stage(task) \in {"release", "rollback", "discard"} => Len(k.saves) = 1
    BY DEF Suits, Within
  <2> QED  BY <1>2, <2>1, OneSave
<1>7. ~fails =>
        /\ Stage(task) = "read" => Changed(k, k2, k.role, k.aborted, k.writes, k.saves)
        /\ Stage(task) = "save" => Changed(k, k2, k.role, k.aborted, k.writes, Append(k.saves, save))
        /\ Stage(task) = "switch" => Changed(k, k2, "plugin", k.aborted, k.writes, k.saves)
        /\ Stage(task) = "run" => Changed(k, k2, k.role, k.aborted, k.writes \cup {task.write}, k.saves)
        /\ Stage(task) = "restore" => Changed(k, k2, task.held, k.aborted, k.writes, k.saves)
        /\ Stage(task) \in {"release", "discard"}
              => Changed(k, k2, k.role, k.aborted, k.writes, Front(k.saves))
        /\ Stage(task) = "rollback"
              => Changed(k, k2, Last(k.saves).role, FALSE, Last(k.saves).writes, k.saves)
  BY <1>1, <1>6, EffectIs DEF After
<1>8. fails <=> \/ k.aborted /\ Stage(task) # "rollback"
                \/ Stage(task) = "run" /\ task.fails
  BY <1>6 DEF FailsThere
<1> HIDE DEF fails, next, k2, save
<1>9. CASE Stage(task) = "read"
  <2>1. Tidy(k) /\ ~fails
    BY <1>8, <1>9 DEF Suits, Tidy
  <2>2. Changed(k, k2, k.role, k.aborted, k.writes, k.saves)
    BY <1>7, <1>9, <2>1
  <2>3. next.stages # <<>> /\ Stage(next) = "save" /\ next.ok = TRUE /\ next.held = "library"
    BY <1>1, <1>3, <1>4, <1>9, <2>1 DEF Goes, Stage, Tidy
  <2>4. Suits(k2, next) /\ Base(k2) = Base(k)
    BY <2>1, <2>2, <2>3 DEF Suits, Tidy, Changed, Base
  <2> QED  BY <2>3, <2>4 DEF next, k2, fails
<1>10. CASE Stage(task) = "save"
  <2>1. Tidy(k) /\ ~fails /\ k.saves = <<>>
    BY <1>8, <1>10 DEF Suits, Tidy
  <2>2. Changed(k, k2, k.role, k.aborted, k.writes, Append(k.saves, save))
    BY <1>7, <1>10, <2>1
  <2>3. /\ Append(k.saves, save) # <<>> /\ Len(Append(k.saves, save)) = 1
        /\ Append(k.saves, save)[1] = save
    BY <1>2, <2>1, OneSave
  <2>4. /\ next.stages # <<>> /\ Stage(next) \in {"switch", "run"} /\ next.ok = TRUE /\ next.held = "library"
    BY <1>1, <1>3, <1>4, <1>10, <2>1 DEF Goes, Stage
  <2>5. Within(k2, next)
    BY <1>2, <2>1, <2>2, <2>3, <2>4 DEF Within, Tidy, Changed
  <2>6. Suits(k2, next) /\ Base(k2) = Base(k)
    BY <1>2, <2>1, <2>2, <2>3, <2>4, <2>5 DEF Suits, Changed, Base
  <2> QED  BY <2>4, <2>6 DEF next, k2, fails
<1>11. Stage(task) \notin {"read", "save"} => Within(k, task) /\ k.saves # <<>>
  <2>1. Stage(task) \notin {"read", "save"} => Within(k, task) /\ Len(k.saves) = 1
    BY DEF Suits, Within
  <2> QED  BY <1>2, <2>1, OneSave
<1>12. CASE Stage(task) = "switch"
  <2>1. Within(k, task) /\ ~fails /\ ~k.aborted /\ k.saves # <<>>
    BY <1>8, <1>11, <1>12 DEF Within
  <2>2. Changed(k, k2, "plugin", k.aborted, k.writes, k.saves)
    BY <1>7, <1>12, <2>1
  <2>3. next.stages # <<>> /\ Stage(next) = "run" /\ next.ok = TRUE /\ next.held = "library" /\ mode = "role"
    BY <1>1, <1>3, <1>4, <1>12, <2>1 DEF Goes, Stage
  <2>4. Within(k2, next)
    BY <1>12, <2>1, <2>2, <2>3 DEF Within, Changed
  <2>5. Suits(k2, next) /\ Base(k2) = Base(k)
    BY <2>1, <2>2, <2>3, <2>4 DEF Suits, Changed, Base
  <2> QED  BY <2>3, <2>5 DEF next, k2, fails
<1>13. CASE Stage(task) = "run" /\ fails
  <2>1. Within(k, task) /\ k.saves # <<>>
    BY <1>11, <1>13
  <2>2. Changed(k, k2, k.role, TRUE, k.writes, k.saves)
    BY <1>5, <1>13
  <2>3. next.stages = <<"rollback", "discard">> /\ next.ok = FALSE /\ next.held = "library"
    BY <1>3, <1>4, <1>13
  <2>4. next.stages # <<>> /\ Stage(next) = "rollback"
    BY <2>3 DEF Stage
  <2>5. Within(k2, next)
    BY <1>13, <2>1, <2>2, <2>4 DEF Within, Changed
  <2>6. Suits(k2, next) /\ Base(k2) = Base(k)
    BY <2>1, <2>2, <2>3, <2>4, <2>5 DEF Suits, Changed, Base
  <2> QED  BY <2>4, <2>6 DEF next, k2, fails
<1>14. CASE Stage(task) = "run" /\ ~fails
  <2>1. Within(k, task) /\ ~k.aborted /\ k.saves # <<>>
    BY <1>11, <1>14 DEF Within
  <2>2. Changed(k, k2, k.role, k.aborted, k.writes \cup {task.write}, k.saves)
    BY <1>7, <1>14
  <2>3. /\ next.stages # <<>> /\ next.ok = TRUE /\ next.held = "library"
        /\ Stage(next) = IF mode = "role" THEN "restore" ELSE "release"
    BY <1>1, <1>3, <1>4, <1>14 DEF Goes, Stage
  <2>4. next.write = task.write
    BY <1>14 DEF next, NextOf, Tasks
  <2>5. Within(k2, next)
    BY <1>14, <2>1, <2>2, <2>3, <2>4 DEF Within, Changed
  <2>6. Suits(k2, next) /\ Base(k2) = Base(k)
    BY <2>1, <2>2, <2>3, <2>5 DEF Suits, Changed, Base
  <2> QED  BY <2>3, <2>6 DEF next, k2, fails
<1>15. CASE Stage(task) = "restore"
  <2>1. Within(k, task) /\ ~fails /\ ~k.aborted /\ k.saves # <<>>
    BY <1>8, <1>11, <1>15 DEF Within
  <2>2. Changed(k, k2, "library", k.aborted, k.writes, k.saves)
    BY <1>3, <1>7, <1>15, <2>1
  <2>3. next.stages # <<>> /\ Stage(next) = "release" /\ next.ok = TRUE /\ next.held = "library"
    BY <1>1, <1>3, <1>4, <1>15, <2>1 DEF Goes, Stage
  <2>4. next.write = task.write
    BY <1>15, <2>1 DEF next, NextOf, Tasks
  <2>5. Within(k2, next)
    BY <1>15, <2>1, <2>2, <2>3, <2>4 DEF Within, Changed
  <2>6. Suits(k2, next) /\ Base(k2) = Base(k)
    BY <2>1, <2>2, <2>3, <2>5 DEF Suits, Changed, Base
  <2> QED  BY <2>3, <2>6 DEF next, k2, fails
<1>16. CASE Stage(task) = "rollback"
  <2>1. Within(k, task) /\ ~fails /\ k.saves # <<>> /\ Last(k.saves) = k.saves[1]
    <3>1. Within(k, task) /\ ~fails /\ k.saves # <<>> /\ Len(k.saves) = 1
      BY <1>8, <1>11, <1>16 DEF Within
    <3> QED  BY <1>2, <3>1, OneSave
  <2>2. Changed(k, k2, k.saves[1].role, FALSE, k.saves[1].writes, k.saves)
    BY <1>7, <1>16, <2>1
  <2>3. next.stages # <<>> /\ Stage(next) = "discard" /\ next.ok = FALSE /\ next.held = "library"
    BY <1>1, <1>3, <1>4, <1>16, <2>1 DEF Goes, Stage
  <2>4. Within(k2, next)
    BY <1>16, <2>1, <2>2, <2>3 DEF Within, Changed
  <2>5. Suits(k2, next) /\ Base(k2) = Base(k)
    BY <2>1, <2>2, <2>3, <2>4 DEF Suits, Changed, Base
  <2> QED  BY <2>3, <2>5 DEF next, k2, fails
<1>17. CASE Stage(task) \in {"release", "discard"}
  <2>1. Within(k, task) /\ ~fails /\ ~k.aborted /\ k.saves # <<>> /\ Front(k.saves) = <<>>
    <3>1. Within(k, task) /\ ~fails /\ ~k.aborted /\ k.saves # <<>> /\ Len(k.saves) = 1
      BY <1>8, <1>11, <1>17 DEF Within
    <3> QED  BY <1>2, <3>1, OneSave
  <2>2. Changed(k, k2, k.role, k.aborted, k.writes, <<>>)
    BY <1>7, <1>17, <2>1
  <2>3. next.stages = <<>> /\ next.ok = task.ok
    BY <1>1, <1>4, <1>17, <2>1 DEF IsLast
  <2>4. k.role = "library"
    BY <1>17, <2>1 DEF Within
  <2>5. Tidy(k2)
    BY <2>1, <2>2, <2>4 DEF Tidy, Changed
  <2>6. Base(k2) = k.writes /\ Base(k) = k.saves[1].writes
    BY <2>1, <2>2 DEF Base, Changed
  <2>7. k.writes = IF task.ok THEN k.saves[1].writes \cup {task.write} ELSE k.saves[1].writes
    BY <1>3, <1>17, <2>1 DEF Within
  <2> QED  BY <2>3, <2>5, <2>6, <2>7 DEF next, k2, fails
<1> QED  BY <1>1, <1>9, <1>10, <1>12, <1>13, <1>14, <1>15, <1>16, <1>17 DEF SentStages

\* The statement awaited still has its lease, and its connection is as it needs it.
LEMMA AwaitedSuits ==
  ASSUME PluginsInv, NEW r \in Request, Orderly(r), NEW task \in Underway(r), task = running[r],
         mode # "login", task.lease # 0
  PROVE  /\ Usable(r, task) /\ task.on = mine[r] /\ Lent(r) /\ Suits(conn[mine[r]], task)
<1>1. TypeOK /\ RequestFits(r) /\ task # Nothing /\ stack[r] \in Seq(Frames)
  BY DEF PluginsInv, TypeOK, Underway
<1>2. stack[r] # <<>> /\ task.lease = Top(r).lease /\ task.on = mine[r]
  BY <1>1 DEF RequestFits, Dispatching
<1>3. Len(stack[r]) \in Nat /\ Len(stack[r]) >= 1 /\ Top(r) = stack[r][Len(stack[r])]
  BY <1>1, <1>2, FrontAndLast DEF Top
<1>4. Len(stack[r]) \in DOMAIN stack[r]
  BY <1>1, <1>3
<1>5. Usable(r, task)
  BY <1>2, <1>3, <1>4 DEF Usable
<1>6. Lent(r)
  BY <1>1, <1>2, <1>3, <1>4 DEF RequestFits, Dispatching
<1>7. Suits(conn[mine[r]], task)
  BY <1>1, <1>6 DEF RequestFits, Undisturbed, Suits
<1> QED  BY <1>2, <1>5, <1>6, <1>7

\* A stage on the lent connection: while the lease lasts it is its own, and after that nothing is sent.
LEMMA SendFits ==
  ASSUME PluginsInv, NEW r \in Request, Send(r)
  PROVE  GoesWell(r)
<1> USE DEF starting, requests, dispatches, statements, login, clock, history
<1>1. UNCHANGED <<started, setting, refusal, registered, hooks, at, answer, mine, leases,
                  passes, remembered, time, granted, landed, outcome>>
  BY DEF Send
<1>2. PICK task \in Underway(r) :
          /\ Stage(task) \in SentStages
          /\ IF ~Usable(r, task)
             THEN Settles(r, task, NextOf(task, TRUE)) /\ UNCHANGED conn
             ELSE /\ Settles(r, task, NextOf(task, FailsThere(task)))
                  /\ conn' = [conn EXCEPT ![task.on] =
                        IF FailsThere(task) THEN [@ EXCEPT !.aborted = TRUE] ELSE Effect(@, task)]
  BY DEF Send, InExecution, SentStages
<1>3. task \in Tasks /\ mode \in Modes /\ task.stages \in LeftOf(task) /\ TaskFits(r, task)
  BY UnderwayIs
<1>4. mode # "login" /\ task.lease # 0
  BY <1>2, <1>3, StagesFit DEF SentStages
<1>5. /\ task.on \in Conn /\ conn[task.on] \in Connections /\ conn[task.on].role \in Roles
      /\ (Usable(r, task) => task.on = mine[r]) /\ task.write[1] = r
      /\ conn \in [Conn -> Connections] /\ mine \in [Request -> Conn \cup {Nothing}] /\ TypeOK /\ ConnsFit
      /\ RequestFits(r)
  <2>1. task.on \in Conn /\ conn[task.on] \in Connections /\ TypeOK
    BY <1>3, <1>4 DEF PluginsInv, TypeOK, TaskFits
  <2>2. conn[task.on].role \in Roles
    BY <2>1, SavesAre
  <2> QED  BY <1>3, <1>4, <2>1, <2>2 DEF PluginsInv, TypeOK, TaskFits
<1>6. passes' \in Seq(Passes) /\ remembered' \in 0 .. Len(passes') /\ LoginKept /\ PassesFit'
  BY <1>1, Standstill DEF PluginsInv, TypeOK, Passes
<1>7. CASE ~Usable(r, task)
  <2>1. PICK next : next = NextOf(task, TRUE)
    OBVIOUS
  <2>2. Continues(task, next)
    <3>1. TRUE \in BOOLEAN
      OBVIOUS
    <3> QED  BY <1>3, <1>4, <1>5, <2>1, <3>1, NextIs
  <2>3. Settles(r, task, next) /\ conn' = conn
    BY <1>2, <1>7, <2>1
  <2>4. left'[r] = Nothing => left[r] = Nothing /\ task = running[r]
    BY <2>2, <2>3, SettledWell
  <2>5. left'[r] # Nothing
    BY <1>4, <1>7, <2>4, AwaitedSuits DEF Orderly
  <2>6. Undisturbed(r)' /\ Accounted(r)'
    BY <2>5 DEF Undisturbed, Accounted, Orderly
  <2>7. ConnsFit'
    BY <1>1, <1>5, <2>3 DEF ConnsFit, Lent
  <2>8. Stage(next) = "own" /\ next.stages # <<>> /\ granted # Nothing => passes'[next.pass].askedAt <= granted
    <3>1. next.stages # <<>> => next.stages \in LeftOf(next) /\ next.lease # 0
      BY <1>4, <2>2 DEF Continues
    <3> QED  BY <1>3, <1>4, <3>1, StagesFit
  <2> QED  BY <1>1, <1>5, <1>6, <2>2, <2>3, <2>6, <2>7, <2>8, StatementFits
<1>8. CASE Usable(r, task)
  <2> DEFINE k == conn[mine[r]]
  <2>1. PICK next : next = NextOf(task, FailsThere(task))
    OBVIOUS
  <2>2. Continues(task, next)
    <3>1. FailsThere(task) \in BOOLEAN
      BY DEF FailsThere
    <3> QED  BY <1>3, <1>4, <1>5, <2>1, <3>1, NextIs
  <2>3. task.on = mine[r] /\ Lent(r) /\ k = conn[task.on] /\ k.holder = r /\ k \in Connections
    BY <1>5, <1>8, NothingElse DEF Lent, ConnsFit
  <2>4. Settles(r, task, next) /\ conn' = [conn EXCEPT ![mine[r]] = After(k, task)]
    BY <1>2, <1>8, <2>1, <2>3 DEF After
  <2>5. OwnWrites(k)
    BY <1>5, <2>3 DEF ConnsFit, OwnWrites
  <2>6. After(k, task) \in Connections /\ After(k, task).holder = k.holder /\ OwnWrites(After(k, task))
    BY <1>2, <1>3, <1>5, <2>3, <2>5, AfterIsTyped
  <2>7. /\ conn' \in [Conn -> Connections] /\ conn'[mine[r]] = After(k, task)
        /\ \A c \in Conn : c # mine[r] => conn'[c] = conn[c]
    BY <1>5, <2>3, <2>4, <2>6
  <2>8. \A q \in Request : q # r /\ Lent(q) => mine[q] # mine[r] /\ mine[q] \in Conn
    BY <1>5, <2>3 DEF ConnsFit, Lent
  <2>9. ConnsFit'
    <3>1. \A q \in Request : Lent(q)' => conn'[mine'[q]].holder = q
      BY <1>1, <1>5, <2>3, <2>6, <2>7, <2>8 DEF ConnsFit, Lent
    <3>2. \A c \in Conn : c # mine[r] => conn'[c] = conn[c]
      BY <2>7
    <3>3. conn'[mine[r]].holder # Nothing /\ OwnWrites(conn'[mine[r]])
      BY <2>3, <2>6, <2>7, NothingElse
    <3>4. ASSUME NEW c \in Conn
          PROVE  /\ conn'[c].holder = Nothing => conn'[c] = Free
                 /\ \A write \in conn'[c].writes : write[1] = conn'[c].holder
                 /\ \A i \in DOMAIN conn'[c].saves : \A write \in conn'[c].saves[i].writes :
                       write[1] = conn'[c].holder
      <4>1. CASE c = mine[r]
        BY <3>3, <4>1 DEF OwnWrites
      <4>2. CASE c # mine[r]
        BY <1>5, <3>2, <4>2 DEF ConnsFit
      <4> QED  BY <4>1, <4>2
    <3> QED  BY <3>1, <3>4 DEF ConnsFit, Free
  <2>10. /\ left'[r] = Nothing =>
              /\ left[r] = Nothing /\ task = running[r]
              /\ running'[r] = IF next.stages # <<>> THEN next ELSE Nothing
              /\ told' = IF next.stages = <<>> /\ next.ok /\ task.lease # 0 /\ mode # "login"
                         THEN told \cup {task.write} ELSE told
    BY <2>2, <2>4, SettledWell
  <2>11. left'[r] = Nothing =>
              IF next.stages # <<>> THEN Suits(After(k, task), next) /\ Base(After(k, task)) = Base(k)
              ELSE /\ Tidy(After(k, task))
                   /\ Base(After(k, task)) = IF next.ok THEN Base(k) \cup {task.write} ELSE Base(k)
    <3> SUFFICES ASSUME left'[r] = Nothing
                 PROVE  IF next.stages # <<>> THEN Suits(After(k, task), next) /\ Base(After(k, task)) = Base(k)
                        ELSE /\ Tidy(After(k, task))
                             /\ Base(After(k, task)) = IF next.ok THEN Base(k) \cup {task.write} ELSE Base(k)
      OBVIOUS
    <3>1. Suits(k, task)
      BY <1>4, <2>10, AwaitedSuits DEF Orderly
    <3> HIDE DEF k
    <3> QED  BY <1>3, <1>4, <2>1, <2>3, <3>1, StageDone
  <2>12. Undisturbed(r)'
    <3>1. ASSUME left'[r] = Nothing
          PROVE  IF running'[r] = Nothing THEN Tidy(conn'[mine[r]]) ELSE Suits(conn'[mine[r]], running'[r])
      <4>1. next # Nothing
        BY <2>2, NothingElse DEF Continues
      <4> QED  BY <2>7, <2>10, <2>11, <3>1, <4>1
    <3>2. mode' = mode /\ mine' = mine
      BY <1>1 DEF mode
    <3> HIDE DEF k
    <3> QED  BY <1>4, <3>1, <3>2 DEF Undisturbed, Orderly, Lent, Suits, Tidy, Within, Stage
  <2>13. Accounted(r)'
    <3> SUFFICES ASSUME left'[r] = Nothing, answer[r] = Nothing
                 PROVE  WrittenBy(r, told') = WrittenBy(r, landed) \cup Settled(r)'
      BY <1>1 DEF Accounted, Orderly, WrittenBy
    <3>1. WrittenBy(r, told) = WrittenBy(r, landed) \cup Base(k)
      BY <1>5, <2>3, <2>10 DEF RequestFits, Accounted, Orderly, Settled, Base
    <3>2. Settled(r)' = Base(After(k, task))
      BY <1>1, <2>3, <2>7 DEF Settled, Lent, Base
    <3>3. WrittenBy(r, told \cup {task.write}) = WrittenBy(r, told) \cup {task.write}
      BY <1>5 DEF WrittenBy
    <3> HIDE DEF k
    <3>4. CASE next.stages # <<>>
      BY <2>10, <2>11, <3>1, <3>2, <3>4
    <3>5. CASE next.stages = <<>> /\ next.ok
      <4>1. told' = told \cup {task.write}
        BY <1>4, <2>10, <3>5
      <4>2. Base(After(k, task)) = Base(k) \cup {task.write}
        BY <2>11, <3>5
      <4> QED  BY <3>1, <3>2, <3>3, <4>1, <4>2
    <3>6. CASE next.stages = <<>> /\ ~next.ok
      BY <2>10, <2>11, <3>1, <3>2, <3>6
    <3> QED  BY <3>4, <3>5, <3>6
  <2>14. Stage(next) = "own" /\ next.stages # <<>> /\ granted # Nothing => passes'[next.pass].askedAt <= granted
    <3>1. next.stages # <<>> => next.stages \in LeftOf(next) /\ next.lease # 0
      BY <1>4, <2>2 DEF Continues
    <3> QED  BY <1>3, <1>4, <3>1, StagesFit
  <2>15. \A q \in Request : q # r /\ Lent(q) => conn'[mine[q]] = conn[mine[q]]
    BY <2>7, <2>8
  <2> HIDE DEF k
  <2> QED  BY <1>1, <1>6, <2>2, <2>4, <2>7, <2>9, <2>12, <2>13, <2>14, <2>15, StatementFits
<1> QED  BY <1>7, <1>8

(***************************************************************************)
(* The start, the clock and the grant                                      *)
(***************************************************************************)
\* What was declared is typed,
LEMMA DeclaredIs ==
  ASSUME started \in DOMAIN Applications
  PROVE  declared \in Seq([read : Readings, later : Readings])
BY ApplicationsAssumption DEF declared

\* the one reading of it too,
LEMMA OneReadingIs ==
  ASSUME NEW given \in Seq([read : Readings, later : Readings])
  PROVE  OneReading(given) \in Seq(Readings)
BY ChecksType

\* and the calls of the listeners of a point.
LEMMA AgendaIsTyped ==
  ASSUME started \in DOMAIN Applications, NEW order \in Seq(IdsOf(OneReading(declared))), NEW point \in Points
  PROVE  Agenda(point, order) \in Seq(Calling)
<1> DEFINE plugins == OneReading(declared)
           n == Len(order)
           calls(i) == Kept(order[i]).hooks[point]
           calling(i) == [j \in DOMAIN calls(i) |->
                             [plugin |-> order[i], does |-> calls(i)[j][1], statement |-> calls(i)[j][2]]]
           all == [i \in DOMAIN order |-> calling(i)]
<1>1. plugins \in Seq(Readings)
  BY DeclaredIs, OneReadingIs
<1>2. n \in Nat /\ DOMAIN order = 1 .. n
  OBVIOUS
<1>3. ASSUME NEW i \in 1 .. n PROVE calling(i) \in Seq(Calling)
  <2>1. order[i] \in IdsOf(plugins)
    <3> DEFINE T == IdsOf(plugins)
    <3>1. order \in Seq(T)
      OBVIOUS
    <3> HIDE DEF T, plugins
    <3>2. order[i] \in T
      BY <1>2, <3>1
    <3> QED  BY <3>2 DEF T
  <2>2. Kept(order[i]) = PluginOf(plugins, order[i])
    BY DEF Kept
  <2> HIDE DEF plugins
  <2>3. Kept(order[i]) \in Readings /\ Kept(order[i]).id = order[i]
    BY <1>1, <2>1, <2>2, PluginIsFound
  <2>4. calls(i) \in Seq(Asked) /\ order[i] \in Names
    BY <2>3 DEF Readings
  <2> DEFINE c == calls(i)
  <2>5. c \in Seq(Asked)
    BY <2>4
  <2>6. DOMAIN c = 1 .. Len(c) /\ Len(c) \in Nat
    BY <2>5
  <2>7. \A j \in 1 .. Len(c) : [plugin |-> order[i], does |-> c[j][1], statement |-> c[j][2]] \in Calling
    <3> HIDE DEF c, calling
    <3> TAKE j \in 1 .. Len(c)
    <3>1. c[j] \in Asked
      <4> HIDE DEF Asked
      <4> QED  BY <2>5, <2>6
    <3>2. c[j][1] \in {"query", "fail", "leave", "revoke", "throw"} /\ c[j][2] \in STRING
      BY <3>1 DEF Asked
    <3> QED  BY <2>4, <3>2 DEF Calling
  <2>8. calling(i) = [j \in 1 .. Len(c) |->
                         [plugin |-> order[i], does |-> c[j][1], statement |-> c[j][2]]]
    BY <2>6
  <2> HIDE DEF c, calling
  <2> QED  BY <2>6, <2>7, <2>8, IsASeq
<1>4. all \in Seq(Seq(Calling))
  <2> HIDE DEF calling
  <2> QED  BY <1>2, <1>3, IsASeq
<1>5. Agenda(point, order) = FlattenSeq(all)
  BY DEF Agenda
<1> HIDE DEF all
<1> QED  BY <1>4, <1>5, Flattened

\* The plugins are known by names.
LEMMA IdsAreNames ==
  ASSUME NEW plugins \in Seq(Readings)
  PROVE  IdsOf(plugins) \subseteq Names
<1>1. \A id \in IdsOf(plugins) : PluginOf(plugins, id) \in Readings /\ PluginOf(plugins, id).id = id
  BY PluginIsFound
<1>2. \A plugin \in Readings : plugin.id \in Names
  BY DEF Readings
<1> QED  BY <1>1, <1>2

\* createPluginRuntime.
LEMMA StartFits ==
  ASSUME PluginsInv, CreatePluginRuntime
  PROVE  StaysWell /\ \A q \in Request : Same(q)
<1> USE DEF starting, requests, dispatches, statements, login, clock, history
<1> DEFINE plugins == OneReading(declared)
           order == IF Refusal(declared) = "none" THEN InDependencyOrder(plugins) ELSE <<>>
<1>1. /\ refusal' = Refusal(declared) /\ registered' = order
      /\ hooks' = [point \in Points |-> Agenda(point, registered')]
      /\ UNCHANGED <<started, setting, at, answer, mine, stack, leases, running, left, conn,
                     passes, remembered, time, granted, told, landed, outcome>>
  BY DEF CreatePluginRuntime
<1>2. TypeOK /\ started \in DOMAIN Applications /\ declared \in Seq([read : Readings, later : Readings])
  BY DeclaredIs DEF PluginsInv, TypeOK
<1>3. plugins \in Seq(Readings)
  BY <1>2, OneReadingIs
<1>4. order \in Seq(IdsOf(plugins))
  BY <1>2, StartGoesWell
<1>5. Refusal(declared) \in Refusals \cup {"none"}
  BY <1>2, WhatWasRefused
<1> HIDE DEF order
<1>6. \A point \in Points : Agenda(point, order) \in Seq(Calling)
  BY <1>2, <1>4, AgendaIsTyped
<1> HIDE DEF plugins
<1>7. registered' \in Seq(Names)
  <2>1. IdsOf(plugins) \subseteq Names
    BY <1>3, IdsAreNames
  <2>2. \A i \in 1 .. Len(order) : order[i] \in Names
    BY <1>4, <2>1
  <2>3. order = [i \in 1 .. Len(order) |-> order[i]] /\ Len(order) \in Nat
    BY <1>4
  <2> HIDE DEF Names
  <2> QED  BY <1>1, <2>2, <2>3, IsASeq
<1>8. hooks' \in [Points -> Seq(Calling)]
  BY <1>1, <1>6
<1>9. TypeOK'
  BY <1>1, <1>2, <1>5, <1>7, <1>8 DEF TypeOK, course
<1>10. LoginKept /\ PassesFit'
  BY <1>1, <1>2, Standstill DEF PluginsInv
<1>11. ConnsFit'
  BY <1>1 DEF PluginsInv, ConnsFit, Lent
<1> QED  BY <1>1, <1>9, <1>10, <1>11 DEF StaysWell, Same

\* Time passes: no check is asked for earlier than it was.
LEMMA TickFits ==
  ASSUME PluginsInv, Tick
  PROVE  StaysWell /\ \A q \in Request : Same(q)
<1> USE DEF starting, requests, dispatches, statements, login, clock, history
<1>1. /\ time < MaxTime /\ time' = time + 1
      /\ UNCHANGED <<started, setting, refusal, registered, hooks, at, answer, mine, stack, leases, running,
                     left, conn, passes, remembered, granted, told, landed, outcome>>
  BY DEF Tick
<1>2. TypeOK /\ time \in 0 .. MaxTime /\ MaxTime \in Nat /\ Len(passes) \in Nat
      /\ DOMAIN passes = 1 .. Len(passes)
  BY BoundsAssumption DEF PluginsInv, TypeOK
<1>3. TypeOK'
  <2>1. time' \in 0 .. MaxTime
    BY <1>1, <1>2
  <2> QED  BY <1>1, <1>2, <2>1 DEF TypeOK, course
<1>4. \A i \in DOMAIN passes : passes[i].askedAt \in Nat
  <2>1. passes \in Seq(Passes)
    BY <1>2 DEF TypeOK, Passes
  <2>2. \A pass \in Passes : pass.askedAt \in Nat
    BY DEF Passes
  <2> QED  BY <1>2, <2>1, <2>2
<1>5. PassesFit'
  <2>1. granted # Nothing => granted \in 0 .. MaxTime
    BY <1>2 DEF TypeOK
  <2> QED  BY <1>1, <1>2, <1>4, <2>1 DEF PluginsInv, PassesFit
<1>6. LoginKept
  BY <1>1, <1>2 DEF LoginKept
<1>7. ConnsFit'
  BY <1>1 DEF PluginsInv, ConnsFit, Lent
<1> QED  BY <1>1, <1>3, <1>5, <1>6, <1>7 DEF StaysWell, Same

\* The login is granted a core table: the checks that passed were asked before.
LEMMA GrantFits ==
  ASSUME PluginsInv, Grant
  PROVE  StaysWell /\ \A q \in Request : Same(q)
<1> USE DEF starting, requests, dispatches, statements, login, clock, history
<1>1. /\ granted' = time
      /\ UNCHANGED <<started, setting, refusal, registered, hooks, at, answer, mine, stack, leases, running,
                     left, conn, passes, remembered, time, told, landed, outcome>>
  BY DEF Grant
<1>2. TypeOK /\ time \in 0 .. MaxTime /\ MaxTime \in Nat /\ Len(passes) \in Nat
      /\ DOMAIN passes = 1 .. Len(passes)
      /\ \A i \in DOMAIN passes : passes[i].askedAt <= time
  BY BoundsAssumption DEF PluginsInv, TypeOK, PassesFit
<1>3. TypeOK'
  BY <1>1, <1>2 DEF TypeOK, course
<1>4. PassesFit' /\ LoginKept
  BY <1>1, <1>2 DEF PassesFit, LoginKept
<1>5. ConnsFit'
  BY <1>1 DEF PluginsInv, ConnsFit, Lent
<1> QED  BY <1>1, <1>3, <1>4, <1>5 DEF StaysWell, Same

\* Nothing happens.
LEMMA NothingHappens ==
  ASSUME PluginsInv, UNCHANGED vars
  PROVE  StaysWell /\ \A q \in Request : Same(q)
<1> USE DEF starting, requests, dispatches, statements, login, clock, history
<1>1. UNCHANGED <<started, setting, refusal, registered, hooks, at, answer, mine, stack, leases, running,
                  left, conn, passes, remembered, time, granted, told, landed, outcome>>
  BY DEF vars
<1>2. TypeOK /\ TypeOK' /\ LoginKept /\ PassesFit'
  BY <1>1, Standstill DEF PluginsInv, TypeOK, course
<1>3. ConnsFit'
  BY <1>1 DEF PluginsInv, ConnsFit, Lent
<1> QED  BY <1>1, <1>2, <1>3 DEF StaysWell, Same

\* No request has begun, and every connection is in the pool.
LEMMA InitFits ==
  ASSUME Init
  PROVE  PluginsInv
<1>1. /\ started \in DOMAIN Applications
      /\ setting = [mode |-> Applications[started].mode, pool |-> Applications[started].pool,
                    course |-> Applications[started].course]
      /\ refusal = Nothing /\ registered = <<>> /\ hooks = [point \in Points |-> <<>>]
      /\ at = [r \in Request |-> 0] /\ leases = [r \in Request |-> 0]
      /\ answer = [r \in Request |-> Nothing] /\ mine = [r \in Request |-> Nothing]
      /\ stack = [r \in Request |-> <<>>]
      /\ running = [r \in Request |-> Nothing] /\ left = [r \in Request |-> Nothing]
      /\ conn = [c \in Conn |-> Free]
      /\ time = 0 /\ granted = Nothing
      /\ passes = <<>> /\ remembered = 0
      /\ told = {} /\ landed = {} /\ outcome = [r \in Request |-> Nothing]
  BY DEF Init
<1>2. setting \in Settings
  BY <1>1, ApplicationsAssumption
<1>3. \A r \in Request : course[r] \in Course /\ Whole(StepsOf[course[r]])
      /\ StepsOf[course[r]] \in Seq(Steps) /\ Len(StepsOf[course[r]]) \in Nat
      /\ Len(StepsOf[course[r]]) > 0
  <2> TAKE r \in Request
  <2>1. course[r] \in Course
    BY <1>2 DEF Settings, course
  <2>2. Whole(StepsOf[course[r]])
    BY <2>1, PathsAreWhole, CourseAssumption
  <2> QED  BY <2>1, <2>2 DEF Whole
<1>4. Free \in Connections
  BY FreeIsTyped
<1>5. /\ <<>> \in Seq(Names) /\ <<>> \in Seq(Calling) /\ <<>> \in Seq(Frames) /\ Len(<<>>) = 0
      /\ MaxDepth \in Nat /\ MaxTime \in Nat
      /\ passes \in Seq([askedAt : Nat, state : {"asking", "passed", "failed"}]) /\ Len(passes) = 0
  BY <1>1, BoundsAssumption
<1>6. TypeOK
  BY <1>1, <1>2, <1>3, <1>4, <1>5 DEF TypeOK
<1>7. ConnsFit
  <2>1. Free.writes = {} /\ Free.saves = <<>>
    BY DEF Free
  <2> QED  BY <1>1, <2>1 DEF ConnsFit, Lent
<1>8. PassesFit
  BY <1>1 DEF PassesFit
<1>9. ASSUME NEW r \in Request PROVE RequestFits(r)
  <2>1. OnPath(r)
    <3>1. \A b, e \in 0 .. Len(StepsOf[course[r]]) :
             Brackets(StepsOf[course[r]], b, e) => ~(b <= 0 /\ 0 < e)
      BY <1>3 DEF Brackets
    <3>2. Nothing # "failed" /\ Nothing # "vetoed"
      BY NothingElse DEF Answers
    <3> QED  BY <1>1, <1>3, <3>1, <3>2 DEF OnPath, Lent
  <2>2. Underway(r) = {}
    BY <1>1 DEF Underway
  <2>3. Dispatching(r) /\ TasksFit(r) /\ Timely(r)
    BY <1>1, <2>2 DEF Dispatching, TasksFit, Timely
  <2>4. Undisturbed(r)
    BY <1>1 DEF Undisturbed, Lent
  <2>5. Accounted(r)
    BY <1>1 DEF Accounted, WrittenBy, Settled, Lent
  <2>6. Unharmed(r)
    BY <1>1, NothingElse DEF Unharmed, Answers, Outcomes
  <2> QED  BY <2>1, <2>3, <2>4, <2>5, <2>6 DEF RequestFits
<1> QED  BY <1>6, <1>7, <1>8, <1>9 DEF PluginsInv

(***************************************************************************)
(* The theorems                                                            *)
(***************************************************************************)
\* A step of a request keeps the invariant,
LEMMA ServeFits ==
  ASSUME PluginsInv, NEW r \in Request, Serve(r)
  PROVE  GoesWell(r)
BY OpenFits, RunCoreFits, CoreFailsFits, CloseFits, ThrowAwayFits, TellFits, ReturnFits, RefuseFits,
   FindOwnerFits, DeleteSessionFits, RevokeFailsFits, QueryFits DEF Serve

\* a stage of a statement too,
LEMMA ExecuteFits ==
  ASSUME PluginsInv, NEW r \in Request, Execute(r)
  PROVE  GoesWell(r)
BY SendFits, SendOnThePoolFits, AskTheLibraryFits, AskTheReachFits, AwaitTheCheckFits, RunOnTheLoginFits
   DEF Execute

\* and so does every other step.
LEMMA NextFits ==
  ASSUME PluginsInv, [Next]_vars
  PROVE  PluginsInv'
<1>1. ASSUME NEW r \in Request, Serve(r) \/ Execute(r) PROVE PluginsInv'
  BY <1>1, ServeFits, ExecuteFits, AllStay
<1>2. ASSUME StaysWell /\ \A q \in Request : Same(q) PROVE PluginsInv'
  <2>1. \A q \in Request : RequestFits(q)'
    BY <1>2, RequestStays DEF StaysWell, PluginsInv
  <2> QED  BY <1>2, <2>1 DEF StaysWell, PluginsInv
<1>3. CASE CreatePluginRuntime
  BY <1>2, <1>3, StartFits
<1>4. CASE Tick
  BY <1>2, <1>4, TickFits
<1>5. CASE Grant
  BY <1>2, <1>5, GrantFits
<1>6. CASE UNCHANGED vars
  BY <1>2, <1>6, NothingHappens
<1> QED  BY <1>1, <1>3, <1>4, <1>5, <1>6 DEF Next, Proceed

\* The invariant holds always.
LEMMA PluginsInvAlways == Spec => []PluginsInv
<1>1. Init => PluginsInv
  BY InitFits
<1>2. PluginsInv /\ [Next]_vars => PluginsInv'
  BY NextFits
<1> QED  BY <1>1, <1>2, PTL DEF Spec

\* Every variable keeps its kind, whatever plugins are declared and however
\* requests, hooks, statements left running, checks and the grant interleave
\* (plugin/registry.ts, own-tables.ts, database-role.ts, login-connection.ts).
THEOREM PluginsTyped == Spec => []TypeOK
<1>1. PluginsInv => TypeOK
  BY DEF PluginsInv
<1> QED  BY <1>1, PluginsInvAlways, PTL

\* A hook that awaits what it calls costs the request nothing: the savepoint
\* around each statement and the role restored at its end leave the connection
\* as the library lent it, so no core statement meets an aborted transaction
\* and no commit rolls back (plugin/database-role.ts, E-2584).
THEOREM OrderlyHooksAreFree == Spec => []OrderlyHooksCostNothing
<1>1. PluginsInv => OrderlyHooksCostNothing
  <2> SUFFICES ASSUME PluginsInv, NEW r \in Request, Orderly(r)
               PROVE  answer[r] # "failed" /\ ~(answer[r] = "done" /\ outcome[r] = "rolledBack")
    BY DEF OrderlyHooksCostNothing
  <2> QED  BY DEF PluginsInv, RequestFits, Unharmed
<1> QED  BY <1>1, PluginsInvAlways, PTL

\* No statement that was called Recheck or more after the login was granted a
\* core table runs on that login: a remembered check is younger than Recheck
\* when it is used, and none that was asked after the grant passes
\* (plugin/login-connection.ts, E-2647).
THEOREM GrantsAreSeen == Spec => []GrantsAreSeenInTime
<1>1. PluginsInv => GrantsAreSeenInTime
  <2> SUFFICES ASSUME PluginsInv, granted # Nothing, NEW r \in Request, NEW task \in Underway(r),
                      mode = "login", Stage(task) = "own"
               PROVE  task.calledAt < granted + Recheck
    BY DEF GrantsAreSeenInTime
  <2>1. TypeOK /\ task \in Tasks /\ IsTimely(task)
    BY UnderwayIs DEF PluginsInv
  <2>2. /\ task.pass \in 1 .. Len(passes) /\ task.calledAt < passes[task.pass].askedAt + Recheck
        /\ passes[task.pass].askedAt <= granted
    BY <2>1 DEF IsTimely
  <2>3. passes \in Seq(Passes) /\ granted \in Nat /\ Recheck \in Nat /\ task.calledAt \in Nat
    BY <2>1, BoundsAssumption DEF TypeOK, Passes, Tasks
  <2>4. passes[task.pass].askedAt \in Nat
    <3>1. passes[task.pass] \in Passes
      BY <2>2, <2>3
    <3> QED  BY <3>1 DEF Passes
  <2> QED  BY <2>2, <2>3, <2>4
<1> QED  BY <1>1, PluginsInvAlways, PTL

Commits(r) == mine[r] # Nothing /\ mine'[r] = Nothing /\ outcome'[r] = "committed"
SharesItsFate(r) ==
    /\ WrittenBy(r, landed') # WrittenBy(r, landed) => Commits(r)
    /\ Commits(r) /\ Orderly(r) => WrittenBy(r, landed') = WrittenBy(r, told)

\* Nothing lands and no transaction ends.
LEMMA FateOfOthers ==
  ASSUME NEW q \in Request, landed' = landed, mine'[q] = mine[q]
  PROVE  SharesItsFate(q)
BY DEF SharesItsFate, Commits

\* A request that fails rolls back.
LEMMA FailingLandsNothing ==
  ASSUME PluginsInv, NEW r \in Request, NEW why, Fails(r, why), NEW q \in Request
  PROVE  SharesItsFate(q)
<1>1. landed' = landed /\ mine \in [Request -> Conn \cup {Nothing}] /\ outcome \in [Request -> Outcomes \cup {Nothing}]
  BY DEF Fails, PluginsInv, TypeOK
<1>2. CASE Lent(r) /\ q = r
  <2>1. outcome'[r] = "rolledBack"
    BY <1>1, <1>2 DEF Fails, Ends
  <2> QED  BY <1>1, <1>2, <2>1 DEF SharesItsFate, Commits
<1>3. CASE ~(Lent(r) /\ q = r)
  <2>1. mine'[q] = mine[q]
    BY <1>1, <1>3 DEF Fails, Ends
  <2> QED  BY <1>1, <2>1, FateOfOthers
<1> QED  BY <1>2, <1>3

\* A commit lands what the hooks were told.
LEMMA ClosingLands ==
  ASSUME PluginsInv, NEW r \in Request, Close(r), NEW q \in Request
  PROVE  SharesItsFate(q)
<1> DEFINE k == conn[mine[r]]
           how == IF k.aborted THEN "rolledBack" ELSE "committed"
<1>1. /\ answer[r] = Nothing /\ stack[r] = <<>> /\ Now(r).does = "commit" /\ Ends(r, how)
      /\ landed' = IF k.aborted THEN landed ELSE landed \cup k.writes
  BY DEF Close, IsAt
<1>2. TypeOK /\ RequestFits(r) /\ OnPath(r)
  BY DEF PluginsInv, RequestFits
<1>3. Lent(r)
  BY <1>1, <1>2, Standing
<1>4. Orderly(r) => Tidy(k)
  BY <1>1, <1>2, <1>3, Quiet
<1>5. /\ mine'[r] = Nothing /\ outcome'[r] = how /\ (q # r => mine'[q] = mine[q])
  BY <1>1, <1>2 DEF Ends, TypeOK
<1>6. /\ WrittenBy(r, k.writes) = k.writes /\ (q # r => WrittenBy(q, k.writes) = {})
  BY <1>3, HoldersWrite
<1>7. WrittenBy(q, landed \cup k.writes) = WrittenBy(q, landed) \cup WrittenBy(q, k.writes)
  BY DEF WrittenBy
<1>8. CASE q # r
  <2>1. WrittenBy(q, landed') = WrittenBy(q, landed)
    BY <1>1, <1>6, <1>7, <1>8
  <2>2. ~Commits(q)
    BY <1>5, <1>8 DEF Commits
  <2> QED  BY <2>1, <2>2 DEF SharesItsFate
<1>9. CASE q = r
  <2>1. WrittenBy(r, landed') # WrittenBy(r, landed) => Commits(r)
    BY <1>1, <1>3, <1>5 DEF Commits, Lent
  <2>2. ASSUME Orderly(r) PROVE WrittenBy(r, landed') = WrittenBy(r, told)
    <3>1. landed' = landed \cup k.writes
      BY <1>1, <1>4, <2>2 DEF Tidy
    <3>2. Settled(r) = k.writes
      BY <1>3, <1>4, <2>2 DEF Settled, Tidy
    <3>3. WrittenBy(r, told) = WrittenBy(r, landed) \cup k.writes
      BY <1>1, <1>2, <2>2, <3>2 DEF RequestFits, Accounted
    <3> QED  BY <1>6, <1>7, <1>9, <3>1, <3>3
  <2> QED  BY <1>9, <2>1, <2>2 DEF SharesItsFate
<1> QED  BY <1>8, <1>9

\* Of all the steps of a request, the commit alone lands anything.
LEMMA ServingSharesFate ==
  ASSUME PluginsInv, NEW r \in Request, Serve(r), NEW q \in Request
  PROVE  SharesItsFate(q)
<1> USE DEF starting, requests, dispatches, statements, login, clock, history
<1>1. CASE Open(r)
  <2>1. PICK c \in FreeConns : mine' = [mine EXCEPT ![r] = c]
    BY <1>1 DEF Open
  <2>2. c # Nothing /\ mine \in [Request -> Conn \cup {Nothing}] /\ landed' = landed
    BY <1>1, NothingElse DEF FreeConns, PluginsInv, TypeOK, Settings, pool, Open
  <2> QED  BY <2>1, <2>2 DEF SharesItsFate, Commits
<1>2. CASE RunCore(r) \/ Tell(r) \/ Return(r) \/ FindOwner(r) \/ DeleteSession(r) \/ Query(r)
  <2>1. landed' = landed /\ mine' = mine
    BY <1>2 DEF RunCore, Tell, Return, FindOwner, DeleteSession, Query
  <2> QED  BY <2>1, FateOfOthers
<1>3. CASE CoreFails(r) \/ Refuse(r) \/ RevokeFails(r)
  <2>1. Fails(r, "failed") \/ Fails(r, "vetoed")
    BY <1>3 DEF CoreFails, Refuse, RevokeFails
  <2> QED  BY <2>1, FailingLandsNothing
<1>4. CASE Close(r)
  BY <1>4, ClosingLands
<1>5. CASE ThrowAway(r)
  <2>1. /\ landed' = landed /\ mine' = [mine EXCEPT ![r] = Nothing]
        /\ outcome' = [outcome EXCEPT ![r] = "discarded"]
    BY <1>5 DEF ThrowAway, Ends
  <2>2. mine \in [Request -> Conn \cup {Nothing}] /\ outcome \in [Request -> Outcomes \cup {Nothing}]
    BY DEF PluginsInv, TypeOK
  <2> QED  BY <2>1, <2>2 DEF SharesItsFate, Commits
<1> QED  BY <1>1, <1>2, <1>3, <1>4, <1>5 DEF Serve

\* No other step lands anything.
LEMMA OthersLandNothing ==
  ASSUME NEW r \in Request, Execute(r) \/ Tick \/ Grant \/ CreatePluginRuntime, NEW q \in Request
  PROVE  SharesItsFate(q)
<1> USE DEF starting, requests, dispatches, statements, login, clock, history
<1>1. CASE Execute(r)
  <2>1. landed' = landed /\ mine' = mine
    BY <1>1 DEF Execute, Send, SendOnThePool, AskTheLibrary, AskTheReach, AwaitTheCheck, RunOnTheLogin
  <2> QED  BY <2>1, FateOfOthers
<1>2. CASE Tick \/ Grant \/ CreatePluginRuntime
  <2>1. landed' = landed /\ mine' = mine
    BY <1>2 DEF Tick, Grant, CreatePluginRuntime
  <2> QED  BY <2>1, FateOfOthers
<1> QED  BY <1>1, <1>2

\* What a hook writes on a lent connection lands with the commit of the request
\* that lent it and never otherwise, a lease that outlives its dispatch
\* included, and without statements left running exactly what the hooks were
\* told had succeeded lands (lend in plugin/registry.ts, E-2586).
THEOREM WritesLandTogether == Spec => WritesShareTheirFate
<1>1. ASSUME PluginsInv, Next, NEW r \in Request PROVE SharesItsFate(r)
  BY <1>1, ServingSharesFate, OthersLandNothing DEF Next, Proceed
<1>2. PluginsInv /\ [Next]_vars =>
        [\A r \in Request :
          LET Of(writes) == {write \in writes : write[1] = r}
              commits == mine[r] # Nothing /\ mine'[r] = Nothing /\ outcome'[r] = "committed"
          IN  /\ Of(landed') # Of(landed) => commits
              /\ commits /\ Orderly(r) => Of(landed') = Of(told)]_vars
  BY <1>1 DEF SharesItsFate, Commits, WrittenBy
<1> QED  BY <1>2, PluginsInvAlways, PTL DEF Spec, WritesShareTheirFate

\* Whatever the plugins declare, and however often a getter answers otherwise,
\* a runtime that starts has every plugin once, after all it depends on, with
\* one owner per table, no conflicting routes and no route off its limits, and
\* a cycle is refused only where there is one (createPluginRuntime in
\* plugin/registry.ts).
THEOREM StartsAreSound == Spec => StartIsSound
<1>1. PluginsInv /\ [Next]_vars => [refusal' # refusal => SoundStart']_vars
  <2> SUFFICES ASSUME PluginsInv, Next, refusal' # refusal PROVE SoundStart'
    OBVIOUS
  <2> USE DEF starting, requests, dispatches, statements, login, clock, history
  <2>1. CreatePluginRuntime
    <3>1. ASSUME NEW r \in Request, Serve(r) PROVE refusal' = refusal
      BY <3>1 DEF Serve, Open, RunCore, CoreFails, Close, ThrowAway, Tell, Return, Refuse, Fails,
                  FindOwner, DeleteSession, RevokeFails, Query
    <3>2. ASSUME NEW r \in Request, Execute(r) PROVE refusal' = refusal
      BY <3>2 DEF Execute, Send, SendOnThePool, AskTheLibrary, AskTheReach, AwaitTheCheck, RunOnTheLogin
    <3>3. Tick \/ Grant => refusal' = refusal
      BY DEF Tick, Grant
    <3> QED  BY <3>1, <3>2, <3>3 DEF Next, Proceed
  <2>2. /\ started' = started /\ refusal' = Refusal(declared)
        /\ registered' = IF Refusal(declared) = "none" THEN InDependencyOrder(OneReading(declared)) ELSE <<>>
    BY <2>1 DEF CreatePluginRuntime
  <2>3. declared \in Seq([read : Readings, later : Readings])
    BY DeclaredIs DEF PluginsInv, TypeOK
  <2>4. SoundlyStarted(OneReading(declared), refusal', registered')
    BY <2>2, <2>3, StartGoesWell
  <2>5. declared' = declared
    BY <2>2 DEF declared
  <2>6. SoundlyStarted(OneReading(declared'), refusal', registered')
    BY <2>4, <2>5
  <2> QED  BY <2>6 DEF SoundlyStarted, SoundStart, KeptOf, Kept
<1> QED  BY <1>1, PluginsInvAlways, PTL DEF Spec, StartIsSound

=============================================================================

------------------------ MODULE KeyInjection_proofs ------------------------
(***************************************************************************)
(* Proofs about the injection of keys, for any keymaps and texts: no key   *)
(* stays down that no client answers for, and the keys sent for a text     *)
(* that is answered without an error spell it in the keymap.               *)
(***************************************************************************)
EXTENDS KeyInjection, SequenceFacts

-----------------------------------------------------------------------------
(* Numbers and sequences.                                                  *)

\* Min and Max are what their names say.
LEMMA MinIn ==
    ASSUME NEW S, S \subseteq Nat, S # {}
    PROVE  Min(S) \in S /\ \A m \in S : Min(S) <= m
BY LeastNat DEF Min

\* The same of Max, for a set with a bound.
LEMMA MaxIn ==
    ASSUME NEW n \in Nat, NEW S, S \subseteq 1..n, S # {}
    PROVE  Max(S) \in S /\ \A m \in S : Max(S) >= m
<1> DEFINE T == {m \in 0..n : \A y \in S : y <= m}
<1>1. n \in T /\ T \subseteq Nat
  OBVIOUS
<1>2. PICK t \in T : \A m \in T : t <= m
  BY <1>1, LeastNat
<1>3. t \in S
  <2> SUFFICES ASSUME t \notin S PROVE FALSE
    OBVIOUS
  <2>1. \A y \in S : y < t
    BY <1>2
  <2>2. t \in 1..n
    <3>1. PICK y \in S : y \in 1..n
      OBVIOUS
    <3>2. t \in 0..n /\ y < t
      BY <2>1, <1>2
    <3>3. QED
      BY <3>1, <3>2
  <2>3. \A y \in S : y <= t - 1
    BY <2>1, <2>2
  <2>4. t - 1 \in 0..n
    BY <2>2
  <2>5. t - 1 \in T
    BY <2>3, <2>4
  <2>6. QED
    BY <2>2, <2>5, <1>2
<1>4. QED
  BY <1>2, <1>3 DEF Max

\* f holds the first n intermediate results of FlattenSeq.
Flattens(f, seqs, n) ==
    f = [i \in 1..n |-> IF i = 1 THEN seqs[i] ELSE f[i-1] \o seqs[i]]

\* One of these results.
LEMMA FlattensAt ==
    ASSUME NEW seqs, NEW n \in Nat, NEW f, Flattens(f, seqs, n), NEW i \in 1..n
    PROVE  f[i] = IF i = 1 THEN seqs[i] ELSE f[i-1] \o seqs[i]
BY DEF Flattens

\* Each is the one before with the next sequence behind it.
LEMMA FlattensNext ==
    ASSUME NEW seqs, NEW n \in Nat, NEW f, Flattens(f, seqs, n),
           NEW i \in 1..n, NEW j \in 1..n, i < j, j <= i + 1
    PROVE  f[j] = f[i] \o seqs[j]
<1>1. f[j] = IF j = 1 THEN seqs[j] ELSE f[j-1] \o seqs[j]
  BY DEF Flattens
<1>2. j - 1 = i /\ j # 1
  OBVIOUS
<1>3. QED
  BY <1>1, <1>2

\* There are such results.
LEMMA FlattenExists ==
    ASSUME NEW seqs, NEW n \in Nat
    PROVE  \E f : Flattens(f, seqs, n)
<1> DEFINE T == {m \in Nat : \E f : Flattens(f, seqs, m)}
<1>1. 0 \in T
  <2> DEFINE f == [i \in 1..0 |-> 0]
  <2>1. f = [i \in 1..0 |-> IF i = 1 THEN seqs[i] ELSE f[i-1] \o seqs[i]]
    OBVIOUS
  <2> HIDE DEF f
  <2>2. Flattens(f, seqs, 0)
    BY <2>1 DEF Flattens
  <2>3. QED
    BY <2>2
<1>2. ASSUME NEW m \in Nat, m \in T PROVE m + 1 \in T
  <2>1. PICK f : Flattens(f, seqs, m)
    BY <1>2
  <2> DEFINE last == IF m + 1 = 1 THEN seqs[m + 1] ELSE f[m] \o seqs[m + 1]
             g == [i \in 1..(m + 1) |-> IF i = m + 1 THEN last ELSE f[i]]
  <2>2. ASSUME NEW i \in 1..(m + 1)
        PROVE  g[i] = IF i = 1 THEN seqs[i] ELSE g[i-1] \o seqs[i]
    <3>1. CASE i = m + 1
      <4>1. g[i] = last
        BY <3>1
      <4>2. i # 1 => i - 1 \in 1..(m + 1) /\ i - 1 # m + 1 /\ i - 1 = m
        BY <3>1
      <4>3. i # 1 => g[i - 1] = f[m]
        BY <4>2
      <4>4. QED
        BY <3>1, <4>1, <4>3
    <3>2. CASE i # m + 1
      <4>1. i \in 1..m /\ g[i] = f[i]
        BY <3>2
      <4>2. i # 1 => i - 1 \in 1..(m + 1) /\ i - 1 # m + 1
        BY <4>1
      <4>3. i # 1 => g[i - 1] = f[i - 1]
        BY <4>2
      <4>4. f[i] = IF i = 1 THEN seqs[i] ELSE f[i-1] \o seqs[i]
        BY <2>1, <4>1, FlattensAt
      <4>5. QED
        BY <4>1, <4>3, <4>4
    <3>3. QED
      BY <3>1, <3>2
  <2>3. g = [i \in 1..(m + 1) |-> IF i = 1 THEN seqs[i] ELSE g[i-1] \o seqs[i]]
    <3>1. g = [i \in 1..(m + 1) |-> g[i]]
      OBVIOUS
    <3> HIDE DEF g
    <3>2. QED
      BY <2>2, <3>1
  <2> HIDE DEF g
  <2>4. Flattens(g, seqs, m + 1)
    BY <2>3 DEF Flattens
  <2>5. QED
    BY <2>4
<1> HIDE DEF T
<1>3. \A m \in Nat : m \in T
  BY <1>1, <1>2, Induction
<1>4. QED
  BY <1>3 DEF T

\* FlattenSeq gives the last of them.
LEMMA FlattenDef ==
    ASSUME NEW seqs, Len(seqs) \in Nat \ {0}
    PROVE  \E f : Flattens(f, seqs, Len(seqs)) /\ FlattenSeq(seqs) = f[Len(seqs)]
<1> DEFINE F == CHOOSE f : f = [i \in 1..Len(seqs) |->
                           IF i = 1 THEN seqs[i] ELSE f[i-1] \o seqs[i]]
<1>1. FlattenSeq(seqs) = F[Len(seqs)]
  BY DEF FlattenSeq
<1>2. \E f : f = [i \in 1..Len(seqs) |-> IF i = 1 THEN seqs[i] ELSE f[i-1] \o seqs[i]]
  BY FlattenExists DEF Flattens
<1>3. F = [i \in 1..Len(seqs) |-> IF i = 1 THEN seqs[i] ELSE F[i-1] \o seqs[i]]
  BY <1>2
<1> HIDE DEF F
<1>4. Flattens(F, seqs, Len(seqs))
  BY <1>3 DEF Flattens
<1>5. QED
  BY <1>1, <1>4

\* Nothing flattens to nothing.
LEMMA FlattenEmpty == FlattenSeq(<<>>) = <<>>
BY EmptySeq DEF FlattenSeq

\* What is appended comes last.
LEMMA FlattenAppend ==
    ASSUME NEW S, NEW seqs \in Seq(Seq(S)), NEW s \in Seq(S)
    PROVE  FlattenSeq(Append(seqs, s)) = FlattenSeq(seqs) \o s
<1> DEFINE n == Len(seqs)
           more == Append(seqs, s)
<1>1. /\ n \in Nat /\ Len(more) = n + 1
      /\ more[n + 1] = s /\ \A i \in 1..n : more[i] = seqs[i]
  BY AppendProperties
<1> HIDE DEF more
<1>2. PICK g : Flattens(g, more, n + 1) /\ FlattenSeq(more) = g[n + 1]
  <2>1. Len(more) \in Nat \ {0}
    BY <1>1
  <2>2. \E g : Flattens(g, more, Len(more)) /\ FlattenSeq(more) = g[Len(more)]
    BY <2>1, FlattenDef
  <2>3. QED
    BY <1>1, <2>2
<1>3. CASE n = 0
  <2>1. seqs = <<>>
    BY <1>3, EmptySeq
  <2>2. g[n + 1] = s
    <3>1. 1 \in 1..(n + 1)
      BY <1>3
    <3>2. g[1] = more[1]
      BY <1>1, <1>2, <3>1, FlattensAt
    <3>3. QED
      BY <1>1, <1>3, <3>2
  <2>3. <<>> \o s = s
    OBVIOUS
  <2>4. QED
    BY <1>2, <2>1, <2>2, <2>3, FlattenEmpty DEF more
<1>4. CASE n # 0
  <2>1. PICK f : Flattens(f, seqs, n) /\ FlattenSeq(seqs) = f[n]
    BY <1>1, <1>4, FlattenDef
  <2>a. ASSUME NEW i \in 1..n, NEW j \in 1..n, i < j, j <= i + 1
        PROVE  f[j] = f[i] \o seqs[j] /\ g[j] = g[i] \o seqs[j]
    <3>1. n \in Nat /\ n + 1 \in Nat /\ i \in 1..(n + 1) /\ j \in 1..(n + 1)
      BY <1>1
    <3> HIDE DEF n
    <3>2. f[j] = f[i] \o seqs[j]
      BY <2>1, <2>a, <3>1, FlattensNext
    <3>3. g[j] = g[i] \o more[j]
      BY <1>2, <2>a, <3>1, FlattensNext
    <3>4. QED
      BY <1>1, <3>2, <3>3
  <2> DEFINE T == {i \in Nat : i \in 1..n => g[i] = f[i]}
  <2>2. 0 \in T
    OBVIOUS
  <2>3. ASSUME NEW i \in Nat, i \in T PROVE i + 1 \in T
    <3> SUFFICES ASSUME i + 1 \in 1..n PROVE g[i + 1] = f[i + 1]
      OBVIOUS
    <3>1. more[i + 1] = seqs[i + 1] /\ i + 1 \in 1..(n + 1)
      BY <1>1
    <3>2. CASE i = 0
      <4>1. f[1] = seqs[1] /\ g[1] = more[1]
        BY <1>1, <1>2, <2>1, <3>1, <3>2, FlattensAt
      <4>2. QED
        BY <3>1, <3>2, <4>1
    <3>3. CASE i # 0
      <4>1. PICK j \in Nat : j = i + 1
        OBVIOUS
      <4>2. i \in 1..n /\ j \in 1..n /\ i < j /\ j <= i + 1
        BY <1>1, <3>3, <4>1
      <4>3. f[j] = f[i] \o seqs[j] /\ g[j] = g[i] \o seqs[j]
        BY <2>a, <4>2
      <4>4. QED
        BY <2>3, <4>1, <4>2, <4>3
    <3>4. QED
      BY <3>2, <3>3
  <2> HIDE DEF T
  <2>4. \A i \in Nat : i \in T
    BY <2>2, <2>3, Induction
  <2>5. g[n] = f[n]
    BY <2>4, <1>1, <1>4 DEF T
  <2>6. g[n + 1] = g[n] \o more[n + 1]
    <3> DEFINE j == n + 1
    <3>1. j \in Nat /\ n \in 1..j /\ j \in 1..j /\ n < j /\ j <= n + 1
      BY <1>1, <1>4
    <3> HIDE DEF j
    <3>2. g[j] = g[n] \o more[j]
      <4>1. Flattens(g, more, j)
        BY <1>2 DEF j
      <4>2. QED
        BY <4>1, <3>1, FlattensNext
    <3>3. QED
      BY <3>2 DEF j
  <2>7. QED
    BY <1>1, <1>2, <2>1, <2>5, <2>6 DEF more
<1>5. QED
  BY <1>3, <1>4

-----------------------------------------------------------------------------
(* What is pressed after some events.                                      *)

\* A key is pressed after n events if the last of them that names it presses it;
\* one that none of them names stays as it was.
LEMMA AfterIn ==
    ASSUME NEW es, NEW n \in Nat, NEW d, NEW x,
           \A i \in 1..n : es[i].press \in BOOLEAN
    PROVE  x \in After(es, n, d) <=>
             \/ x \in d /\ \A i \in 1..n : es[i].key # x
             \/ \E i \in 1..n : /\ es[i].key = x /\ es[i].press
                                /\ \A j \in 1..n : j > i => es[j].key # x
<1> DEFINE S == {i \in 1..n : es[i].key = x}
           last == Max(S)
<1>1. x \in {es[i].key : i \in 1..n} <=> S # {}
  OBVIOUS
<1>2. x \in After(es, n, d) <=>
        /\ x \in d \cup {es[i].key : i \in 1..n}
        /\ IF x \in {es[i].key : i \in 1..n} THEN es[last].press ELSE TRUE
  BY DEF After
<1>3. x \in After(es, n, d) <=> (x \in d \/ S # {}) /\ (S # {} => es[last].press)
  BY <1>1, <1>2
<1>4. CASE S = {}
  <2>1. \A i \in 1..n : es[i].key # x
    BY <1>4
  <2> HIDE DEF last, S
  <2>2. QED
    BY <1>3, <1>4, <2>1
<1>5. CASE S # {}
  <2>1. last \in S /\ \A m \in S : last >= m
    BY <1>5, MaxIn
  <2> HIDE DEF last
  <2>2. last \in 1..n /\ es[last].key = x /\ \A j \in 1..n : j > last => es[j].key # x
    BY <2>1
  <2>3. \A i \in 1..n : es[i].key = x /\ (\A j \in 1..n : j > i => es[j].key # x)
          => i = last
    BY <2>2
  <2>4. x \in After(es, n, d) <=> es[last].press
    BY <1>3, <1>5
  <2>5. ~(\A i \in 1..n : es[i].key # x)
    BY <2>2
  <2> HIDE DEF S
  <2>6. QED
    BY <2>2, <2>3, <2>4, <2>5
<1>6. QED
  BY <1>4, <1>5

\* Nothing is pressed by no event.
LEMMA AfterNone ==
    ASSUME NEW es, NEW d
    PROVE  After(es, 0, d) = d
<1>1. \A x : x \in After(es, 0, d) <=> x \in d
  BY AfterIn
<1>2. QED
  BY <1>1

\* One event presses or releases its key.
LEMMA AfterStep ==
    ASSUME NEW es, NEW n \in Nat, NEW d,
           \A i \in 1..(n + 1) : es[i].press \in BOOLEAN
    PROVE  After(es, n + 1, d) =
             IF es[n + 1].press THEN After(es, n, d) \cup {es[n + 1].key}
             ELSE After(es, n, d) \ {es[n + 1].key}
<1> DEFINE m == n + 1
<1>1. m \in Nat /\ m \in 1..m /\ n < m
  OBVIOUS
<1>2. \A i : i \in 1..m <=> i \in 1..n \/ i = m
  OBVIOUS
<1>3. \A i \in 1..n : es[i].press \in BOOLEAN /\ i < m /\ ~(i > m)
  OBVIOUS
<1> HIDE DEF m
<1>4. \A x : x \in After(es, m, d) <=>
        IF es[m].press THEN x \in After(es, n, d) \/ x = es[m].key
        ELSE x \in After(es, n, d) /\ x # es[m].key
  <2> TAKE x
  <2>1. x \in After(es, m, d) <=>
             \/ x \in d /\ \A i \in 1..m : es[i].key # x
             \/ \E i \in 1..m : /\ es[i].key = x /\ es[i].press
                                /\ \A j \in 1..m : j > i => es[j].key # x
    BY <1>1, AfterIn DEF m
  <2>2. x \in After(es, n, d) <=>
             \/ x \in d /\ \A i \in 1..n : es[i].key # x
             \/ \E i \in 1..n : /\ es[i].key = x /\ es[i].press
                                /\ \A j \in 1..n : j > i => es[j].key # x
    BY <1>3, AfterIn
  <2>3. CASE x = es[m].key
    BY <1>1, <1>2, <1>3, <2>1, <2>3
  <2>4. CASE x # es[m].key
    BY <1>1, <1>2, <1>3, <2>1, <2>2, <2>4
  <2>5. QED
    BY <2>3, <2>4
<1>5. QED
  BY <1>4 DEF m

-----------------------------------------------------------------------------
(* The events of a keysym.                                                 *)

Keys == {Code(c) : c \in Codes} \cup {Sym(s) : s \in Keysyms}

Events == [key : Keys, press : BOOLEAN]

KeysOf(es) == {es[i].key : i \in 1..Len(es)}

\* Whatever is pressed is named again later.
Followed(es) ==
    \A i \in 1..Len(es) : es[i].press =>
        \E k \in 1..Len(es) : k > i /\ es[k].key = es[i].key

\* What resolves resolves to a key.
LEMMA FindIn ==
    ASSUME NEW k, NEW s, DOMAIN k \subseteq Codes, Having(k, s) # {}
    PROVE  Find(k, s).code \in Having(k, s) /\ Find(k, s).code \in Codes
<1>1. Having(k, s) \subseteq Codes /\ Having(k, s) \subseteq Nat
  BY KeyAssumption DEF Having
<1>2. Min(Having(k, s)) \in Having(k, s)
  BY <1>1, MinIn
<1>3. Find(k, s).code = Min(Having(k, s))
  BY DEF Find
<1>4. QED
  BY <1>1, <1>2, <1>3

\* So does what the built-in table has to resolve.
LEMMA ResolveIn ==
    ASSUME NEW k, NEW s, DOMAIN k \subseteq Codes, Resolvable(k, s)
    PROVE  Resolve(k, s).code \in Codes
<1>1. DOMAIN Us \subseteq Codes
  BY KeyAssumption
<1>2. QED
  BY <1>1, FindIn DEF Resolve, Resolvable

\* The resolver in use has keys of the constant Codes only.
LEMMA InUseTyped ==
    ASSUME TypeOK
    PROVE  DOMAIN ResolverInUse \subseteq Codes
<1>1. \A k \in Keymaps : DOMAIN Parse(k) \subseteq Codes
  BY KeyAssumption DEF Parse
<1>2. ResolverInUse \in {Parse(k) : k \in Keymaps}
  BY DEF TypeOK, ResolverInUse
<1>3. QED
  BY <1>1, <1>2

\* A keysym is one key, or a key with Shift_L around it; its release names the
\* keys of its press.
LEMMA Shape ==
    ASSUME TypeOK, NEW s \in Keysyms, Supported(s)
    PROVE  \E a \in Keys, b \in Keys :
             \/ /\ KeyEvents(s, TRUE) = <<Event(a, TRUE)>>
                /\ KeyEvents(s, FALSE) = <<Event(a, FALSE)>>
             \/ /\ KeyEvents(s, TRUE) = <<Event(b, TRUE), Event(a, TRUE)>>
                /\ KeyEvents(s, FALSE) = <<Event(a, FALSE), Event(b, FALSE)>>
<1> DEFINE k == ResolverInUse
           a == Code(Resolve(k, s).code)
           b == Code(Resolve(k, "Shift_L").code)
<1>1. CASE transport = "notify"
  <2>1. Sym(s) \in Keys
    BY DEF Keys
  <2>2. /\ KeyEvents(s, TRUE) = <<Event(Sym(s), TRUE)>>
        /\ KeyEvents(s, FALSE) = <<Event(Sym(s), FALSE)>>
    BY <1>1 DEF KeyEvents
  <2>3. QED
    BY <2>1, <2>2
<1>2. CASE transport # "notify"
  <2>1. Resolvable(k, s) /\ (Resolve(k, s).level = 0 \/ Resolvable(k, "Shift_L"))
    BY <1>2 DEF Supported
  <2>2. DOMAIN k \subseteq Codes
    BY InUseTyped
  <2>3. a \in Keys /\ (Resolve(k, s).level = 0 \/ b \in Keys)
    <3> HIDE DEF k
    <3>1. QED
      BY <2>1, <2>2, ResolveIn DEF Keys
  <2>4. CASE Resolve(k, s).level = 0
    <3>1. /\ KeyEvents(s, TRUE) = <<Event(a, TRUE)>>
          /\ KeyEvents(s, FALSE) = <<Event(a, FALSE)>>
      BY <1>2, <2>4 DEF KeyEvents
    <3> HIDE DEF a
    <3>2. QED
      BY <2>3, <3>1
  <2>5. CASE Resolve(k, s).level # 0
    <3>1. /\ KeyEvents(s, TRUE) = <<Event(b, TRUE), Event(a, TRUE)>>
          /\ KeyEvents(s, FALSE) = <<Event(a, FALSE), Event(b, FALSE)>>
      BY <1>2, <2>5 DEF KeyEvents
    <3>2. a \in Keys /\ b \in Keys
      BY <2>3, <2>5
    <3> HIDE DEF a, b
    <3>3. QED
      BY <3>1, <3>2
  <2>6. QED
    BY <2>4, <2>5
<1>3. QED
  BY <1>1, <1>2

\* The key of one event.
LEMMA KeysOfOne ==
    ASSUME NEW e
    PROVE  KeysOf(<<e>>) = {e.key}
<1>1. Len(<<e>>) = 1 /\ <<e>>[1] = e
  OBVIOUS
<1>2. QED
  BY <1>1 DEF KeysOf

\* The keys of two events.
LEMMA KeysOfTwo ==
    ASSUME NEW e, NEW f
    PROVE  KeysOf(<<e, f>>) = {e.key, f.key}
<1> DEFINE s == <<e, f>>
<1>1. Len(s) = 2 /\ s[1] = e /\ s[2] = f
  OBVIOUS
<1>2. 1..2 = {1, 2}
  OBVIOUS
<1> HIDE DEF s
<1>3. QED
  BY <1>1, <1>2 DEF KeysOf

\* The keys of one sequence after another.
LEMMA KeysOfConcat ==
    ASSUME NEW E, NEW u \in Seq(E), NEW v \in Seq(E)
    PROVE  KeysOf(u \o v) = KeysOf(u) \cup KeysOf(v)
<1> DEFINE w == u \o v
<1>1. Len(u) \in Nat /\ Len(v) \in Nat /\ Len(w) = Len(u) + Len(v)
  BY ConcatProperties
<1>2. \A i \in 1..(Len(u) + Len(v)) : w[i] = IF i <= Len(u) THEN u[i] ELSE v[i - Len(u)]
  BY ConcatProperties
<1> HIDE DEF w
<1>3. \A i \in 1..Len(u) : i \in 1..Len(w) /\ w[i] = u[i]
  BY <1>1, <1>2
<1>4. ASSUME NEW j \in 1..Len(v)
      PROVE  \E i \in 1..Len(w) : w[i] = v[j]
  <2>1. PICK i \in Nat : i = j + Len(u)
    BY <1>1
  <2>2. i \in 1..Len(w) /\ ~(i <= Len(u)) /\ i - Len(u) = j
    BY <1>1, <2>1
  <2>3. w[i] = v[i - Len(u)]
    BY <1>1, <1>2, <2>2
  <2>4. QED
    BY <2>2, <2>3
<1>5. ASSUME NEW i \in 1..Len(w)
      PROVE  (\E j \in 1..Len(u) : w[i] = u[j]) \/ (\E j \in 1..Len(v) : w[i] = v[j])
  <2>1. CASE i <= Len(u)
    BY <1>1, <1>2, <2>1
  <2>2. CASE ~(i <= Len(u))
    <3>1. i - Len(u) \in 1..Len(v)
      BY <1>1, <2>2
    <3>2. w[i] = v[i - Len(u)]
      BY <1>1, <1>2, <2>2
    <3>3. QED
      BY <3>1, <3>2
  <2>3. QED
    BY <2>1, <2>2
<1>6. KeysOf(w) = KeysOf(u) \cup KeysOf(v)
  <2>1. ASSUME NEW x \in KeysOf(w) PROVE x \in KeysOf(u) \cup KeysOf(v)
    <3>1. PICK i \in 1..Len(w) : x = w[i].key
      BY <2>1 DEF KeysOf
    <3>2. QED
      BY <1>5, <3>1 DEF KeysOf
  <2>2. ASSUME NEW x \in KeysOf(u) \cup KeysOf(v) PROVE x \in KeysOf(w)
    <3>1. \E i \in 1..Len(w) : x = w[i].key
      <4>1. CASE x \in KeysOf(u)
        BY <1>3, <4>1 DEF KeysOf
      <4>2. CASE x \in KeysOf(v)
        <5>1. PICK j \in 1..Len(v) : x = v[j].key
          BY <4>2 DEF KeysOf
        <5>2. QED
          BY <1>4, <5>1
      <4>3. QED
        BY <2>2, <4>1, <4>2
    <3>2. QED
      BY <3>1 DEF KeysOf
  <2>3. QED
    BY <2>1, <2>2
<1>7. QED
  BY <1>6 DEF w

\* What is pressed first may be named again by what comes after.
LEMMA FollowedConcat ==
    ASSUME NEW E, NEW u \in Seq(E), NEW v \in Seq(E), Followed(v),
           Followed(u) \/ KeysOf(u) \subseteq KeysOf(v)
    PROVE  Followed(u \o v)
<1> DEFINE w == u \o v
<1>1. Len(u) \in Nat /\ Len(v) \in Nat /\ Len(w) = Len(u) + Len(v)
  BY ConcatProperties
<1>2. \A i \in 1..(Len(u) + Len(v)) : w[i] = IF i <= Len(u) THEN u[i] ELSE v[i - Len(u)]
  BY ConcatProperties
<1> HIDE DEF w
<1>3. ASSUME NEW j \in 1..Len(v)
      PROVE  \E k \in 1..Len(w) : w[k] = v[j] /\ k > Len(u) /\ k - Len(u) = j
  <2>1. PICK i \in Nat : i = j + Len(u)
    BY <1>1
  <2>2. i \in 1..Len(w) /\ i > Len(u) /\ i - Len(u) = j
    BY <1>1, <2>1
  <2>3. w[i] = v[i - Len(u)]
    BY <1>1, <1>2, <2>2
  <2>4. QED
    BY <2>2, <2>3
<1>4. ASSUME NEW i \in 1..Len(w), w[i].press
      PROVE  \E k \in 1..Len(w) : k > i /\ w[k].key = w[i].key
  <2>1. CASE i <= Len(u)
    <3>1. i \in 1..Len(u) /\ w[i] = u[i]
      BY <1>1, <1>2, <2>1
    <3>2. CASE Followed(u)
      <4>1. PICK k \in 1..Len(u) : k > i /\ u[k].key = u[i].key
        BY <1>4, <3>1, <3>2 DEF Followed
      <4>2. k \in 1..Len(w) /\ w[k] = u[k]
        BY <1>1, <1>2
      <4>3. QED
        BY <3>1, <4>1, <4>2
    <3>3. CASE KeysOf(u) \subseteq KeysOf(v)
      <4>1. u[i].key \in KeysOf(v)
        BY <3>1, <3>3 DEF KeysOf
      <4>2. PICK j \in 1..Len(v) : v[j].key = u[i].key
        BY <4>1 DEF KeysOf
      <4>3. PICK k \in 1..Len(w) : w[k] = v[j] /\ k > Len(u)
        BY <1>3
      <4>4. k > i
        BY <1>1, <2>1, <4>3
      <4>5. QED
        BY <3>1, <4>2, <4>3, <4>4
    <3>4. QED
      BY <3>2, <3>3
  <2>2. CASE ~(i <= Len(u))
    <3>1. PICK m \in 1..Len(v) : m = i - Len(u)
      <4>1. i - Len(u) \in 1..Len(v)
        BY <1>1, <2>2
      <4>2. QED
        BY <4>1
    <3>2. w[i] = v[m]
      BY <1>1, <1>2, <2>2, <3>1
    <3>3. PICK j \in 1..Len(v) : j > m /\ v[j].key = v[m].key
      BY <1>4, <3>2 DEF Followed
    <3>4. PICK k \in 1..Len(w) : w[k] = v[j] /\ k - Len(u) = j
      BY <1>3
    <3>5. k > i
      BY <1>1, <3>1, <3>3, <3>4
    <3>6. QED
      BY <3>2, <3>3, <3>4, <3>5
  <2>3. QED
    BY <2>1, <2>2
<1>5. Followed(w)
  BY <1>4 DEF Followed
<1>6. QED
  BY <1>5 DEF w

\* The events of a keysym are one press and its release, or two of each.
LEMMA ShapeEvents ==
    ASSUME TypeOK, NEW s \in Keysyms, Supported(s)
    PROVE  \E p \in Events, q \in Events, r \in Events, t \in Events :
             /\ ~r.press /\ ~t.press /\ r.key = p.key /\ t.key = q.key
             /\ \/ KeyEvents(s, TRUE) = <<p>> /\ KeyEvents(s, FALSE) = <<r>>
                \/ KeyEvents(s, TRUE) = <<q, p>> /\ KeyEvents(s, FALSE) = <<r, t>>
<1>1. PICK a \in Keys, b \in Keys :
             \/ /\ KeyEvents(s, TRUE) = <<Event(a, TRUE)>>
                /\ KeyEvents(s, FALSE) = <<Event(a, FALSE)>>
             \/ /\ KeyEvents(s, TRUE) = <<Event(b, TRUE), Event(a, TRUE)>>
                /\ KeyEvents(s, FALSE) = <<Event(a, FALSE), Event(b, FALSE)>>
  BY Shape
<1>2. PICK p : p = Event(a, TRUE)
  OBVIOUS
<1>3. PICK q : q = Event(b, TRUE)
  OBVIOUS
<1>4. PICK r : r = Event(a, FALSE)
  OBVIOUS
<1>5. PICK t : t = Event(b, FALSE)
  OBVIOUS
<1>6. p \in Events /\ p.key = a
  BY <1>2 DEF Event, Events
<1>7. q \in Events /\ q.key = b
  BY <1>3 DEF Event, Events
<1>8. r \in Events /\ r.key = a /\ ~r.press
  BY <1>4 DEF Event, Events
<1>9. t \in Events /\ t.key = b /\ ~t.press
  BY <1>5 DEF Event, Events
<1>10. \/ KeyEvents(s, TRUE) = <<p>> /\ KeyEvents(s, FALSE) = <<r>>
       \/ KeyEvents(s, TRUE) = <<q, p>> /\ KeyEvents(s, FALSE) = <<r, t>>
  BY <1>1, <1>2, <1>3, <1>4, <1>5, Zenon
<1>11. QED
  BY <1>6, <1>7, <1>8, <1>9, <1>10

\* A press and a release name what the keysym holds; a release presses nothing.
LEMMA PressRelease ==
    ASSUME TypeOK, NEW s \in Keysyms, Supported(s)
    PROVE  /\ Holds(s) \subseteq Keys
           /\ KeyEvents(s, TRUE) \in Seq(Events) /\ KeysOf(KeyEvents(s, TRUE)) = Holds(s)
           /\ KeyEvents(s, FALSE) \in Seq(Events) /\ KeysOf(KeyEvents(s, FALSE)) = Holds(s)
           /\ \A i \in 1..Len(KeyEvents(s, FALSE)) : ~KeyEvents(s, FALSE)[i].press
<1> DEFINE u == KeyEvents(s, TRUE)
           v == KeyEvents(s, FALSE)
<1>1. Holds(s) = {u[i].key : i \in DOMAIN u}
  <2>1. s # "left"
    BY KeyAssumption
  <2>2. QED
    BY <2>1 DEF Holds
<1>2. PICK p \in Events, q \in Events, r \in Events, t \in Events :
             /\ ~r.press /\ ~t.press /\ r.key = p.key /\ t.key = q.key
             /\ \/ u = <<p>> /\ v = <<r>>
                \/ u = <<q, p>> /\ v = <<r, t>>
  BY ShapeEvents
<1> HIDE DEF u, v
<1>3. p.key \in Keys /\ q.key \in Keys
  BY DEF Events
<1>4. u \in Seq(Events) /\ v \in Seq(Events)
  <2>1. /\ <<p>> \in Seq(Events) /\ <<r>> \in Seq(Events)
        /\ <<q, p>> \in Seq(Events) /\ <<r, t>> \in Seq(Events)
    OBVIOUS
  <2>2. QED
    BY <1>2, <2>1, Zenon
<1>5. Holds(s) = KeysOf(u)
  BY <1>1, <1>4, LenProperties DEF KeysOf
<1>6. CASE u = <<p>> /\ v = <<r>>
  <2>1. KeysOf(u) = {p.key} /\ KeysOf(v) = {p.key}
    BY <1>2, <1>6, KeysOfOne
  <2>2. Len(v) = 1 /\ v[1] = r
    BY <1>6
  <2>3. \A i \in 1..Len(v) : ~v[i].press
    BY <1>2, <2>2
  <2>4. QED
    BY <1>3, <1>4, <1>5, <2>1, <2>3 DEF u, v
<1>7. CASE u = <<q, p>> /\ v = <<r, t>>
  <2>1. KeysOf(u) = {p.key, q.key} /\ KeysOf(v) = {p.key, q.key}
    BY <1>2, <1>7, KeysOfTwo
  <2>2. Len(v) = 2 /\ v[1] = r /\ v[2] = t
    BY <1>7
  <2>3. \A i \in 1..Len(v) : i = 1 \/ i = 2
    BY <2>2
  <2>4. \A i \in 1..Len(v) : ~v[i].press
    BY <1>2, <2>2, <2>3
  <2>5. QED
    BY <1>3, <1>4, <1>5, <2>1, <2>4 DEF u, v
<1>8. QED
  BY <1>2, <1>6, <1>7

\* So does a tap, and it releases what it has pressed.
LEMMA TapEvents ==
    ASSUME TypeOK, NEW s \in Keysyms, Supported(s)
    PROVE  Tap(s) \in Seq(Events) /\ KeysOf(Tap(s)) = Holds(s) /\ Followed(Tap(s))
<1> DEFINE u == KeyEvents(s, TRUE)
           v == KeyEvents(s, FALSE)
<1>1. /\ u \in Seq(Events) /\ KeysOf(u) = Holds(s)
      /\ v \in Seq(Events) /\ KeysOf(v) = Holds(s)
      /\ \A i \in 1..Len(v) : ~v[i].press
  BY PressRelease
<1>2. Tap(s) = u \o v
  BY DEF Tap
<1> HIDE DEF u, v
<1>3. Followed(v)
  BY <1>1 DEF Followed
<1>4. u \o v \in Seq(Events)
  BY <1>1
<1>5. KeysOf(u \o v) = Holds(s)
  <2>1. KeysOf(u \o v) = KeysOf(u) \cup KeysOf(v)
    BY <1>1, KeysOfConcat
  <2>2. QED
    BY <1>1, <2>1
<1>6. Followed(u \o v)
  BY <1>1, <1>3, FollowedConcat
<1>7. QED
  BY <1>2, <1>4, <1>5, <1>6

\* After events that each are followed, what they name is up.
LEMMA AllUp ==
    ASSUME NEW E, \A e \in E : e.press \in BOOLEAN,
           NEW es \in Seq(E), Followed(es), NEW d
    PROVE  After(es, Len(es), d) = d \ KeysOf(es)
<1>1. Len(es) \in Nat /\ \A i \in 1..Len(es) : es[i] \in E
  OBVIOUS
<1>2. \A x : x \in After(es, Len(es), d) <=>
             \/ x \in d /\ \A i \in 1..Len(es) : es[i].key # x
             \/ \E i \in 1..Len(es) : /\ es[i].key = x /\ es[i].press
                                /\ \A j \in 1..Len(es) : j > i => es[j].key # x
  BY <1>1, AfterIn
<1>3. \A x : x \in After(es, Len(es), d) <=> x \in d /\ \A i \in 1..Len(es) : es[i].key # x
  BY <1>2 DEF Followed
<1>4. QED
  BY <1>3 DEF KeysOf

\* Only what some event presses comes down.
LEMMA OnlyPressed ==
    ASSUME NEW E, \A e \in E : e.press \in BOOLEAN,
           NEW es \in Seq(E), NEW n \in 0..Len(es), NEW d
    PROVE  After(es, n, d) \subseteq d \cup {es[i].key : i \in {i \in 1..Len(es) : es[i].press}}
<1>1. n \in Nat /\ \A i \in 1..n : i \in 1..Len(es) /\ es[i] \in E
  OBVIOUS
<1>2. \A x : x \in After(es, n, d) =>
             \/ x \in d
             \/ \E i \in 1..n : es[i].key = x /\ es[i].press
  BY <1>1, AfterIn
<1>3. QED
  BY <1>1, <1>2

-----------------------------------------------------------------------------
(* The events of a text.                                                   *)

\* type_text's events, character by character.
LEMMA TextEventsStep ==
    ASSUME NEW E, NEW tap, NEW n \in Nat,
           \A i \in 1..(n + 1) : tap[i] \in Seq(E)
    PROVE  FlattenSeq([i \in 1..(n + 1) |-> tap[i]])
             = FlattenSeq([i \in 1..n |-> tap[i]]) \o tap[n + 1]
<1> DEFINE seqs == [i \in 1..n |-> tap[i]]
           more == [i \in 1..(n + 1) |-> tap[i]]
           next == tap[n + 1]
<1>1. seqs \in Seq(Seq(E)) /\ more \in Seq(Seq(E)) /\ next \in Seq(E)
  <2>1. \A i \in 1..n : i \in 1..(n + 1)
    OBVIOUS
  <2>2. seqs \in [1..n -> Seq(E)] /\ more \in [1..(n + 1) -> Seq(E)]
    BY <2>1
  <2>3. n + 1 \in Nat /\ n + 1 \in 1..(n + 1)
    OBVIOUS
  <2>4. QED
    BY <2>2, <2>3, SeqDef
<1>2. Len(seqs) = n /\ Len(more) = n + 1
  OBVIOUS
<1>3. /\ Append(seqs, next) \in Seq(Seq(E))
      /\ Len(Append(seqs, next)) = n + 1
      /\ \A i \in 1..n : Append(seqs, next)[i] = seqs[i]
      /\ Append(seqs, next)[n + 1] = next
  <2> HIDE DEF seqs, next
  <2>1. QED
    BY <1>1, <1>2, AppendProperties
<1>4. \A i \in 1..(n + 1) : Append(seqs, next)[i] = more[i]
  <2>1. ASSUME NEW i \in 1..n PROVE Append(seqs, next)[i] = more[i]
    <3>1. i \in 1..(n + 1) /\ seqs[i] = tap[i] /\ more[i] = tap[i]
      OBVIOUS
    <3> HIDE DEF seqs, more, next
    <3>2. QED
      BY <1>3, <3>1
  <2>2. Append(seqs, next)[n + 1] = more[n + 1]
    <3>1. more[n + 1] = next
      OBVIOUS
    <3> HIDE DEF seqs, more, next
    <3>2. QED
      BY <1>3, <3>1
  <2>3. \A i \in 1..(n + 1) : i \in 1..n \/ i = n + 1
    OBVIOUS
  <2> HIDE DEF seqs, more, next
  <2>4. QED
    BY <2>1, <2>2, <2>3
<1> HIDE DEF seqs, more, next
<1>5. Append(seqs, next) = more
  BY <1>1, <1>2, <1>3, <1>4, SeqEqual
<1>6. FlattenSeq(more) = FlattenSeq(seqs) \o next
  BY <1>1, <1>5, FlattenAppend
<1>7. QED
  BY <1>6 DEF seqs, more, next

\* The events of a text name what its characters hold, and release all of it.
LEMMA TextEventsOf ==
    ASSUME TypeOK, NEW t \in Seq(Keysyms), \A i \in 1..Len(t) : Supported(t[i])
    PROVE  /\ TextEvents(t) \in Seq(Events)
           /\ KeysOf(TextEvents(t)) = UNION {Holds(t[i]) : i \in 1..Len(t)}
           /\ Followed(TextEvents(t))
<1> DEFINE tap == [i \in 1..Len(t) |-> Tap(t[i])]
           es(n) == FlattenSeq([i \in 1..n |-> tap[i]])
           P(n) == /\ es(n) \in Seq(Events) /\ Followed(es(n))
                   /\ KeysOf(es(n)) = UNION {Holds(t[i]) : i \in 1..n}
           T == {n \in Nat : n <= Len(t) => P(n)}
<1>1. Len(t) \in Nat
  OBVIOUS
<1>2. \A i \in 1..Len(t) : /\ tap[i] \in Seq(Events) /\ Followed(tap[i])
                           /\ KeysOf(tap[i]) = Holds(t[i])
  <2> SUFFICES ASSUME NEW i \in 1..Len(t)
               PROVE  /\ tap[i] \in Seq(Events) /\ Followed(tap[i])
                      /\ KeysOf(tap[i]) = Holds(t[i])
    OBVIOUS
  <2>1. t[i] \in Keysyms /\ Supported(t[i])
    BY ElementOfSeq
  <2>2. tap[i] = Tap(t[i])
    OBVIOUS
  <2>3. QED
    BY <2>1, <2>2, TapEvents
<1> HIDE DEF tap
<1>3. es(0) = <<>>
  <2>1. [i \in 1..0 |-> tap[i]] = <<>>
    OBVIOUS
  <2>2. QED
    BY <2>1, FlattenEmpty
<1>4. 0 \in T
  <2>1. <<>> \in Seq(Events) /\ Followed(<<>>) /\ KeysOf(<<>>) = {}
    BY DEF Followed, KeysOf
  <2>2. UNION {Holds(t[i]) : i \in 1..0} = {}
    OBVIOUS
  <2> HIDE DEF es
  <2>3. QED
    BY <1>3, <2>1, <2>2
<1>5. ASSUME NEW n \in Nat, n \in T PROVE n + 1 \in T
  <2>1. ASSUME n + 1 <= Len(t) PROVE P(n + 1)
    <3>1. P(n)
      <4>1. n <= Len(t)
        BY <1>1, <2>1
      <4> HIDE DEF P
      <4>2. QED
        BY <1>5, <4>1
    <3>2. \A i \in 1..(n + 1) : i \in 1..Len(t)
      BY <1>1, <2>1
    <3>3. es(n + 1) = es(n) \o tap[n + 1]
      BY <1>2, <3>2, TextEventsStep
    <3>4. /\ tap[n + 1] \in Seq(Events) /\ Followed(tap[n + 1])
          /\ KeysOf(tap[n + 1]) = Holds(t[n + 1])
      <4>1. n + 1 \in 1..Len(t)
        BY <1>1, <2>1
      <4>2. QED
        BY <1>2, <4>1
    <3>5. UNION {Holds(t[i]) : i \in 1..(n + 1)}
            = (UNION {Holds(t[i]) : i \in 1..n}) \cup Holds(t[n + 1])
      <4>1. \A i : i \in 1..(n + 1) <=> i \in 1..n \/ i = n + 1
        OBVIOUS
      <4>2. QED
        BY <4>1
    <3> HIDE DEF es
    <3>6. es(n) \o tap[n + 1] \in Seq(Events)
      BY <3>1, <3>4, ConcatProperties
    <3>7. Followed(es(n) \o tap[n + 1])
      BY <3>1, <3>4, FollowedConcat
    <3>8. KeysOf(es(n) \o tap[n + 1]) = KeysOf(es(n)) \cup KeysOf(tap[n + 1])
      BY <3>1, <3>4, KeysOfConcat
    <3>9. QED
      BY <3>1, <3>3, <3>4, <3>5, <3>6, <3>7, <3>8
  <2> HIDE DEF P
  <2>2. QED
    BY <2>1
<1> HIDE DEF T
<1>6. Len(t) \in T
  BY <1>1, <1>4, <1>5, Induction
<1>7. TextEvents(t) = es(Len(t))
  <2>1. DOMAIN t = 1..Len(t)
    OBVIOUS
  <2>2. [i \in 1..Len(t) |-> tap[i]] = [i \in DOMAIN t |-> Tap(t[i])]
    BY <2>1 DEF tap
  <2>3. QED
    BY <2>2 DEF TextEvents
<1> HIDE DEF es
<1>8. QED
  BY <1>1, <1>6, <1>7 DEF T

\* type_text stops before a character it cannot type; all before it it can.
LEMMA PrefixTyped ==
    ASSUME NEW text \in Texts
    PROVE  /\ Prefix(text) \in Seq(Characters)
           /\ \A i \in 1..Len(Prefix(text)) : Supported(Prefix(text)[i])
           /\ text = <<>> \/ text[1] \in Exotic => Prefix(text) = <<>>
<1>1. text \in Seq(Characters \cup Exotic)
  BY KeyAssumption
<1>2. Len(text) \in Nat /\ DOMAIN text = 1..Len(text)
  BY <1>1
<1>3. CASE \A i \in DOMAIN text : Typeable(text[i])
  <2>1. Prefix(text) = text
    BY <1>3 DEF Prefix
  <2>2. \A i \in 1..Len(text) : text[i] \in Characters /\ Supported(text[i])
    BY <1>2, <1>3 DEF Typeable
  <2>3. text \in Seq(Characters)
    BY <1>1, <1>2, <2>2, LenProperties, SeqDef
  <2>4. text = <<>> \/ text[1] \in Exotic => text = <<>>
    <3> SUFFICES ASSUME text # <<>> PROVE text[1] \notin Exotic
      OBVIOUS
    <3>1. 1 \in 1..Len(text)
      BY <1>1, EmptySeq
    <3>2. QED
      BY <2>2, <3>1, KeyAssumption
  <2>5. QED
    BY <2>1, <2>2, <2>3, <2>4
<1>4. CASE ~(\A i \in DOMAIN text : Typeable(text[i]))
  <2> DEFINE bad == {i \in DOMAIN text : ~Typeable(text[i])}
             m == Min(bad)
  <2>1. bad \subseteq Nat /\ bad # {}
    BY <1>2, <1>4
  <2>2. m \in bad /\ \A i \in bad : m <= i
    BY <2>1, MinIn
  <2>3. Prefix(text) = SubSeq(text, 1, m - 1)
    BY <1>4 DEF Prefix
  <2> HIDE DEF m
  <2>4. m \in 1..Len(text) /\ ~Typeable(text[m])
    BY <1>2, <2>2
  <2>5. \A i \in 1..(m - 1) : i \in DOMAIN text /\ i \notin bad
    BY <1>2, <2>2, <2>4
  <2>6. \A i \in 1..(m - 1) : text[i] \in Characters /\ Supported(text[i])
    BY <2>5 DEF Typeable
  <2>7. m - 1 \in Int /\ (IF 1 <= m - 1 THEN m - 1 - 1 + 1 ELSE 0) = m - 1
        /\ m - 1 - 1 + 1 = m - 1
    BY <2>4
  <2>8. /\ SubSeq(text, 1, m - 1) \in Seq(Characters)
        /\ Len(SubSeq(text, 1, m - 1)) = m - 1
        /\ \A i \in 1..(m - 1) : SubSeq(text, 1, m - 1)[i] = text[i]
    BY <2>6, <2>7
  <2>9. text[1] \in Exotic => SubSeq(text, 1, m - 1) = <<>>
    <3> SUFFICES ASSUME text[1] \in Exotic PROVE SubSeq(text, 1, m - 1) = <<>>
      OBVIOUS
    <3>1. 1 \notin 1..(m - 1)
      BY <2>6, KeyAssumption
    <3>2. m - 1 = 0
      BY <2>4, <3>1
    <3>3. QED
      BY <2>8, <3>2, EmptySeq
  <2>10. text # <<>>
    BY <2>4
  <2>11. QED
    BY <2>3, <2>6, <2>8, <2>9, <2>10
<1>5. QED
  BY <1>3, <1>4

-----------------------------------------------------------------------------
(* What a call does to the compositor, and what it leaves owed.            *)

\* A call has the compositor forget everything, or see some of its events; all
\* of them, if it is answered without an error.
LEMMA SendEffect ==
    ASSUME TypeOK, NEW E, NEW es \in Seq(E), NEW ok \in BOOLEAN, Send(es, ok)
    PROVE  /\ link' \in {"resumed", "emulating", "closed"}
           /\ \/ down' = {}
              \/ \E n \in 0..Len(es) : (ok => n = Len(es)) /\ down' = After(es, n, down)
<1>1. Len(es) \in Nat /\ 0 \in 0..Len(es) /\ (es = <<>> => Len(es) = 0)
  OBVIOUS
<1>2. CASE es = <<>> /\ UNCHANGED <<link, down>>
  BY <1>1, <1>2, AfterNone DEF TypeOK
<1>3. CASE /\ \E n \in 0..Len(es) : (ok => n = Len(es)) /\ down' = After(es, n, down)
           /\ UNCHANGED link
  BY <1>3 DEF TypeOK
<1>4. CASE \E n \in 0..Len(es) :
            /\ down' = After(es, n, down)
            /\ \/ ok /\ n = Len(es) /\ link' = "resumed"
               \/ ~ok /\ n < Len(es) /\ link' = "resumed"
               \/ ~ok /\ link' = "emulating"
  BY <1>4
<1>5. CASE Drop
  BY <1>5 DEF Drop
<1>6. CASE ~ok /\ UNCHANGED <<link, down>>
  BY <1>1, <1>6, AfterNone DEF TypeOK
<1>7. QED
  BY <1>2, <1>3, <1>4, <1>5, <1>6 DEF Send

\* Whatever is down after a call is held by something that is owed after it: if
\* the call has released what it names and is answered without an error, if what
\* it names is owed from then on, or if it presses nothing.
LEMMA Injected ==
    ASSUME TypeOK, DownIsOwed,
           NEW E, \A e \in E : e.press \in BOOLEAN,
           NEW es \in Seq(E), NEW ok \in BOOLEAN, Send(es, ok), NEW A,
           \/ /\ ok /\ Followed(es) /\ owed' = owed \ A
              /\ KeysOf(es) = UNION {Holds(x) : x \in A}
           \/ /\ owed' = owed \cup A
              /\ KeysOf(es) = UNION {Holds(x) : x \in A}
           \/ owed' = owed /\ \A i \in 1..Len(es) : ~es[i].press
    PROVE  /\ link' \in {"resumed", "emulating", "closed"}
           /\ down' \subseteq UNION {Holds(x) : x \in owed'}
           /\ down' \subseteq down \cup {es[i].key : i \in {i \in 1..Len(es) : es[i].press}}
<1>1. /\ link' \in {"resumed", "emulating", "closed"}
      /\ \/ down' = {}
         \/ \E n \in 0..Len(es) : (ok => n = Len(es)) /\ down' = After(es, n, down)
  BY SendEffect
<1>2. CASE down' = {}
  BY <1>1, <1>2
<1>3. CASE down' # {}
  <2>1. PICK n \in 0..Len(es) : (ok => n = Len(es)) /\ down' = After(es, n, down)
    BY <1>1, <1>3
  <2>2. down' \subseteq down \cup {es[i].key : i \in {i \in 1..Len(es) : es[i].press}}
    BY <2>1, OnlyPressed
  <2>3. down' \subseteq down \cup KeysOf(es)
    BY <2>2 DEF KeysOf
  <2>4. CASE /\ ok /\ Followed(es) /\ owed' = owed \ A
             /\ KeysOf(es) = UNION {Holds(x) : x \in A}
    <3>1. down' = down \ KeysOf(es)
      BY <2>1, <2>4, AllUp
    <3>2. QED
      BY <1>1, <2>2, <2>4, <3>1 DEF DownIsOwed
  <2>5. CASE /\ owed' = owed \cup A
             /\ KeysOf(es) = UNION {Holds(x) : x \in A}
    BY <1>1, <2>2, <2>3, <2>5 DEF DownIsOwed
  <2>6. CASE owed' = owed /\ \A i \in 1..Len(es) : ~es[i].press
    <3>1. down' \subseteq down
      BY <2>2, <2>6
    <3>2. QED
      BY <1>1, <2>2, <2>6, <3>1 DEF DownIsOwed
  <2>7. QED
    BY <2>4, <2>5, <2>6
<1>4. QED
  BY <1>2, <1>3

-----------------------------------------------------------------------------
(* No key stays down that no client answers for.                           *)

\* A keysym is resolved before it is pressed, and the resolver is kept: until
\* there is one, only a button can be down.
KInv ==
    /\ TypeOK
    /\ DownIsOwed
    /\ transport = "eis" /\ resolver = <<>> => down \subseteq {Left}

\* A keysym holds keys, a button itself.
LEMMA HoldsTyped ==
    ASSUME TypeOK
    PROVE  /\ Holds("left") = {Left}
           /\ \A x \in Keysyms : Holds(x) \subseteq Keys
           /\ Left \notin Keys
           /\ Pressable = Keys \cup {Left}
<1>1. Holds("left") = {Left}
  BY DEF Holds
<1>2. \A x \in Keysyms : Holds(x) \subseteq Keys
  <2> TAKE x \in Keysyms
  <2>1. CASE Supported(x)
    BY <2>1, PressRelease
  <2>2. CASE ~Supported(x)
    <3>1. x # "left"
      BY KeyAssumption
    <3>2. QED
      BY <2>2, <3>1 DEF Holds
  <2>3. QED
    BY <2>1, <2>2
<1>3. Left \notin Keys
  BY DEF Left, Keys, Code, Sym
<1>4. Pressable = Keys \cup {Left}
  BY DEF Pressable, Keys
<1>5. QED
  BY <1>1, <1>2, <1>3, <1>4

\* Resolving a keysym settles on the resolver that was in use anyway.
LEMMA ResolvingKeeps ==
    ASSUME TypeOK, Resolving, UNCHANGED frame
    PROVE  /\ ResolverInUse' = ResolverInUse
           /\ resolver' \in {<<>>} \cup {<<Parse(k)>> : k \in Keymaps}
           /\ transport = "eis" => resolver' # <<>>
<1>1. ResolverInUse \in {Parse(k) : k \in Keymaps}
  BY DEF TypeOK, ResolverInUse
<1>2. PICK k : k = ResolverInUse /\ k \in {Parse(m) : m \in Keymaps}
  BY <1>1
<1>3. <<k>> # <<>> /\ Head(<<k>>) = k
  OBVIOUS
<1>4. CASE transport = "eis"
  <2>1. resolver' = <<k>>
    BY <1>2, <1>4 DEF Resolving
  <2>2. ResolverInUse' = k
    BY <1>3, <2>1 DEF ResolverInUse
  <2>3. <<k>> \in {<<Parse(m)>> : m \in Keymaps}
    BY <1>2
  <2>4. QED
    BY <1>2, <1>3, <2>1, <2>2, <2>3
<1>5. CASE transport # "eis"
  BY <1>5 DEF Resolving, TypeOK, ResolverInUse, frame
<1>6. QED
  BY <1>4, <1>5

\* What a keysym or a button holds depends on the resolver in use.
LEMMA HoldsSame ==
    ASSUME transport' = transport, ResolverInUse' = ResolverInUse
    PROVE  \A x : Holds(x)' = Holds(x)
<1> TAKE x
<1>1. Supported(x)' <=> Supported(x)
  BY DEF Supported
<1>2. KeyEvents(x, TRUE)' = KeyEvents(x, TRUE)
  BY DEF KeyEvents
<1>3. QED
  BY <1>1, <1>2 DEF Holds

\* A call keeps the invariant if what is down after it is held by what is owed
\* after it.
LEMMA Kept ==
    ASSUME KInv, UNCHANGED frame, ResolverInUse' = ResolverInUse,
           resolver' \in {<<>>} \cup {<<Parse(k)>> : k \in Keymaps},
           link' \in {"resumed", "emulating", "closed"},
           owed' \subseteq Keysyms \cup {"left"},
           down' \subseteq UNION {Holds(x) : x \in owed'},
           transport = "eis" /\ resolver' = <<>> => down' \subseteq {Left}
    PROVE  KInv'
<1>1. TypeOK /\ transport' = transport
  BY DEF KInv, frame
<1>2. \A x : Holds(x)' = Holds(x)
  BY <1>1, HoldsSame
<1>3. DownIsOwed'
  BY <1>2 DEF DownIsOwed
<1>4. down' \subseteq Pressable
  BY <1>1, HoldsTyped
<1>5. TypeOK'
  BY <1>1, <1>4 DEF TypeOK, frame, Pressable
<1>6. QED
  BY <1>1, <1>3, <1>5 DEF KInv

\* A key is pressed, released or tapped.
LEMMA KeyKeeps ==
    ASSUME KInv, NEW s \in Keysyms, NEW state \in {"press", "release", "tap"}, Key(s, state)
    PROVE  KInv'
<1>1. TypeOK /\ DownIsOwed /\ owed \subseteq Keysyms \cup {"left"}
  BY DEF KInv, TypeOK
<1>2. /\ UNCHANGED frame /\ ResolverInUse' = ResolverInUse
      /\ resolver' \in {<<>>} \cup {<<Parse(k)>> : k \in Keymaps}
      /\ transport = "eis" => resolver' # <<>>
  BY <1>1, ResolvingKeeps DEF Key
<1>3. CASE ~Supported(s)
  <2>1. UNCHANGED <<link, down, owed>>
    BY <1>3 DEF Key
  <2>2. QED
    BY <1>1, <1>2, <2>1, Kept DEF TypeOK, DownIsOwed
<1>4. CASE Supported(s)
  <2> DEFINE es == CASE state = "press"   -> KeyEvents(s, TRUE)
                     [] state = "release" -> KeyEvents(s, FALSE)
                     [] OTHER             -> Tap(s)
  <2>1. PICK ok \in BOOLEAN :
          /\ Send(es, ok)
          /\ owed' = CASE state = "press"       -> owed \cup {s}
                       [] state # "press" /\ ok -> owed \ {s}
                       [] state = "tap" /\ ~ok  -> owed \cup {s}
                       [] OTHER                 -> owed
    BY <1>4 DEF Key
  <2>2. \A e \in Events : e.press \in BOOLEAN
    BY DEF Events
  <2>3. Holds(s) = UNION {Holds(x) : x \in {s}}
    OBVIOUS
  <2>4. /\ KeyEvents(s, TRUE) \in Seq(Events) /\ KeysOf(KeyEvents(s, TRUE)) = Holds(s)
        /\ KeyEvents(s, FALSE) \in Seq(Events) /\ KeysOf(KeyEvents(s, FALSE)) = Holds(s)
        /\ \A i \in 1..Len(KeyEvents(s, FALSE)) : ~KeyEvents(s, FALSE)[i].press
        /\ Tap(s) \in Seq(Events) /\ KeysOf(Tap(s)) = Holds(s) /\ Followed(Tap(s))
    BY <1>1, <1>4, PressRelease, TapEvents
  <2>5. CASE state = "press"
    <3>1. Send(KeyEvents(s, TRUE), ok) /\ owed' = owed \cup {s}
      BY <2>1, <2>5
    <3>2. /\ link' \in {"resumed", "emulating", "closed"}
          /\ down' \subseteq UNION {Holds(x) : x \in owed'}
      BY <1>1, <2>2, <2>3, <2>4, <3>1, Injected
    <3>3. QED
      BY <1>1, <1>2, <3>1, <3>2, Kept
  <2>6. CASE state = "release"
    <3>1. Send(KeyEvents(s, FALSE), ok) /\ owed' = IF ok THEN owed \ {s} ELSE owed
      BY <2>1, <2>6
    <3>2. Followed(KeyEvents(s, FALSE))
      BY <2>4 DEF Followed
    <3>3. /\ link' \in {"resumed", "emulating", "closed"}
          /\ down' \subseteq UNION {Holds(x) : x \in owed'}
      <4>1. CASE ok
        <5>1. owed' = owed \ {s}
          BY <3>1, <4>1
        <5>2. QED
          BY <1>1, <2>2, <2>3, <2>4, <3>1, <3>2, <4>1, <5>1, Injected
      <4>2. CASE ~ok
        <5>1. owed' = owed
          BY <3>1, <4>2
        <5>2. QED
          BY <1>1, <2>2, <2>4, <3>1, <5>1, Injected
      <4>3. QED
        BY <4>1, <4>2
    <3>4. QED
      BY <1>1, <1>2, <3>1, <3>3, Kept
  <2>7. CASE state = "tap"
    <3>1. Send(Tap(s), ok) /\ owed' = IF ok THEN owed \ {s} ELSE owed \cup {s}
      BY <2>1, <2>7
    <3>2. /\ link' \in {"resumed", "emulating", "closed"}
          /\ down' \subseteq UNION {Holds(x) : x \in owed'}
      <4>1. CASE ok
        <5>1. owed' = owed \ {s}
          BY <3>1, <4>1
        <5>2. QED
          BY <1>1, <2>2, <2>3, <2>4, <3>1, <4>1, <5>1, Injected
      <4>2. CASE ~ok
        <5>1. owed' = owed \cup {s}
          BY <3>1, <4>2
        <5>2. QED
          BY <1>1, <2>2, <2>3, <2>4, <3>1, <5>1, Injected
      <4>3. QED
        BY <4>1, <4>2
    <3>3. QED
      BY <1>1, <1>2, <3>1, <3>2, Kept
  <2>8. QED
    BY <2>5, <2>6, <2>7
<1>5. QED
  BY <1>3, <1>4

\* A text is typed, in whole or in part.
LEMMA TypeTextKeeps ==
    ASSUME KInv, NEW text \in Texts, TypeText(text)
    PROVE  KInv'
<1> DEFINE done == Prefix(text)
           es == TextEvents(done)
           some == {done[i] : i \in DOMAIN done}
<1>1. TypeOK /\ DownIsOwed /\ owed \subseteq Keysyms \cup {"left"}
  BY DEF KInv, TypeOK
<1>2. PICK ok \in BOOLEAN :
        /\ Send(es, ok)
        /\ owed' = IF ok THEN owed \ some ELSE owed \cup some
        /\ IF text = <<>> \/ text[1] \in Exotic THEN UNCHANGED resolver ELSE Resolving
        /\ UNCHANGED frame
  BY DEF TypeText
<1>3. /\ done \in Seq(Characters)
      /\ \A i \in 1..Len(done) : Supported(done[i])
      /\ text = <<>> \/ text[1] \in Exotic => done = <<>>
  BY PrefixTyped
<1> HIDE DEF done
<1>4. Len(done) \in Nat /\ DOMAIN done = 1..Len(done) /\ done \in Seq(Keysyms)
  BY <1>3 DEF Keysyms
<1>5. some \subseteq Keysyms
  BY <1>3, <1>4 DEF Keysyms
<1>6. /\ es \in Seq(Events) /\ Followed(es)
      /\ KeysOf(es) = UNION {Holds(done[i]) : i \in 1..Len(done)}
  BY <1>1, <1>3, <1>4, TextEventsOf
<1>7. KeysOf(es) = UNION {Holds(x) : x \in some}
  <2>1. UNION {Holds(done[i]) : i \in 1..Len(done)} = UNION {Holds(x) : x \in some}
    BY <1>4
  <2>2. QED
    BY <1>6, <2>1
<1>8. \A e \in Events : e.press \in BOOLEAN
  BY DEF Events
<1> HIDE DEF es, some
<1>9. /\ link' \in {"resumed", "emulating", "closed"}
      /\ down' \subseteq UNION {Holds(x) : x \in owed'}
      /\ down' \subseteq down \cup {es[i].key : i \in {i \in 1..Len(es) : es[i].press}}
  <2>1. CASE ok
    <3>1. owed' = owed \ some
      BY <1>2, <2>1
    <3>2. QED
      BY <1>1, <1>2, <1>6, <1>7, <1>8, <2>1, <3>1, Injected
  <2>2. CASE ~ok
    <3>1. owed' = owed \cup some
      BY <1>2, <2>2
    <3>2. es \in Seq(Events) /\ Send(es, ok)
      BY <1>2, <1>6
    <3>3. QED
      BY <1>1, <1>7, <1>8, <3>1, <3>2, Injected
  <2>3. QED
    BY <2>1, <2>2
<1>10. owed' \subseteq Keysyms \cup {"left"}
  BY <1>1, <1>2, <1>5
<1>11. CASE text = <<>> \/ text[1] \in Exotic
  <2>1. resolver' = resolver /\ ResolverInUse' = ResolverInUse
    BY <1>2, <1>11 DEF ResolverInUse, frame
  <2>2. Len(es) = 0
    <3>1. [i \in DOMAIN <<>> |-> Tap(<<>>[i])] = <<>>
      OBVIOUS
    <3>2. TextEvents(<<>>) = <<>>
      BY <3>1, FlattenEmpty DEF TextEvents
    <3>3. QED
      BY <1>3, <1>11, <3>2, EmptySeq DEF es
  <2>3. down' \subseteq down
    BY <1>9, <2>2
  <2>4. transport = "eis" /\ resolver' = <<>> => down' \subseteq {Left}
    BY <2>1, <2>3 DEF KInv
  <2>5. QED
    BY <1>1, <1>2, <1>9, <1>10, <2>1, <2>4, Kept DEF TypeOK
<1>12. CASE ~(text = <<>> \/ text[1] \in Exotic)
  <2>1. Resolving
    BY <1>2, <1>12
  <2>2. QED
    BY <1>1, <1>2, <1>9, <1>10, <2>1, ResolvingKeeps, Kept
<1>13. QED
  BY <1>11, <1>12

\* A button is pressed or released.
LEMMA ButtonKeeps ==
    ASSUME KInv, NEW press \in BOOLEAN, Button(press)
    PROVE  KInv'
<1>1. TypeOK /\ DownIsOwed /\ owed \subseteq Keysyms \cup {"left"}
  BY DEF KInv, TypeOK
<1>2. PICK e : e = Event(Left, press)
  OBVIOUS
<1>3. e.key = Left /\ e.press = press
  BY <1>2 DEF Event
<1>4. PICK ok \in BOOLEAN :
        /\ Send(<<e>>, ok)
        /\ owed' = IF press THEN owed \cup {"left"}
                    ELSE IF ok THEN owed \ {"left"} ELSE owed
  BY <1>2 DEF Button
<1>5. UNCHANGED frame /\ resolver' = resolver /\ ResolverInUse' = ResolverInUse
  BY DEF Button, ResolverInUse, frame
<1>6. <<e>> \in Seq({e}) /\ Len(<<e>>) = 1 /\ <<e>>[1] = e
  OBVIOUS
<1>7. KeysOf(<<e>>) = UNION {Holds(x) : x \in {"left"}}
  BY <1>1, <1>3, KeysOfOne, HoldsTyped
<1>8. \A f \in {e} : f.press \in BOOLEAN
  BY <1>3
<1>9. /\ link' \in {"resumed", "emulating", "closed"}
      /\ down' \subseteq UNION {Holds(x) : x \in owed'}
      /\ down' \subseteq down \cup {<<e>>[i].key : i \in {i \in 1..Len(<<e>>) : <<e>>[i].press}}
  <2>1. CASE press
    <3>1. owed' = owed \cup {"left"}
      BY <1>4, <2>1
    <3>2. QED
      BY <1>1, <1>4, <1>6, <1>7, <1>8, <3>1, Injected
  <2>2. CASE ~press
    <3>1. \A i \in 1..Len(<<e>>) : ~<<e>>[i].press
      BY <1>3, <1>6, <2>2
    <3>2. Followed(<<e>>)
      BY <3>1 DEF Followed
    <3>3. CASE ok
      <4>1. owed' = owed \ {"left"}
        BY <1>4, <2>2, <3>3
      <4>2. QED
        BY <1>1, <1>4, <1>6, <1>7, <1>8, <3>2, <3>3, <4>1, Injected
    <3>4. CASE ~ok
      <4>1. owed' = owed
        BY <1>4, <2>2, <3>4
      <4>2. QED
        BY <1>1, <1>4, <1>6, <1>8, <3>1, <4>1, Injected
    <3>5. QED
      BY <3>3, <3>4
  <2>3. QED
    BY <2>1, <2>2
<1>10. owed' \subseteq Keysyms \cup {"left"}
  BY <1>1, <1>4
<1>11. down' \subseteq down \cup {Left}
  BY <1>3, <1>6, <1>9
<1>12. QED
  BY <1>1, <1>5, <1>9, <1>10, <1>11, Kept DEF KInv, TypeOK

\* The pointer is moved, or the wheel turned.
LEMMA MotionKeeps ==
    ASSUME KInv, Motion
    PROVE  KInv'
<1>1. TypeOK /\ DownIsOwed /\ owed \subseteq Keysyms \cup {"left"}
  BY DEF KInv, TypeOK
<1>2. PICK e : e = Event(Nothing, FALSE)
  OBVIOUS
<1>3. e.press = FALSE
  BY <1>2 DEF Event
<1>4. PICK es \in {<<>>, <<e>>}, ok \in BOOLEAN : Send(es, ok)
  BY <1>2 DEF Motion
<1>5. UNCHANGED frame /\ resolver' = resolver /\ owed' = owed
      /\ ResolverInUse' = ResolverInUse
  BY DEF Motion, ResolverInUse, frame
<1>6. es \in Seq({e}) /\ \A i \in 1..Len(es) : ~es[i].press
  <2>1. CASE es = <<>>
    BY <2>1
  <2>2. CASE es = <<e>>
    <3>1. <<e>> \in Seq({e}) /\ Len(<<e>>) = 1 /\ <<e>>[1] = e
      OBVIOUS
    <3>2. QED
      BY <1>3, <2>2, <3>1
  <2>3. QED
    BY <1>4, <2>1, <2>2
<1>7. \A f \in {e} : f.press \in BOOLEAN
  BY <1>3
<1>8. /\ link' \in {"resumed", "emulating", "closed"}
      /\ down' \subseteq UNION {Holds(x) : x \in owed'}
      /\ down' \subseteq down \cup {es[i].key : i \in {i \in 1..Len(es) : es[i].press}}
  BY <1>1, <1>4, <1>5, <1>6, <1>7, Injected
<1>9. down' \subseteq down
  BY <1>6, <1>8
<1>10. QED
  BY <1>1, <1>5, <1>8, <1>9, Kept DEF KInv, TypeOK

\* A keymap arrives.  If nothing has been resolved yet, keysyms now mean other
\* keys; but then none is down.
LEMMA OnKeymapKeeps ==
    ASSUME KInv, OnKeymap
    PROVE  KInv'
<1>1. TypeOK
  BY DEF KInv
<1>2. UNCHANGED <<transport, layout, resolver, link, down, owed>>
  BY DEF OnKeymap
<1>3. PICK k \in Keymaps : offered = <<k>>
  BY <1>1 DEF OnKeymap, TypeOK
<1>4. Head(offered) \in Keymaps /\ offered' = <<>>
  BY <1>3 DEF OnKeymap
<1>5. TypeOK'
  BY <1>1, <1>2, <1>4 DEF TypeOK, OnKeymap, Pressable
<1>6. DownIsOwed'
  <2>1. CASE transport = "eis" /\ resolver = <<>>
    <3>1. down \subseteq {Left}
      BY <2>1 DEF KInv
    <3>2. Left \in down => "left" \in owed
      BY <1>1, HoldsTyped DEF KInv, DownIsOwed, TypeOK
    <3>3. Holds("left")' = {Left}
      BY <1>5, HoldsTyped DEF Holds
    <3>4. QED
      BY <1>2, <3>1, <3>2, <3>3 DEF DownIsOwed
  <2>2. CASE transport = "eis" /\ resolver # <<>>
    <3>1. ResolverInUse' = ResolverInUse
      BY <1>2, <2>2 DEF ResolverInUse
    <3>2. \A x : Holds(x)' = Holds(x)
      BY <1>2, <3>1, HoldsSame
    <3>3. QED
      BY <1>2, <3>2 DEF KInv, DownIsOwed
  <2>3. CASE transport = "notify"
    <3>1. \A x : Supported(x)' /\ Supported(x)
      BY <1>2, <2>3 DEF Supported
    <3>2. \A x : KeyEvents(x, TRUE)' = KeyEvents(x, TRUE)
      BY <1>2, <2>3 DEF KeyEvents
    <3>3. \A x : Holds(x)' = Holds(x)
      <4> TAKE x
      <4>1. Supported(x)' /\ Supported(x) /\ KeyEvents(x, TRUE)' = KeyEvents(x, TRUE)
        BY <3>1, <3>2
      <4>2. QED
        BY <4>1 DEF Holds
    <3>4. QED
      BY <1>2, <3>3 DEF KInv, DownIsOwed
  <2>4. QED
    BY <1>1, <2>1, <2>2, <2>3 DEF TypeOK
<1>7. QED
  BY <1>2, <1>5, <1>6 DEF KInv

\* The other steps press nothing.
LEMMA OthersKeep ==
    ASSUME KInv,
           (\E k \in Keymaps : ChangeLayout(k)) \/ Disconnect \/ Restart \/ UNCHANGED vars
    PROVE  KInv'
<1>1. TypeOK
  BY DEF KInv
<1>2. CASE Disconnect \/ Restart
  <2>1. down' = {}
    BY <1>2 DEF Disconnect, Drop, Restart, Fresh
  <2>2. TypeOK'
    <3>1. CASE Disconnect
      BY <1>1, <3>1 DEF Disconnect, Drop, TypeOK, frame, Pressable
    <3>2. CASE Restart
      BY <1>1, <3>2 DEF Restart, Fresh, TypeOK, Pressable
    <3>3. QED
      BY <1>2, <3>1, <3>2
  <2>3. QED
    BY <2>1, <2>2 DEF KInv, DownIsOwed
<1>3. CASE (\E k \in Keymaps : ChangeLayout(k)) \/ UNCHANGED vars
  <2>1. UNCHANGED <<transport, keymapText, resolver, link, down, owed>>
    BY <1>3 DEF ChangeLayout, vars
  <2>2. TypeOK'
    BY <1>1, <1>3 DEF ChangeLayout, vars, TypeOK, Pressable
  <2>3. ResolverInUse' = ResolverInUse
    BY <2>1 DEF ResolverInUse
  <2>4. \A x : Holds(x)' = Holds(x)
    BY <2>1, <2>3, HoldsSame
  <2>5. QED
    BY <2>1, <2>2, <2>4 DEF KInv, DownIsOwed
<1>4. QED
  BY <1>2, <1>3

\* The invariant of what is down holds in every behaviour, for all keymaps,
\* texts and failures.
THEOREM KeyInvariant == Spec => []KInv
<1>1. Init => KInv
  BY DEF Init, KInv, TypeOK, DownIsOwed, Pressable
<1>2. KInv /\ [Next]_vars => KInv'
  <2> SUFFICES ASSUME KInv, [Next]_vars PROVE KInv'
    OBVIOUS
  <2>1. CASE \E s \in Keysyms, state \in {"press", "release", "tap"} : Key(s, state)
    BY <2>1, KeyKeeps
  <2>2. CASE \E text \in Texts : TypeText(text)
    BY <2>2, TypeTextKeeps
  <2>3. CASE \E press \in BOOLEAN : Button(press)
    BY <2>3, ButtonKeeps
  <2>4. CASE Motion
    BY <2>4, MotionKeeps
  <2>5. CASE OnKeymap
    BY <2>5, OnKeymapKeeps
  <2>6. CASE (\E k \in Keymaps : ChangeLayout(k)) \/ Disconnect \/ Restart \/ UNCHANGED vars
    BY <2>6, OthersKeep
  <2>7. QED
    BY <2>1, <2>2, <2>3, <2>4, <2>5, <2>6 DEF Next
<1>3. QED
  BY <1>1, <1>2, PTL DEF Spec

\* Types.
THEOREM KeyTypeCorrect == Spec => []TypeOK
BY KeyInvariant, PTL DEF KInv

\* Whatever is pressed at the compositor is held by a keysym or button whose
\* press was asked for and whose release has not been answered since.
THEOREM KeyDownIsOwed == Spec => []DownIsOwed
BY KeyInvariant, PTL DEF KInv

-----------------------------------------------------------------------------
(* The keys of a text answered without an error spell it.                  *)

\* What a press shows in the keymap's own numbers, without CapsLock, and the
\* text that events spell, if nothing was pressed before.
Shows(x, d) == Received(layout, FALSE, x, d)
Spells(es) == TextOf(layout, FALSE, es, {})

\* Two events are one after the other.
LEMMA TwoIsConcat ==
    ASSUME NEW E, NEW x \in E, NEW y \in E
    PROVE  <<x, y>> = <<x>> \o <<y>>
<1> DEFINE l == <<x, y>>
           r == <<x>> \o <<y>>
<1>1. l \in Seq(E) /\ Len(l) = 2 /\ l[1] = x /\ l[2] = y
  OBVIOUS
<1>2. <<x>> \in Seq(E) /\ <<y>> \in Seq(E) /\ Len(<<x>>) = 1 /\ Len(<<y>>) = 1
      /\ <<x>>[1] = x /\ <<y>>[1] = y
  OBVIOUS
<1>3. r \in Seq(E) /\ Len(r) = 2
  BY <1>2, ConcatProperties
<1>4. r[1] = x /\ r[2] = y
  <2>1. \A i \in 1..(1 + 1) : r[i] = IF i <= 1 THEN <<x>>[i] ELSE <<y>>[i - 1]
    BY <1>2, ConcatProperties
  <2> HIDE DEF r
  <2>2. QED
    BY <1>2, <2>1
<1>5. \A i \in 1..2 : i = 1 \/ i = 2
  OBVIOUS
<1> HIDE DEF l, r
<1>6. l = r
  BY <1>1, <1>3, <1>4, <1>5, SeqEqual
<1>7. QED
  BY <1>6 DEF l, r

\* One more event comes last.
LEMMA OneMore ==
    ASSUME NEW E, NEW es \in Seq(E), NEW e \in E
    PROVE  /\ es \o <<e>> \in Seq(E)
           /\ Len(es \o <<e>>) = Len(es) + 1
           /\ (es \o <<e>>)[Len(es) + 1] = e
           /\ \A i \in 1..Len(es) : (es \o <<e>>)[i] = es[i]
<1>1. es \o <<e>> = Append(es, e)
  BY AppendIsConcat
<1>2. QED
  BY <1>1, AppendProperties

\* What is pressed after some events does not depend on later ones.
LEMMA AfterPrefix ==
    ASSUME NEW es, NEW fs, NEW n \in Nat, NEW d,
           \A i \in 1..n : es[i] = fs[i] /\ es[i].press \in BOOLEAN
    PROVE  After(es, n, d) = After(fs, n, d)
<1>1. \A x : x \in After(es, n, d) <=>
             \/ x \in d /\ \A i \in 1..n : es[i].key # x
             \/ \E i \in 1..n : /\ es[i].key = x /\ es[i].press
                                /\ \A j \in 1..n : j > i => es[j].key # x
  BY AfterIn
<1>2. \A i \in 1..n : fs[i].press \in BOOLEAN
  OBVIOUS
<1>3. \A x : x \in After(fs, n, d) <=>
             \/ x \in d /\ \A i \in 1..n : fs[i].key # x
             \/ \E i \in 1..n : /\ fs[i].key = x /\ fs[i].press
                                /\ \A j \in 1..n : j > i => fs[j].key # x
  BY <1>2, AfterIn
<1>4. \A x : x \in After(es, n, d) <=> x \in After(fs, n, d)
  BY <1>1, <1>3
<1>5. QED
  BY <1>4

\* What an event adds to the text, with d pressed.
Types(e, d) ==
    IF e.press /\ Shows(e.key, d) # "Shift_L" THEN <<Shows(e.key, d)>> ELSE <<>>

\* Event by event: what is pressed, and the text that has been received.
LEMMA TextStep ==
    ASSUME NEW E, \A e \in E : e.press \in BOOLEAN, NEW es \in Seq(E), NEW e \in E
    PROVE  /\ After(es \o <<e>>, Len(es) + 1, {}) =
                IF e.press THEN After(es, Len(es), {}) \cup {e.key}
                ELSE After(es, Len(es), {}) \ {e.key}
           /\ Spells(es \o <<e>>) =
                Spells(es) \o Types(e, After(es, Len(es), {}))
<1> DEFINE n == Len(es)
           fs == es \o <<e>>
<1>1. n \in Nat /\ \A i \in 1..n : es[i].press \in BOOLEAN
  BY ElementOfSeq
<1>2. fs \in Seq(E) /\ Len(fs) = n + 1 /\ fs[n + 1] = e /\ \A i \in 1..n : fs[i] = es[i]
  BY OneMore
<1> HIDE DEF fs
<1>3. \A i \in 1..(n + 1) : fs[i].press \in BOOLEAN
  <2>1. \A i \in 1..(n + 1) : fs[i] \in E
    BY <1>2, ElementOfSeq
  <2>2. QED
    BY <2>1
<1>4. \A m \in 0..n : After(fs, m, {}) = After(es, m, {})
  <2> TAKE m \in 0..n
  <2>1. m \in Nat /\ \A i \in 1..m : i \in 1..n
    BY <1>1
  <2>2. \A i \in 1..m : es[i] = fs[i] /\ es[i].press \in BOOLEAN
    BY <1>1, <1>2, <2>1
  <2>3. QED
    BY <2>1, <2>2, AfterPrefix
<1>5. After(fs, n, {}) = After(es, n, {})
  BY <1>1, <1>4
<1>6. After(fs, n + 1, {}) =
        IF fs[n + 1].press THEN After(fs, n, {}) \cup {fs[n + 1].key}
        ELSE After(fs, n, {}) \ {fs[n + 1].key}
  BY <1>1, <1>3, AfterStep
<1> DEFINE add == [i \in 1..(n + 1) |-> Adds(layout, FALSE, fs, i, {})]
<1>7. Spells(fs) = FlattenSeq([i \in 1..(n + 1) |-> add[i]])
  <2>1. DOMAIN fs = 1..(n + 1)
    BY <1>2
  <2>2. [i \in 1..(n + 1) |-> add[i]] = [i \in DOMAIN fs |-> Adds(layout, FALSE, fs, i, {})]
    BY <2>1
  <2>3. QED
    BY <2>2 DEF Spells, TextOf
<1>8. Spells(es) = FlattenSeq([i \in 1..n |-> add[i]])
  <2>1. DOMAIN es = 1..n
    OBVIOUS
  <2>2. ASSUME NEW i \in 1..n PROVE add[i] = Adds(layout, FALSE, es, i, {})
    <3>1. i \in 1..(n + 1) /\ i - 1 \in 0..n
      BY <1>1
    <3>2. After(fs, i - 1, {}) = After(es, i - 1, {})
      BY <1>4, <3>1
    <3>3. fs[i] = es[i]
      BY <1>2
    <3>4. Adds(layout, FALSE, fs, i, {}) = Adds(layout, FALSE, es, i, {})
      BY <3>2, <3>3 DEF Adds, Shows
    <3>5. QED
      BY <3>1, <3>4
  <2>3. [i \in 1..n |-> add[i]] = [i \in DOMAIN es |-> Adds(layout, FALSE, es, i, {})]
    <3> HIDE DEF add
    <3>1. QED
      BY <2>1, <2>2
  <2>4. QED
    BY <2>3 DEF Spells, TextOf
<1>9. add[n + 1] = Types(e, After(es, n, {}))
  <2>1. n + 1 \in 1..(n + 1) /\ (n + 1) - 1 = n
    BY <1>1
  <2>2. add[n + 1] = Adds(layout, FALSE, fs, n + 1, {})
    BY <2>1
  <2>3. Adds(layout, FALSE, fs, n + 1, {}) = Types(e, After(es, n, {}))
    BY <1>2, <1>5, <2>1 DEF Adds, Types, Shows
  <2>4. QED
    BY <2>2, <2>3
<1>10. FlattenSeq([i \in 1..(n + 1) |-> add[i]])
         = FlattenSeq([i \in 1..n |-> add[i]]) \o add[n + 1]
  <2> DEFINE S == {Shows(fs[i].key, After(fs, i - 1, {})) : i \in 1..(n + 1)}
  <2>1. \A i \in 1..(n + 1) : add[i] \in Seq(S)
    <3> TAKE i \in 1..(n + 1)
    <3>1. PICK x : x = Shows(fs[i].key, After(fs, i - 1, {})) /\ x \in S
      OBVIOUS
    <3>2. add[i] = <<x>> \/ add[i] = <<>>
      BY <3>1 DEF Adds, Shows
    <3> HIDE DEF add, S
    <3>3. <<x>> \in Seq(S) /\ <<>> \in Seq(S)
      BY <3>1
    <3>4. QED
      BY <3>2, <3>3
  <2> HIDE DEF add, S
  <2>2. QED
    BY <1>1, <2>1, TextEventsStep
<1>11. QED
  BY <1>2, <1>5, <1>6, <1>7, <1>8, <1>9, <1>10 DEF fs

\* The keymap has the character at the level that is resolved.
LEMMA FindLevel ==
    ASSUME NEW k \in Keymaps, NEW s, Having(k, s) # {}
    PROVE  LET f == Find(k, s)
           IN  /\ f.code \in DOMAIN k /\ f.level + 1 \in 1..Len(k[f.code])
               /\ k[f.code][f.level + 1] = s
<1> DEFINE c == Find(k, s).code
           at == {i \in DOMAIN k[c] : k[c][i] = s}
<1>1. DOMAIN k \subseteq Codes /\ \A x \in DOMAIN k : k[x] \in Seq(Keysyms \cup {"NoSymbol"})
  BY KeyAssumption DEF Levels
<1>2. c \in Having(k, s)
  BY <1>1, FindIn
<1>3. Find(k, s).level = Min(at) - 1
  BY DEF Find
<1> HIDE DEF c
<1>4. c \in DOMAIN k /\ \E i \in 1..Len(k[c]) : k[c][i] = s
  BY <1>2 DEF Having, Contains
<1>5. DOMAIN k[c] = 1..Len(k[c]) /\ Len(k[c]) \in Nat
  BY <1>1, <1>4, LenProperties
<1>6. at \subseteq Nat /\ at # {}
  BY <1>4, <1>5
<1>7. Min(at) \in at
  BY <1>6, MinIn
<1>8. PICK m : m = Min(at)
  OBVIOUS
<1>9. m \in 1..Len(k[c]) /\ k[c][m] = s /\ Find(k, s).level = m - 1
  BY <1>3, <1>5, <1>7, <1>8
<1> HIDE DEF at
<1>10. /\ c \in DOMAIN k /\ Find(k, s).level + 1 \in 1..Len(k[c])
       /\ k[c][Find(k, s).level + 1] = s
  <2>1. m \in Nat /\ m - 1 + 1 = m
    BY <1>5, <1>9
  <2>2. QED
    BY <1>4, <1>9, <2>1
<1>11. QED
  BY <1>10 DEF c

\* The sequences of events of a character, and what each press has an
\* application receive: the character, and nothing but Shift_L before it.
LEMMA CharShape ==
    ASSUME TypeOK, NEW ch \in Characters, Supported(ch),
           transport = "eis" => /\ Plain(layout) /\ ResolverInUse = layout
                                /\ Having(layout, ch) # {}
    PROVE  \E p \in Events, q \in Events :
             /\ p.press /\ q.press
             /\ \/ KeyEvents(ch, TRUE) = <<p>> /\ Shows(p.key, {}) = ch
                \/ /\ KeyEvents(ch, TRUE) = <<q, p>>
                   /\ Shows(q.key, {}) = "Shift_L" /\ Shows(p.key, {q.key}) = ch
<1>1. CASE transport = "notify"
  <2>1. PICK p : p = Event(Sym(ch), TRUE)
    OBVIOUS
  <2>2. p \in Events /\ p.press /\ p.key = Sym(ch)
    BY <2>1 DEF Event, Events, Keys, Keysyms
  <2>3. KeyEvents(ch, TRUE) = <<p>>
    BY <1>1, <2>1 DEF KeyEvents
  <2>4. Shows(Sym(ch), {}) = ch
    BY <1>1 DEF Shows, Received, Sym
  <2>5. QED
    BY <2>2, <2>3, <2>4
<1>2. CASE transport = "eis"
  <2>1. layout \in Keymaps /\ Having(layout, ch) # {} /\ Having(layout, "Shift_L") # {}
        /\ Find(layout, "Shift_L").level = 0 /\ ResolverInUse = layout
        /\ DOMAIN layout \subseteq Codes
    BY <1>2, KeyAssumption DEF TypeOK, Plain
  <2> DEFINE c == Find(layout, ch).code
             l == Find(layout, ch).level
             b == Find(layout, "Shift_L").code
  <2>2. c \in DOMAIN layout /\ l + 1 \in 1..Len(layout[c]) /\ layout[c][l + 1] = ch
    BY <2>1, FindLevel
  <2>3. b \in DOMAIN layout /\ 0 + 1 \in 1..Len(layout[b]) /\ layout[b][0 + 1] = "Shift_L"
    BY <2>1, FindLevel
  <2>4. Resolve(layout, ch) = Find(layout, ch)
        /\ Resolve(layout, "Shift_L") = Find(layout, "Shift_L")
    BY <2>1 DEF Resolve
  <2>5. PICK p : p = Event(Code(c), TRUE)
    OBVIOUS
  <2>6. PICK q : q = Event(Code(b), TRUE)
    OBVIOUS
  <2>7. p \in Events /\ p.press /\ p.key = Code(c)
    BY <2>1, <2>2, <2>5 DEF Event, Events, Keys
  <2>8. q \in Events /\ q.press /\ q.key = Code(b)
    BY <2>1, <2>3, <2>6 DEF Event, Events, Keys
  <2>9. l = 0 \/ l = 1
    BY <1>2, <2>1, <2>4 DEF Supported
  <2>10. KeyEvents(ch, TRUE) = IF l = 0 THEN <<p>> ELSE <<q, p>>
    BY <1>2, <2>1, <2>4, <2>5, <2>6 DEF KeyEvents
  <2>11. Code(c)[2] = c /\ Code(b)[2] = b
    BY DEF Code
  <2> HIDE DEF c, l, b
  <2>12. ~Shifted(layout, {})
    BY DEF Shifted
  <2>13. ASSUME NEW x \in DOMAIN layout
         PROVE  Shows(Code(x), {}) = layout[x][1]
    BY <1>2, <2>12, <2>13 DEF Shows, Received, Code
  <2>14. Shows(Code(b), {}) = "Shift_L"
    BY <2>3, <2>13
  <2>15. CASE l = 0
    <3>1. Shows(Code(c), {}) = ch
      BY <2>2, <2>13, <2>15
    <3>2. KeyEvents(ch, TRUE) = <<p>>
      BY <2>10, <2>15
    <3>3. Shows(p.key, {}) = ch
      BY <2>7, <3>1
    <3>4. QED
      BY <2>7, <2>8, <3>2, <3>3, Zenon
  <2>16. CASE l = 1
    <3>1. Shifted(layout, {Code(b)})
      <4>1. Head(layout[b]) = layout[b][1]
        BY <2>1, <2>3, KeyAssumption DEF Levels
      <4>2. QED
        BY <2>3, <4>1 DEF Shifted
    <3>2. Len(layout[c]) > 1 /\ layout[c][2] = ch
      BY <2>1, <2>2, <2>16, KeyAssumption DEF Levels
    <3>3. Shows(Code(c), {Code(b)}) = ch
      BY <1>2, <2>2, <2>11, <3>1, <3>2 DEF Shows, Received
    <3>4. KeyEvents(ch, TRUE) = <<q, p>>
      <4>1. l # 0
        BY <2>16
      <4>2. QED
        BY <2>10, <4>1, Zenon
    <3>5. Shows(q.key, {}) = "Shift_L" /\ Shows(p.key, {q.key}) = ch
      BY <2>7, <2>8, <2>14, <3>3, Zenon
    <3>6. QED
      BY <2>7, <2>8, <3>4, <3>5, Zenon
  <2>17. QED
    BY <2>9, <2>15, <2>16
<1>3. QED
  BY <1>1, <1>2 DEF TypeOK

\* Events that press nothing add nothing to the text.
LEMMA Silent ==
    ASSUME NEW es \in Seq(Events), NEW e \in Events, ~e.press,
           NEW W, Spells(es) \in Seq(W)
    PROVE  Spells(es \o <<e>>) = Spells(es)
<1>1. \A x \in Events : x.press \in BOOLEAN
  BY DEF Events
<1>2. Spells(es \o <<e>>) = Spells(es) \o Types(e, After(es, Len(es), {}))
  BY <1>1, TextStep
<1>3. Types(e, After(es, Len(es), {})) = <<>>
  BY DEF Types
<1>4. Spells(es) \o <<>> = Spells(es)
  BY ConcatEmptySeq
<1>5. QED
  BY <1>2, <1>3, <1>4

\* With nothing pressed, the events of a character type that character.
LEMMA CharTyped ==
    ASSUME TypeOK, NEW ch \in Characters, Supported(ch),
           transport = "eis" => /\ Plain(layout) /\ ResolverInUse = layout
                                /\ Having(layout, ch) # {},
           NEW es \in Seq(Events), After(es, Len(es), {}) = {},
           Spells(es) \in Seq(Characters)
    PROVE  Spells(es \o Tap(ch)) = Spells(es) \o <<ch>>
<1> DEFINE u == KeyEvents(ch, TRUE)
           v == KeyEvents(ch, FALSE)
<1>1. \A x \in Events : x.press \in BOOLEAN
  BY DEF Events
<1>2. ch \in Keysyms /\ ch # "Shift_L"
  BY KeyAssumption DEF Keysyms
<1>3. u \in Seq(Events) /\ v \in Seq(Events) /\ Tap(ch) = u \o v
  BY <1>2, PressRelease DEF Tap
<1>4. PICK p \in Events, q \in Events :
             /\ p.press /\ q.press
             /\ \/ u = <<p>> /\ Shows(p.key, {}) = ch
                \/ /\ u = <<q, p>>
                   /\ Shows(q.key, {}) = "Shift_L" /\ Shows(p.key, {q.key}) = ch
  BY CharShape
<1>5. PICK r \in Events, t \in Events :
             ~r.press /\ ~t.press /\ (v = <<r>> \/ v = <<r, t>>)
  BY <1>2, ShapeEvents
<1> HIDE DEF u, v
<1>6. Spells(es \o u) = Spells(es) \o <<ch>>
  <2>1. CASE u = <<p>> /\ Shows(p.key, {}) = ch
    <3>1. Spells(es \o <<p>>) = Spells(es) \o Types(p, {})
      BY <1>1, TextStep
    <3>2. Types(p, {}) = <<ch>>
      BY <1>2, <1>4, <2>1 DEF Types
    <3>3. QED
      BY <2>1, <3>1, <3>2
  <2>2. CASE /\ u = <<q, p>>
             /\ Shows(q.key, {}) = "Shift_L" /\ Shows(p.key, {q.key}) = ch
    <3> DEFINE fs == es \o <<q>>
    <3>1. fs \in Seq(Events) /\ Len(fs) = Len(es) + 1
      BY OneMore
    <3>2. /\ After(fs, Len(es) + 1, {}) = {q.key}
          /\ Spells(fs) = Spells(es) \o Types(q, {})
      <4>1. /\ After(fs, Len(es) + 1, {}) =
                  IF q.press THEN After(es, Len(es), {}) \cup {q.key}
                  ELSE After(es, Len(es), {}) \ {q.key}
            /\ Spells(fs) = Spells(es) \o Types(q, After(es, Len(es), {}))
        BY <1>1, TextStep
      <4>2. QED
        BY <1>4, <4>1
    <3>3. Spells(fs) = Spells(es)
      <4>1. Types(q, {}) = <<>>
        BY <2>2 DEF Types
      <4>2. Spells(es) \o <<>> = Spells(es)
        BY ConcatEmptySeq
      <4>3. QED
        BY <3>2, <4>1, <4>2
    <3>4. es \o <<q, p>> = fs \o <<p>>
      <4>1. <<q, p>> = <<q>> \o <<p>>
        BY TwoIsConcat
      <4>2. <<q>> \in Seq(Events) /\ <<p>> \in Seq(Events)
        OBVIOUS
      <4>3. es \o (<<q>> \o <<p>>) = fs \o <<p>>
        BY <4>2, ConcatAssociative
      <4> HIDE DEF fs
      <4>4. QED
        BY <4>1, <4>3
    <3> HIDE DEF fs
    <3>5. Spells(fs \o <<p>>) = Spells(fs) \o Types(p, After(fs, Len(fs), {}))
      BY <1>1, <3>1, TextStep
    <3>6. Types(p, {q.key}) = <<ch>>
      BY <1>2, <1>4, <2>2 DEF Types
    <3>7. QED
      BY <2>2, <3>1, <3>2, <3>3, <3>4, <3>5, <3>6
  <2>3. QED
    BY <1>4, <2>1, <2>2
<1>7. es \o Tap(ch) = (es \o u) \o v /\ es \o u \in Seq(Events)
  <2>1. (es \o u) \o v = es \o (u \o v)
    BY <1>3, ConcatAssociative
  <2>2. es \o u \in Seq(Events)
    BY <1>3, ConcatProperties
  <2>3. QED
    BY <1>3, <2>1, <2>2
<1> DEFINE hs == es \o u
<1>8. Spells(hs) \in Seq(Characters)
  <2>1. <<ch>> \in Seq(Characters)
    OBVIOUS
  <2>2. Spells(es) \o <<ch>> \in Seq(Characters)
    BY <2>1, ConcatProperties
  <2>3. QED
    BY <1>6, <2>2
<1>9. hs \in Seq(Events)
  BY <1>7
<1> HIDE DEF hs
<1>10. Spells(hs \o <<r>>) = Spells(hs)
  BY <1>5, <1>8, <1>9, Silent
<1>11. Spells(hs \o v) = Spells(hs)
  <2>1. CASE v = <<r>>
    BY <1>10, <2>1
  <2>2. CASE v = <<r, t>>
    <3> DEFINE js == hs \o <<r>>
    <3>1. js \in Seq(Events)
      BY <1>9, OneMore
    <3>2. hs \o <<r, t>> = js \o <<t>>
      <4>1. <<r, t>> = <<r>> \o <<t>>
        BY TwoIsConcat
      <4>2. <<r>> \in Seq(Events) /\ <<t>> \in Seq(Events)
        OBVIOUS
      <4>3. hs \o (<<r>> \o <<t>>) = js \o <<t>>
        BY <1>9, <4>2, ConcatAssociative
      <4> HIDE DEF js
      <4>4. QED
        BY <4>1, <4>3
    <3>3. Spells(js) = Spells(hs)
      BY <1>10
    <3> HIDE DEF js
    <3>4. Spells(js) \in Seq(Characters)
      BY <1>8, <3>3
    <3>5. Spells(js \o <<t>>) = Spells(js)
      BY <1>5, <3>1, <3>4, Silent
    <3>6. QED
      BY <2>2, <3>2, <3>3, <3>5
  <2>3. QED
    BY <1>5, <2>1, <2>2
<1>12. QED
  BY <1>6, <1>7, <1>11 DEF hs

\* Character by character: a text typed undisturbed is what its keys spell.
LEMMA TextTyped ==
    ASSUME TypeOK, NEW t \in Seq(Characters), \A i \in 1..Len(t) : Supported(t[i]),
           transport = "eis" => /\ Plain(layout) /\ ResolverInUse = layout
                                /\ \A i \in 1..Len(t) : Having(layout, t[i]) # {}
    PROVE  Spells(TextEvents(t)) = t
<1> DEFINE es(n) == TextEvents(SubSeq(t, 1, n))
           tap == [i \in 1..Len(t) |-> Tap(t[i])]
           T == {n \in Nat : n <= Len(t) => Spells(es(n)) = SubSeq(t, 1, n)}
<1>1. Len(t) \in Nat
  OBVIOUS
<1>2. ASSUME NEW n \in 0..Len(t)
      PROVE  /\ SubSeq(t, 1, n) \in Seq(Characters) /\ Len(SubSeq(t, 1, n)) = n
             /\ \A i \in 1..n : SubSeq(t, 1, n)[i] = t[i]
             /\ es(n) = FlattenSeq([i \in 1..n |-> tap[i]])
  <2> DEFINE s == SubSeq(t, 1, n)
  <2>1. s \in Seq(Characters) /\ Len(s) = n /\ \A i \in 1..n : s[i] = t[i]
    BY <1>1, SubSeqProperties
  <2>2. DOMAIN s = 1..n
    BY <2>1
  <2> HIDE DEF s
  <2>3. [i \in DOMAIN s |-> Tap(s[i])] = [i \in 1..n |-> tap[i]]
    BY <1>1, <2>1, <2>2
  <2>4. TextEvents(s) = FlattenSeq([i \in 1..n |-> tap[i]])
    BY <2>3 DEF TextEvents
  <2>5. QED
    BY <2>1, <2>4 DEF s
<1>3. ASSUME NEW n \in 0..Len(t)
      PROVE  es(n) \in Seq(Events) /\ After(es(n), Len(es(n)), {}) = {}
  <2> DEFINE s == SubSeq(t, 1, n)
  <2>1. s \in Seq(Characters) /\ Len(s) = n /\ \A i \in 1..n : s[i] = t[i]
    BY <1>2
  <2> HIDE DEF s
  <2>2. s \in Seq(Keysyms)
    <3>1. \A i \in 1..Len(s) : s[i] \in Keysyms
      BY <2>1 DEF Keysyms
    <3>2. QED
      BY <2>1, <3>1, LenProperties, SeqDef
  <2>3. \A i \in 1..Len(s) : Supported(s[i])
    BY <1>1, <2>1
  <2>4. TextEvents(s) \in Seq(Events) /\ Followed(TextEvents(s))
    BY <2>2, <2>3, TextEventsOf
  <2>5. \A e \in Events : e.press \in BOOLEAN
    BY DEF Events
  <2>6. After(TextEvents(s), Len(TextEvents(s)), {}) = {} \ KeysOf(TextEvents(s))
    BY <2>4, <2>5, AllUp
  <2>7. QED
    BY <2>4, <2>6 DEF s
<1>4. \A i \in 1..Len(t) : tap[i] \in Seq(Events)
  <2> SUFFICES ASSUME NEW i \in 1..Len(t) PROVE tap[i] \in Seq(Events)
    OBVIOUS
  <2>1. t[i] \in Keysyms /\ Supported(t[i])
    BY DEF Keysyms
  <2>2. Tap(t[i]) \in Seq(Events)
    BY <2>1, TapEvents
  <2>3. QED
    BY <2>2
<1>5. 0 \in T
  <2>1. TextEvents(<<>>) = <<>>
    BY FlattenEmpty DEF TextEvents
  <2>2. SubSeq(t, 1, 0) = <<>>
    BY SubSeqEmpty
  <2>3. Spells(<<>>) = <<>>
    BY FlattenEmpty DEF Spells, TextOf
  <2>4. QED
    BY <2>1, <2>2, <2>3
<1>6. ASSUME NEW n \in Nat, n \in T PROVE n + 1 \in T
  <2> SUFFICES ASSUME n + 1 <= Len(t)
               PROVE  Spells(es(n + 1)) = SubSeq(t, 1, n + 1)
    OBVIOUS
  <2>1. PICK m \in Nat : m = n + 1
    OBVIOUS
  <2>2. n \in 0..Len(t) /\ m \in 0..Len(t) /\ m \in 1..Len(t) /\ n <= Len(t)
    BY <1>1, <2>1
  <2>3. Spells(es(n)) = SubSeq(t, 1, n) /\ SubSeq(t, 1, n) \in Seq(Characters)
    BY <1>2, <1>6, <2>2
  <2>4. es(m) = es(n) \o tap[m]
    <3>1. \A i \in 1..(n + 1) : tap[i] \in Seq(Events)
      BY <1>1, <1>4, <2>1, <2>2
    <3>2. es(n) = FlattenSeq([i \in 1..n |-> tap[i]])
          /\ es(m) = FlattenSeq([i \in 1..m |-> tap[i]])
      BY <1>2, <2>2
    <3> HIDE DEF tap, es
    <3>3. FlattenSeq([i \in 1..(n + 1) |-> tap[i]])
            = FlattenSeq([i \in 1..n |-> tap[i]]) \o tap[n + 1]
      BY <3>1, TextEventsStep
    <3>4. QED
      BY <2>1, <3>2, <3>3
  <2>5. es(n) \in Seq(Events) /\ After(es(n), Len(es(n)), {}) = {}
    BY <1>3, <2>2
  <2>6. t[m] \in Characters /\ Supported(t[m]) /\ tap[m] = Tap(t[m])
    BY <2>2
  <2>7. transport = "eis" => /\ Plain(layout) /\ ResolverInUse = layout
                             /\ Having(layout, t[m]) # {}
    BY <2>2
  <2> HIDE DEF es, tap
  <2>8. Spells(es(n) \o Tap(t[m])) = Spells(es(n)) \o <<t[m]>>
    BY <2>3, <2>5, <2>6, <2>7, CharTyped
  <2>9. SubSeq(t, 1, m) = SubSeq(t, 1, n) \o <<t[m]>>
    <3> DEFINE s == SubSeq(t, 1, n)
    <3>1. SubSeq(t, 1, m) = Append(SubSeq(t, 1, m - 1), t[m])
      BY <2>2, SubSeqRecursiveSecond
    <3>2. m - 1 = n
      BY <2>1
    <3>3. s \in Seq(Characters) /\ t[m] \in Characters
      BY <2>3, <2>6
    <3> HIDE DEF s
    <3>4. s \o <<t[m]>> = Append(s, t[m])
      BY <3>3, AppendIsConcat
    <3>5. QED
      BY <3>1, <3>2, <3>4 DEF s
  <2>10. Spells(es(m)) = SubSeq(t, 1, m)
    BY <2>3, <2>4, <2>6, <2>8, <2>9
  <2>11. QED
    BY <2>1, <2>10
<1> HIDE DEF T
<1>7. \A n \in Nat : n \in T
  BY <1>5, <1>6, Induction
<1>8. Spells(es(Len(t))) = SubSeq(t, 1, Len(t))
  BY <1>1, <1>7 DEF T
<1>9. SubSeq(t, 1, Len(t)) = t
  BY SubSeqFull
<1>10. QED
  BY <1>8, <1>9

\* Whatever was typed, failed or changed before: the keys sent for a text that
\* is answered without an error spell it in the keymap, Shift and all, if nothing
\* is pressed, CapsLock is off and the keymap known is the one in use.
THEOREM KeyKeysSpellText == Spec => []KeysSpellText
<1>1. Init => KeysSpellText
  BY DEF Init, KeysSpellText, Blank
<1>2. TypeOK /\ KeysSpellText /\ [Next]_vars => KeysSpellText'
  <2> SUFFICES ASSUME TypeOK, KeysSpellText, [Next]_vars PROVE KeysSpellText'
    OBVIOUS
  <2>1. ASSUME NEW text \in Texts, TypeText(text) PROVE KeysSpellText'
    <3>1. PICK ok \in BOOLEAN, locked \in BOOLEAN :
            typed' = IF ok /\ Prefix(text) = text /\ Undisturbed(text, locked)
                     THEN [asked |-> text,
                           named |-> TextOf(layout, locked, TextEvents(Prefix(text)), down),
                           got |-> TextOf(OnWire, locked, TextEvents(Prefix(text)), down)]
                     ELSE Blank
      BY <2>1 DEF TypeText, Locks
    <3>2. CASE ~(Prefix(text) = text /\ Undisturbed(text, locked))
      BY <3>1, <3>2 DEF KeysSpellText, Blank
    <3>3. CASE Prefix(text) = text /\ Undisturbed(text, locked)
      <4>1. text \in Seq(Characters) /\ \A i \in 1..Len(text) : Supported(text[i])
        BY <3>3, PrefixTyped
      <4>2. down = {} /\ (transport = "eis" =>
                            /\ Plain(layout) /\ ResolverInUse = layout
                            /\ \A i \in 1..Len(text) : Having(layout, text[i]) # {})
        BY <3>3, <4>1 DEF Undisturbed
      <4>3. Spells(TextEvents(text)) = text
        BY <4>1, <4>2, TextTyped
      <4>4. locked = FALSE
        BY <3>3 DEF Undisturbed
      <4>5. TextOf(layout, locked, TextEvents(Prefix(text)), down) = text
        BY <3>3, <4>2, <4>3, <4>4 DEF Spells
      <4>6. QED
        BY <3>1, <4>5 DEF KeysSpellText, Blank
    <3>4. QED
      BY <3>2, <3>3
  <2>2. CASE typed' = Blank
    BY <2>2 DEF KeysSpellText, Blank
  <2>3. CASE UNCHANGED vars
    BY <2>3 DEF KeysSpellText, vars
  <2>4. CASE Next
    BY <2>1, <2>2, <2>4
       DEF Next, Key, Button, Motion, ChangeLayout, OnKeymap, Disconnect, Restart, Fresh
  <2>5. QED
    BY <2>3, <2>4
<1>3. QED
  BY <1>1, <1>2, KeyTypeCorrect, PTL DEF Spec
=============================================================================

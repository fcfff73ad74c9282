--------------------------- MODULE SequenceFacts ----------------------------
(***************************************************************************)
(* Facts about sequences that the proofs of several modules need: what is  *)
(* in two sequences one behind the other, in which order, and how often.   *)
(***************************************************************************)
EXTENDS SequencesExt, FiniteSets, SequenceTheorems, FiniteSetTheorems,
        WellFoundedInduction, TLAPS

-----------------------------------------------------------------------------
(* Numbers.  A fact about every n is proved by looking at the least number *)
(* it does not hold for.                                                   *)

\* Every set of numbers that is not empty has a least one.
LEMMA LeastNat ==
    ASSUME NEW T, T \subseteq Nat, T # {}
    PROVE  \E n \in T : \A m \in T : n <= m
<1>1. \A y \in Nat, x \in Nat : y < x => <<y, x>> \in OpToRel(<, Nat)
  BY DEF OpToRel
<1>2. PICK x \in T : \A y \in T : <<y, x>> \notin OpToRel(<, Nat)
  BY NatLessThanWellFounded, WFMin
<1>3. \A y \in T : ~(y < x)
  BY <1>1, <1>2, Zenon
<1>4. \A y \in T : x <= y
  BY <1>3
<1>5. QED
  BY <1>4

\* Induction, for the set of the numbers that have a property.
LEMMA Induction ==
    ASSUME NEW T, 0 \in T, \A n \in Nat : n \in T => n + 1 \in T
    PROVE  \A n \in Nat : n \in T
<1> SUFFICES ASSUME Nat \ T # {} PROVE FALSE
  OBVIOUS
<1>1. PICK n \in Nat \ T : \A m \in Nat \ T : n <= m
  BY LeastNat, Nat \ T \subseteq Nat
<1>2. n # 0 /\ n - 1 \in Nat
  BY <1>1
<1>3. n - 1 \in T
  BY <1>1, <1>2
<1>4. QED
  BY <1>1, <1>2, <1>3

\* Max is what its name says.
LEMMA MaxIs ==
    ASSUME NEW S, S \subseteq Nat, NEW n \in S, \A m \in S : m <= n
    PROVE  Max(S) = n
<1>1. \A y \in S : n >= y
  OBVIOUS
<1>2. Max(S) \in S /\ \A y \in S : Max(S) >= y
  BY <1>1 DEF Max
<1>3. PICK m : m = Max(S)
  OBVIOUS
<1>4. m \in Nat /\ n \in Nat /\ m <= n /\ m >= n
  BY <1>2, <1>3
<1>5. m = n
  BY <1>4
<1>6. QED
  BY <1>3, <1>5

-----------------------------------------------------------------------------
(* The elements of sequences.                                              *)

\* A sequence that is not empty, as its head and its tail.
LEMMA HeadOn ==
    ASSUME NEW S, NEW q \in Seq(S), q # <<>>
    PROVE  /\ Head(q) \in S /\ Tail(q) \in Seq(S) /\ <<Head(q)>> \in Seq(S)
           /\ q = <<Head(q)>> \o Tail(q)
<1>1. Len(q) \in Nat \ {0} /\ Len(q) \in 1..Len(q) /\ 1 \in 1..Len(q)
  BY EmptySeq
<1>2. SubSeq(q, 1, Len(q)) = q
  BY SubSeqFull
<1>3. SubSeq(q, 1, Len(q)) = <<q[1]>> \o SubSeq(q, 1 + 1, Len(q))
  BY <1>1, SubSeqRecursiveFirst
<1>4. Tail(q) = SubSeq(q, 2, Len(q)) /\ Head(q) \in S /\ Tail(q) \in Seq(S)
  BY TailIsSubSeq, HeadTailProperties
<1>5. Head(q) = q[1] /\ 1 + 1 = 2
  OBVIOUS
<1>6. <<Head(q)>> \in Seq(S)
  BY <1>4
<1>7. QED
  BY <1>2, <1>3, <1>4, <1>5, <1>6

\* Where the elements of two sequences are in the one made of both.
LEMMA ConcatAt ==
    ASSUME NEW S, NEW p \in Seq(S), NEW q \in Seq(S)
    PROVE  /\ p \o q \in Seq(S) /\ Len(p \o q) = Len(p) + Len(q)
           /\ Len(p) \in Nat /\ Len(q) \in Nat
           /\ \A i \in 1..Len(p \o q) :
                \/ i \in 1..Len(p) /\ (p \o q)[i] = p[i]
                \/ i - Len(p) \in 1..Len(q) /\ (p \o q)[i] = q[i - Len(p)]
           /\ \A i \in 1..Len(p) : i \in 1..Len(p \o q) /\ (p \o q)[i] = p[i]
           /\ \A i \in 1..Len(q) : i + Len(p) \in 1..Len(p \o q) /\ (p \o q)[i + Len(p)] = q[i]
<1>1. Len(p) \in Nat /\ Len(q) \in Nat
  OBVIOUS
<1>2. p \o q \in Seq(S) /\ Len(p \o q) = Len(p) + Len(q)
  BY ConcatProperties
<1>3. \A i \in 1..Len(p) + Len(q) :
        (p \o q)[i] = IF i <= Len(p) THEN p[i] ELSE q[i - Len(p)]
  BY ConcatProperties
<1>4. ASSUME NEW i \in 1..Len(p \o q)
      PROVE  \/ i \in 1..Len(p) /\ (p \o q)[i] = p[i]
             \/ i - Len(p) \in 1..Len(q) /\ (p \o q)[i] = q[i - Len(p)]
  <2>1. CASE i <= Len(p)
    <3>1. i \in 1..Len(p) /\ i \in 1..Len(p) + Len(q)
      BY <1>1, <1>2, <2>1
    <3>2. QED
      BY <1>3, <2>1, <3>1
  <2>2. CASE ~(i <= Len(p))
    <3>1. i - Len(p) \in 1..Len(q) /\ i \in 1..Len(p) + Len(q)
      BY <1>1, <1>2, <2>2
    <3>2. QED
      BY <1>3, <2>2, <3>1
  <2>3. QED
    BY <2>1, <2>2
<1>5. ASSUME NEW i \in 1..Len(p) PROVE i \in 1..Len(p \o q) /\ (p \o q)[i] = p[i]
  <2>1. i <= Len(p) /\ i \in 1..Len(p) + Len(q)
    BY <1>1
  <2>2. QED
    BY <1>2, <1>3, <2>1
<1>6. ASSUME NEW i \in 1..Len(q)
      PROVE  i + Len(p) \in 1..Len(p \o q) /\ (p \o q)[i + Len(p)] = q[i]
  <2>1. PICK j \in Nat : j = i + Len(p)
    BY <1>1
  <2>2. ~(j <= Len(p)) /\ j \in 1..Len(p) + Len(q) /\ j - Len(p) = i
    BY <1>1, <2>1
  <2>3. (p \o q)[j] = q[i]
    BY <1>3, <2>2
  <2>4. QED
    BY <1>2, <2>1, <2>2, <2>3
<1>7. QED
  BY <1>1, <1>2, <1>4, <1>5, <1>6

\* The elements of a sequence.
LEMMA RangeAt ==
    ASSUME NEW S, NEW q \in Seq(S)
    PROVE  /\ Range(q) = {q[i] : i \in 1..Len(q)}
           /\ \A x \in Range(q) : x \in S
BY DEF Range

\* The elements of two sequences, one behind the other.
LEMMA RangeOn ==
    ASSUME NEW S, NEW p \in Seq(S), NEW q \in Seq(S)
    PROVE  Range(p \o q) = Range(p) \cup Range(q)
<1>1. Range(p) = {p[i] : i \in 1..Len(p)} /\ Range(q) = {q[i] : i \in 1..Len(q)}
  BY RangeAt
<1>2. Range(p \o q) = {(p \o q)[i] : i \in 1..Len(p \o q)}
  BY ConcatAt, RangeAt
<1>3. ASSUME NEW x \in Range(p \o q) PROVE x \in Range(p) \/ x \in Range(q)
  <2>1. PICK i \in 1..Len(p \o q) : x = (p \o q)[i]
    BY <1>2
  <2>2. \/ i \in 1..Len(p) /\ x = p[i]
        \/ i - Len(p) \in 1..Len(q) /\ x = q[i - Len(p)]
    BY <2>1, ConcatAt
  <2>3. QED
    BY <1>1, <2>2, Zenon
<1>4. ASSUME NEW x \in Range(p) PROVE x \in Range(p \o q)
  <2>1. PICK i \in 1..Len(p) : x = p[i]
    BY <1>1
  <2>2. i \in 1..Len(p \o q) /\ (p \o q)[i] = x
    BY <2>1, ConcatAt
  <2>3. QED
    BY <1>2, <2>2
<1>5. ASSUME NEW x \in Range(q) PROVE x \in Range(p \o q)
  <2>1. PICK i \in 1..Len(q) : x = q[i]
    BY <1>1
  <2>2. PICK j : j = i + Len(p)
    OBVIOUS
  <2>3. j \in 1..Len(p \o q) /\ (p \o q)[j] = x
    BY <2>1, <2>2, ConcatAt
  <2>4. QED
    BY <1>2, <2>3
<1>6. QED
  BY <1>3, <1>4, <1>5

\* The empty sequence has none.
LEMMA RangeNone == Range(<<>>) = {}
BY DEF Range

\* The elements of a sequence of one.
LEMMA RangeOne ==
    ASSUME NEW x
    PROVE  Range(<<x>>) = {x}
BY DEF Range

\* One more.
LEMMA RangeMore ==
    ASSUME NEW S, NEW q \in Seq(S), NEW m \in S
    PROVE  Range(q \o <<m>>) = Range(q) \cup {m}
<1>1. <<m>> \in Seq(S)
  OBVIOUS
<1>2. Range(q \o <<m>>) = Range(q) \cup Range(<<m>>)
  BY <1>1, RangeOn
<1>3. QED
  BY <1>2, RangeOne

\* One more, behind two sequences.
LEMMA SentMore ==
    ASSUME NEW S, NEW p \in Seq(S), NEW q \in Seq(S), NEW m \in S
    PROVE  (p \o q) \o <<m>> = p \o (q \o <<m>>)
<1>1. <<m>> \in Seq(S)
  OBVIOUS
<1>2. QED
  BY <1>1, ConcatAssociative

-----------------------------------------------------------------------------
(* Their order.                                                            *)

\* x comes before y in q, at any distance; x comes right before y.
Precedes(x, y, q) == \E i, j \in 1..Len(q) : i < j /\ q[i] = x /\ q[j] = y
Follows(x, y, q) == \E i, j \in 1..Len(q) : j = i + 1 /\ q[i] = x /\ q[j] = y

\* What comes before what in two sequences, one behind the other.
LEMMA PrecedesOn ==
    ASSUME NEW S, NEW p \in Seq(S), NEW q \in Seq(S), NEW x, NEW y
    PROVE  /\ Precedes(x, y, p \o q) =>
                \/ Precedes(x, y, p) /\ x \in Range(p) /\ y \in Range(p)
                \/ Precedes(x, y, q) /\ x \in Range(q) /\ y \in Range(q)
                \/ x \in Range(p) /\ y \in Range(q)
           /\ Precedes(x, y, q) => Precedes(x, y, p \o q)
           /\ x \in Range(p) /\ y \in Range(q) => Precedes(x, y, p \o q)
<1>0. /\ Range(p) = {p[i] : i \in 1..Len(p)} /\ Range(q) = {q[i] : i \in 1..Len(q)}
      /\ Len(p) \in Nat /\ Len(q) \in Nat /\ Len(p \o q) = Len(p) + Len(q)
  <2>1. Range(p) = {p[i] : i \in 1..Len(p)} /\ Range(q) = {q[i] : i \in 1..Len(q)}
    BY RangeAt
  <2>2. Len(p) \in Nat /\ Len(q) \in Nat /\ Len(p \o q) = Len(p) + Len(q)
    BY ConcatAt
  <2>3. QED
    BY <2>1, <2>2
<1>1. ASSUME Precedes(x, y, p \o q)
      PROVE  \/ Precedes(x, y, p) /\ x \in Range(p) /\ y \in Range(p)
             \/ Precedes(x, y, q) /\ x \in Range(q) /\ y \in Range(q)
             \/ x \in Range(p) /\ y \in Range(q)
  <2>1. PICK i \in 1..Len(p \o q), j \in 1..Len(p \o q) :
               i < j /\ (p \o q)[i] = x /\ (p \o q)[j] = y
    BY <1>1 DEF Precedes
  <2>2. \/ i \in 1..Len(p) /\ x = p[i]
        \/ i - Len(p) \in 1..Len(q) /\ x = q[i - Len(p)]
    BY <2>1, ConcatAt
  <2>3. \/ j \in 1..Len(p) /\ y = p[j]
        \/ j - Len(p) \in 1..Len(q) /\ y = q[j - Len(p)]
    BY <2>1, ConcatAt
  <2>4. CASE i \in 1..Len(p) /\ x = p[i] /\ j \in 1..Len(p) /\ y = p[j]
    <3>1. Precedes(x, y, p)
      BY <2>1, <2>4 DEF Precedes
    <3>2. QED
      BY <1>0, <2>4, <3>1
  <2>5. CASE /\ i - Len(p) \in 1..Len(q) /\ x = q[i - Len(p)]
             /\ j - Len(p) \in 1..Len(q) /\ y = q[j - Len(p)]
    <3>1. PICK a, b : a = i - Len(p) /\ b = j - Len(p)
      OBVIOUS
    <3>2. a < b
      BY <1>0, <2>1, <3>1
    <3>3. a \in 1..Len(q) /\ b \in 1..Len(q) /\ x = q[a] /\ y = q[b]
      BY <2>5, <3>1
    <3>4. Precedes(x, y, q)
      BY <3>2, <3>3 DEF Precedes
    <3>5. QED
      BY <1>0, <3>3, <3>4
  <2>6. CASE i \in 1..Len(p) /\ x = p[i] /\ j - Len(p) \in 1..Len(q) /\ y = q[j - Len(p)]
    BY <1>0, <2>6, Zenon
  <2>7. CASE i - Len(p) \in 1..Len(q) /\ j \in 1..Len(p)
    BY <1>0, <2>1, <2>7
  <2>8. QED
    BY <2>2, <2>3, <2>4, <2>5, <2>6, <2>7
<1>2. ASSUME Precedes(x, y, q) PROVE Precedes(x, y, p \o q)
  <2>1. PICK i \in 1..Len(q), j \in 1..Len(q) : i < j /\ q[i] = x /\ q[j] = y
    BY <1>2 DEF Precedes
  <2>2. PICK a, b : a = i + Len(p) /\ b = j + Len(p)
    OBVIOUS
  <2>3. a < b
    BY <1>0, <2>1, <2>2
  <2>4. /\ a \in 1..Len(p \o q) /\ (p \o q)[a] = x
        /\ b \in 1..Len(p \o q) /\ (p \o q)[b] = y
    BY <2>1, <2>2, ConcatAt
  <2>5. QED
    BY <2>3, <2>4 DEF Precedes
<1>3. ASSUME x \in Range(p), y \in Range(q) PROVE Precedes(x, y, p \o q)
  <2>1. PICK i \in 1..Len(p), j \in 1..Len(q) : p[i] = x /\ q[j] = y
    BY <1>0, <1>3
  <2>2. PICK b : b = j + Len(p)
    OBVIOUS
  <2>3. i < b
    BY <1>0, <2>1, <2>2
  <2>4. /\ i \in 1..Len(p \o q) /\ (p \o q)[i] = x
        /\ b \in 1..Len(p \o q) /\ (p \o q)[b] = y
    BY <2>1, <2>2, ConcatAt
  <2>5. QED
    BY <2>3, <2>4 DEF Precedes
<1>4. QED
  BY <1>1, <1>2, <1>3

\* What is first and last in them.
LEMMA EndsOn ==
    ASSUME NEW S, NEW p \in Seq(S), NEW q \in Seq(S)
    PROVE  /\ p # <<>> => /\ p \o q # <<>> /\ Head(p \o q) = Head(p)
                          /\ Head(p) \in Range(p) /\ Last(p) \in Range(p)
           /\ q # <<>> => p \o q # <<>> /\ Last(p \o q) = Last(q)
<1>0. Len(p) \in Nat /\ Len(q) \in Nat /\ Len(p \o q) = Len(p) + Len(q)
  BY ConcatAt
<1>1. ASSUME p # <<>> PROVE p \o q # <<>> /\ Head(p \o q) = Head(p) /\ Head(p) \in Range(p)
                            /\ Last(p) \in Range(p)
  <2>1. Len(p) # 0
    BY <1>1, EmptySeq
  <2>2. Len(p) \in 1..Len(p) /\ 1 \in 1..Len(p) /\ Len(p \o q) # 0
    BY <1>0, <2>1
  <2>3. p \o q # <<>>
    BY <2>2
  <2>4. (p \o q)[1] = p[1]
    BY <2>2, ConcatAt
  <2>5. QED
    BY <2>2, <2>3, <2>4 DEF Range, Last
<1>2. ASSUME q # <<>> PROVE p \o q # <<>> /\ Last(p \o q) = Last(q)
  <2>1. Len(q) # 0
    BY <1>2, EmptySeq
  <2>2. Len(q) \in 1..Len(q) /\ Len(p \o q) # 0 /\ Len(q) + Len(p) = Len(p \o q)
    BY <1>0, <2>1
  <2>3. p \o q # <<>>
    BY <2>2
  <2>4. (p \o q)[Len(q) + Len(p)] = q[Len(q)]
    BY <2>2, ConcatAt
  <2>5. QED
    BY <2>2, <2>3, <2>4 DEF Last
<1>3. QED
  BY <1>1, <1>2

\* What comes right before what in them.
LEMMA FollowsOn ==
    ASSUME NEW S, NEW p \in Seq(S), NEW q \in Seq(S), NEW x, NEW y
    PROVE  /\ Follows(x, y, p \o q) =>
                \/ Follows(x, y, p) /\ x \in Range(p) /\ y \in Range(p)
                \/ Follows(x, y, q) /\ x \in Range(q) /\ y \in Range(q)
                \/ p # <<>> /\ q # <<>> /\ x = Last(p) /\ y = Head(q)
           /\ Follows(x, y, q) => Follows(x, y, p \o q)
           /\ p # <<>> /\ q # <<>> => Follows(Last(p), Head(q), p \o q)
<1>0. /\ Range(p) = {p[i] : i \in 1..Len(p)} /\ Range(q) = {q[i] : i \in 1..Len(q)}
      /\ Len(p) \in Nat /\ Len(q) \in Nat /\ Len(p \o q) = Len(p) + Len(q)
  <2>1. Range(p) = {p[i] : i \in 1..Len(p)} /\ Range(q) = {q[i] : i \in 1..Len(q)}
    BY RangeAt
  <2>2. Len(p) \in Nat /\ Len(q) \in Nat /\ Len(p \o q) = Len(p) + Len(q)
    BY ConcatAt
  <2>3. QED
    BY <2>1, <2>2
<1>1. ASSUME Follows(x, y, p \o q)
      PROVE  \/ Follows(x, y, p) /\ x \in Range(p) /\ y \in Range(p)
             \/ Follows(x, y, q) /\ x \in Range(q) /\ y \in Range(q)
             \/ p # <<>> /\ q # <<>> /\ x = Last(p) /\ y = Head(q)
  <2>1. PICK i \in 1..Len(p \o q), j \in 1..Len(p \o q) :
               j = i + 1 /\ (p \o q)[i] = x /\ (p \o q)[j] = y
    BY <1>1 DEF Follows
  <2>2. \/ i \in 1..Len(p) /\ x = p[i]
        \/ i - Len(p) \in 1..Len(q) /\ x = q[i - Len(p)]
    BY <2>1, ConcatAt
  <2>3. \/ j \in 1..Len(p) /\ y = p[j]
        \/ j - Len(p) \in 1..Len(q) /\ y = q[j - Len(p)]
    BY <2>1, ConcatAt
  <2>4. CASE i \in 1..Len(p) /\ x = p[i] /\ j \in 1..Len(p) /\ y = p[j]
    <3>1. Follows(x, y, p)
      BY <2>1, <2>4 DEF Follows
    <3>2. QED
      BY <1>0, <2>4, <3>1
  <2>5. CASE /\ i - Len(p) \in 1..Len(q) /\ x = q[i - Len(p)]
             /\ j - Len(p) \in 1..Len(q) /\ y = q[j - Len(p)]
    <3>1. PICK a, b : a = i - Len(p) /\ b = j - Len(p)
      OBVIOUS
    <3>2. b = a + 1
      BY <1>0, <2>1, <3>1
    <3>3. a \in 1..Len(q) /\ b \in 1..Len(q) /\ x = q[a] /\ y = q[b]
      BY <2>5, <3>1
    <3>4. Follows(x, y, q)
      BY <3>2, <3>3 DEF Follows
    <3>5. QED
      BY <1>0, <3>3, <3>4
  <2>6. CASE i \in 1..Len(p) /\ x = p[i] /\ j - Len(p) \in 1..Len(q) /\ y = q[j - Len(p)]
    <3>1. i = Len(p) /\ j - Len(p) = 1 /\ Len(p) # 0 /\ Len(q) # 0
      BY <1>0, <2>1, <2>6
    <3>2. p # <<>> /\ q # <<>>
      BY <3>1
    <3>3. x = p[Len(p)] /\ y = q[1]
      BY <2>6, <3>1
    <3>4. QED
      BY <3>2, <3>3 DEF Last
  <2>7. CASE i - Len(p) \in 1..Len(q) /\ j \in 1..Len(p)
    BY <1>0, <2>1, <2>7
  <2>8. QED
    BY <2>2, <2>3, <2>4, <2>5, <2>6, <2>7
<1>2. ASSUME Follows(x, y, q) PROVE Follows(x, y, p \o q)
  <2>1. PICK i \in 1..Len(q), j \in 1..Len(q) : j = i + 1 /\ q[i] = x /\ q[j] = y
    BY <1>2 DEF Follows
  <2>2. PICK a, b : a = i + Len(p) /\ b = j + Len(p)
    OBVIOUS
  <2>3. b = a + 1
    BY <1>0, <2>1, <2>2
  <2>4. /\ a \in 1..Len(p \o q) /\ (p \o q)[a] = x
        /\ b \in 1..Len(p \o q) /\ (p \o q)[b] = y
    BY <2>1, <2>2, ConcatAt
  <2>5. QED
    BY <2>3, <2>4 DEF Follows
<1>3. ASSUME p # <<>>, q # <<>> PROVE Follows(Last(p), Head(q), p \o q)
  <2>1. Len(p) # 0 /\ Len(q) # 0
    BY <1>3, EmptySeq
  <2>2. PICK i, j : i = Len(p) /\ j = 1 + Len(p)
    OBVIOUS
  <2>3. i \in 1..Len(p) /\ 1 \in 1..Len(q) /\ j = i + 1
    BY <1>0, <2>1, <2>2
  <2>4. /\ i \in 1..Len(p \o q) /\ (p \o q)[i] = p[Len(p)]
        /\ j \in 1..Len(p \o q) /\ (p \o q)[j] = q[1]
    BY <2>2, <2>3, ConcatAt
  <2>5. QED
    BY <2>3, <2>4 DEF Follows, Last
<1>4. QED
  BY <1>1, <1>2, <1>3

\* In a sequence of at most one nothing comes before anything.
LEMMA SingleOn ==
    ASSUME NEW x, NEW y, NEW m
    PROVE  ~Precedes(x, y, <<m>>) /\ ~Follows(x, y, <<m>>)
           /\ ~Precedes(x, y, <<>>) /\ ~Follows(x, y, <<>>)
BY DEF Precedes, Follows

-----------------------------------------------------------------------------
(* How many of a queue's messages have a name.                             *)

Count(q, name) == Cardinality({j \in 1..Len(q) : q[j].name = name})

\* Counting adds up.
LEMMA CountOn ==
    ASSUME NEW S, NEW p \in Seq(S), NEW q \in Seq(S), NEW name
    PROVE  /\ Count(p \o q, name) = Count(p, name) + Count(q, name)
           /\ Count(p, name) \in Nat /\ Count(q, name) \in Nat
<1> DEFINE P == {j \in 1..Len(p) : p[j].name = name}
           Q == {j \in 1..Len(q) : q[j].name = name}
           R == {j \in 1..Len(p \o q) : (p \o q)[j].name = name}
           T == R \ P
<1>0. Len(p) \in Nat /\ Len(q) \in Nat /\ Len(p \o q) = Len(p) + Len(q)
  BY ConcatAt
<1>1. IsFiniteSet(P) /\ Cardinality(P) \in Nat
  <2>1. IsFiniteSet(1..Len(p)) /\ P \in SUBSET (1..Len(p))
    BY <1>0, FS_Interval
  <2>2. QED
    BY <2>1, FS_Subset, FS_CardinalityType
<1>2. IsFiniteSet(Q) /\ Cardinality(Q) \in Nat
  <2>1. IsFiniteSet(1..Len(q)) /\ Q \in SUBSET (1..Len(q))
    BY <1>0, FS_Interval
  <2>2. QED
    BY <2>1, FS_Subset, FS_CardinalityType
<1>3. P \subseteq R
  <2>1. ASSUME NEW j \in P PROVE j \in R
    <3>1. j \in 1..Len(p) /\ p[j].name = name
      OBVIOUS
    <3>2. j \in 1..Len(p \o q) /\ (p \o q)[j] = p[j]
      BY <3>1, ConcatAt
    <3>3. QED
      BY <3>1, <3>2
  <2>2. QED
    BY <2>1
<1>4. ExistsBijection(Q, T)
  <2> DEFINE g == [j \in Q |-> j + Len(p)]
  <2>1. ASSUME NEW j \in Q PROVE j + Len(p) \in T
    <3>1. j \in 1..Len(q) /\ q[j].name = name
      OBVIOUS
    <3>2. PICK i : i = j + Len(p)
      OBVIOUS
    <3>3. i \in 1..Len(p \o q) /\ (p \o q)[i] = q[j]
      BY <3>1, <3>2, ConcatAt
    <3>4. i \in R
      BY <3>1, <3>3
    <3>5. ~(i \in 1..Len(p))
      BY <1>0, <3>1, <3>2
    <3>6. i \in T
      BY <3>4, <3>5
    <3>7. QED
      BY <3>2, <3>6
  <2>2. g \in [Q -> T]
    BY <2>1
  <2>3. ASSUME NEW i \in Q, NEW j \in Q, g[i] = g[j] PROVE i = j
    <3>1. i + Len(p) = j + Len(p) /\ i \in Nat /\ j \in Nat
      BY <2>3
    <3>2. QED
      BY <1>0, <3>1
  <2>4. ASSUME NEW i \in T PROVE \E j \in Q : g[j] = i
    <3>1. i \in R /\ i \notin P
      OBVIOUS
    <3>2. i \in 1..Len(p \o q) /\ (p \o q)[i].name = name
      BY <3>1
    <3>3. \/ i \in 1..Len(p) /\ (p \o q)[i] = p[i]
          \/ i - Len(p) \in 1..Len(q) /\ (p \o q)[i] = q[i - Len(p)]
      BY <3>2, ConcatAt
    <3>4. i - Len(p) \in 1..Len(q) /\ q[i - Len(p)].name = name
      BY <3>1, <3>2, <3>3
    <3>5. PICK j : j = i - Len(p)
      OBVIOUS
    <3>6. j \in Q
      BY <3>4, <3>5
    <3>7. i \in Nat /\ j \in Nat
      BY <3>2, <3>4, <3>5
    <3>8. i = j + Len(p)
      BY <1>0, <3>5, <3>7
    <3>9. QED
      BY <3>6, <3>8
  <2> HIDE DEF g, T, Q
  <2>5. g \in Bijection(Q, T)
    BY <2>2, <2>3, <2>4 DEF Bijection, Injection, Surjection, IsInjective
  <2>6. QED
    BY <2>5 DEF ExistsBijection
<1>5. R = P \cup T /\ P \cap T = {}
  BY <1>3
<1> HIDE DEF P, Q, R, T
<1>6. IsFiniteSet(T) /\ Cardinality(T) = Cardinality(Q)
  BY <1>2, <1>4, FS_Bijection
<1>7. Cardinality(P \cup T) = Cardinality(P) + Cardinality(T) - Cardinality(P \cap T)
  BY <1>1, <1>6, FS_Union
<1>8. Cardinality(P \cap T) = 0
  BY <1>5, FS_EmptySet
<1>9. Cardinality(R) = Cardinality(P) + Cardinality(Q)
  BY <1>1, <1>2, <1>5, <1>6, <1>7, <1>8
<1>10. QED
  BY <1>1, <1>2, <1>9 DEF Count, P, Q, R

\* Counting at most one.
LEMMA CountFew ==
    ASSUME NEW name, NEW m
    PROVE  /\ Count(<<>>, name) = 0
           /\ Count(<<m>>, name) = IF m.name = name THEN 1 ELSE 0
<1>1. {j \in 1..Len(<<>>) : <<>>[j].name = name} = {}
  OBVIOUS
<1>2. Len(<<m>>) = 1 /\ <<m>>[1] = m /\ 1..1 = {1}
  OBVIOUS
<1>3. {j \in 1..Len(<<m>>) : <<m>>[j].name = name} = IF m.name = name THEN {1} ELSE {}
  BY <1>2
<1>4. Cardinality({}) = 0 /\ Cardinality({1}) = 1
  BY FS_EmptySet, FS_Singleton
<1>5. Count(<<>>, name) = 0
  BY <1>1, <1>4 DEF Count
<1>6. QED
  BY <1>3, <1>4, <1>5 DEF Count

\* Messages of other names do not count.
LEMMA CountNone ==
    ASSUME NEW S, NEW q \in Seq(S), NEW name, \A m \in Range(q) : m.name # name
    PROVE  Count(q, name) = 0
<1>1. \A j \in 1..Len(q) : q[j] \in Range(q)
  BY RangeAt
<1>2. {j \in 1..Len(q) : q[j].name = name} = {}
  BY <1>1
<1>3. QED
  BY <1>2, FS_EmptySet DEF Count

\* Counting without the head.
LEMMA CountHead ==
    ASSUME NEW S, NEW q \in Seq(S), q # <<>>, NEW name
    PROVE  /\ Count(q, name) \in Nat /\ Count(Tail(q), name) \in Nat
           /\ Head(q).name = name => Count(q, name) = Count(Tail(q), name) + 1
           /\ Head(q).name # name => Count(q, name) = Count(Tail(q), name)
<1>1. PICK m, t : m = Head(q) /\ t = Tail(q)
  OBVIOUS
<1>2. <<m>> \in Seq(S) /\ t \in Seq(S) /\ q = <<m>> \o t
  BY <1>1, HeadOn
<1>3. Count(q, name) = Count(<<m>>, name) + Count(t, name) /\ Count(t, name) \in Nat
  BY <1>2, CountOn
<1>4. Count(<<m>>, name) = IF m.name = name THEN 1 ELSE 0
  BY CountFew
<1>5. CASE m.name = name
  <2>1. Count(<<m>>, name) = 1
    BY <1>4, <1>5
  <2>2. Count(q, name) = Count(t, name) + 1 /\ Count(q, name) \in Nat
    BY <1>3, <2>1
  <2>3. QED
    BY <1>1, <1>3, <1>5, <2>2
<1>6. CASE m.name # name
  <2>1. Count(<<m>>, name) = 0
    BY <1>4, <1>6
  <2>2. Count(q, name) = Count(t, name) /\ Count(q, name) \in Nat
    BY <1>3, <2>1
  <2>3. QED
    BY <1>1, <1>3, <1>6, <2>2
<1>7. QED
  BY <1>5, <1>6

\* Counting one more.
LEMMA CountMore ==
    ASSUME NEW S, NEW q \in Seq(S), NEW m \in S, NEW name
    PROVE  /\ Count(q, name) \in Nat /\ Count(q \o <<m>>, name) \in Nat
           /\ m.name = name => Count(q \o <<m>>, name) = Count(q, name) + 1
           /\ m.name # name => Count(q \o <<m>>, name) = Count(q, name)
<1>1. <<m>> \in Seq(S)
  OBVIOUS
<1>2. Count(q \o <<m>>, name) = Count(q, name) + Count(<<m>>, name) /\ Count(q, name) \in Nat
  BY <1>1, CountOn
<1>3. Count(<<m>>, name) = IF m.name = name THEN 1 ELSE 0
  BY CountFew
<1>4. CASE m.name = name
  <2>1. Count(<<m>>, name) = 1
    BY <1>3, <1>4
  <2>2. QED
    BY <1>2, <1>4, <2>1
<1>5. CASE m.name # name
  <2>1. Count(<<m>>, name) = 0
    BY <1>3, <1>5
  <2>2. QED
    BY <1>2, <1>5, <2>1
<1>6. QED
  BY <1>4, <1>5

\* Counting when nothing counts of what is behind.
LEMMA QuietMore ==
    ASSUME NEW S, NEW q \in Seq(S), NEW ms \in Seq(S), NEW name, Count(ms, name) = 0
    PROVE  Count(q \o ms, name) = Count(q, name)
<1>1. /\ Count(q \o ms, name) = Count(q, name) + Count(ms, name)
      /\ Count(q, name) \in Nat
  BY CountOn
<1>2. QED
  BY <1>1

-----------------------------------------------------------------------------
(* Cutting a sequence in pieces.                                           *)

\* Cutting what comes from the buffer and the socket into what a pump reads
\* and what stays in the socket.
LEMMA CutFlow ==
    ASSUME NEW S, NEW p \in Seq(S), NEW q \in Seq(S), NEW n \in 0..Len(q),
           NEW flow, flow = p \o q, NEW i, i = Len(p) + n
    PROVE  /\ flow \in Seq(S) /\ i \in Nat /\ i <= Len(flow)
           /\ SubSeq(flow, 1, i) = p \o SubSeq(q, 1, n)
           /\ SubSeq(flow, i + 1, Len(flow)) = SubSeq(q, n + 1, Len(q))
<1>1. /\ flow \in Seq(S) /\ Len(flow) = Len(p) + Len(q)
      /\ Len(p) \in Nat /\ Len(q) \in Nat
  BY ConcatAt
<1>2. i \in Nat /\ i <= Len(flow) /\ n \in Nat /\ n <= Len(q)
  BY <1>1
<1>3. \A j \in 1..Len(flow) : flow[j] \in S
  BY <1>1
<1>4. \A j \in 1..Len(q) : q[j] \in S
  OBVIOUS
<1>5. SubSeq(flow, 1, i) = p \o SubSeq(q, 1, n)
  <2> DEFINE a == SubSeq(q, 1, n)
             b == SubSeq(flow, 1, i)
  <2>1. a \in Seq(S) /\ Len(a) = n /\ \A j \in 1..n : a[j] = q[j]
    <3>1. \A j \in 1..n : q[j] \in S
      BY <1>2, <1>4
    <3>2. /\ a \in Seq(S) /\ Len(a) = (IF 1 <= n THEN n - 1 + 1 ELSE 0)
          /\ \A j \in 1..(n - 1 + 1) : a[j] = q[1 + j - 1]
      BY <1>2, <3>1, SubSeqProperties
    <3>3. n - 1 + 1 = n /\ \A j \in 1..n : 1 + j - 1 = j
      BY <1>2
    <3> HIDE DEF a
    <3>4. Len(a) = n
      BY <1>2, <3>2
    <3>5. ASSUME NEW j \in 1..n PROVE a[j] = q[j]
      BY <3>2, <3>3
    <3>6. QED
      BY <3>2, <3>4, <3>5
  <2>2. b \in Seq(S) /\ Len(b) = i /\ \A j \in 1..i : b[j] = flow[j]
    <3>1. \A j \in 1..i : flow[j] \in S
      BY <1>1, <1>2, <1>3
    <3>2. /\ b \in Seq(S) /\ Len(b) = (IF 1 <= i THEN i - 1 + 1 ELSE 0)
          /\ \A j \in 1..(i - 1 + 1) : b[j] = flow[1 + j - 1]
      BY <1>2, <3>1, SubSeqProperties
    <3>3. i - 1 + 1 = i /\ \A j \in 1..i : 1 + j - 1 = j
      BY <1>2
    <3> HIDE DEF b
    <3>4. Len(b) = i
      BY <1>2, <3>2
    <3>5. ASSUME NEW j \in 1..i PROVE b[j] = flow[j]
      BY <3>2, <3>3
    <3>6. QED
      BY <3>2, <3>4, <3>5
  <2> HIDE DEF a, b
  <2>3. p \o a \in Seq(S) /\ Len(p \o a) = i
    BY <1>1, <2>1, ConcatAt
  <2>4. ASSUME NEW j \in 1..i PROVE b[j] = (p \o a)[j]
    <3>1. \/ j \in 1..Len(p) /\ (p \o a)[j] = p[j]
          \/ j - Len(p) \in 1..Len(a) /\ (p \o a)[j] = a[j - Len(p)]
      BY <2>1, <2>3, ConcatAt
    <3>2. j \in 1..Len(flow)
      BY <1>1, <1>2
    <3>3. \/ j \in 1..Len(p) /\ flow[j] = p[j]
          \/ j - Len(p) \in 1..Len(q) /\ flow[j] = q[j - Len(p)]
      BY <3>2, ConcatAt
    <3>4. b[j] = flow[j]
      BY <2>2
    <3>5. CASE j \in 1..Len(p)
      <4>1. ~(j - Len(p) \in Nat /\ j - Len(p) >= 1)
        BY <1>1, <3>5
      <4>2. QED
        BY <2>1, <3>1, <3>3, <3>4, <3>5, <4>1
    <3>6. CASE j \notin 1..Len(p)
      BY <2>1, <3>1, <3>3, <3>4, <3>6
    <3>7. QED
      BY <3>5, <3>6
  <2>5. b = p \o a
    BY <2>2, <2>3, <2>4, SeqEqual
  <2>6. QED
    BY <2>5 DEF a, b
<1>6. SubSeq(flow, i + 1, Len(flow)) = SubSeq(q, n + 1, Len(q))
  <2> DEFINE a == SubSeq(q, n + 1, Len(q))
             b == SubSeq(flow, i + 1, Len(flow))
  <2>0. PICK z \in Nat : z = Len(q) - n
    <3>1. Len(q) - n \in Nat
      BY <1>1, <1>2
    <3>2. QED
      BY <3>1
  <2>1. a \in Seq(S) /\ Len(a) = z /\ \A j \in 1..z : a[j] = q[n + j]
    <3>1. \A j \in (n + 1)..Len(q) : q[j] \in S
      BY <1>2, <1>4
    <3>2. /\ a \in Seq(S) /\ Len(a) = (IF n + 1 <= Len(q) THEN Len(q) - (n + 1) + 1 ELSE 0)
          /\ \A j \in 1..(Len(q) - (n + 1) + 1) : a[j] = q[(n + 1) + j - 1]
      BY <1>1, <1>2, <3>1, SubSeqProperties
    <3>3. Len(q) - (n + 1) + 1 = z /\ \A j \in 1..z : (n + 1) + j - 1 = n + j
      BY <1>1, <1>2, <2>0
    <3> HIDE DEF a
    <3>4. Len(a) = z
      BY <1>1, <1>2, <2>0, <3>2
    <3>5. ASSUME NEW j \in 1..z PROVE a[j] = q[n + j]
      <4>1. j \in 1..(Len(q) - (n + 1) + 1) /\ (n + 1) + j - 1 = n + j
        BY <3>3
      <4>2. a[j] = q[(n + 1) + j - 1]
        BY <3>2, <4>1
      <4>3. QED
        BY <4>1, <4>2
    <3>6. QED
      BY <3>2, <3>4, <3>5
  <2>2. b \in Seq(S) /\ Len(b) = z /\ \A j \in 1..z : b[j] = flow[i + j]
    <3>1. \A j \in (i + 1)..Len(flow) : flow[j] \in S
      BY <1>1, <1>2, <1>3
    <3>2. /\ b \in Seq(S)
          /\ Len(b) = (IF i + 1 <= Len(flow) THEN Len(flow) - (i + 1) + 1 ELSE 0)
          /\ \A j \in 1..(Len(flow) - (i + 1) + 1) : b[j] = flow[(i + 1) + j - 1]
      BY <1>1, <1>2, <3>1, SubSeqProperties
    <3>3. Len(flow) - (i + 1) + 1 = z /\ \A j \in 1..z : (i + 1) + j - 1 = i + j
      BY <1>1, <1>2, <2>0
    <3> HIDE DEF b
    <3>4. Len(b) = z
      BY <1>1, <1>2, <2>0, <3>2
    <3>5. ASSUME NEW j \in 1..z PROVE b[j] = flow[i + j]
      <4>1. j \in 1..(Len(flow) - (i + 1) + 1) /\ (i + 1) + j - 1 = i + j
        BY <3>3
      <4>2. b[j] = flow[(i + 1) + j - 1]
        BY <3>2, <4>1
      <4>3. QED
        BY <4>1, <4>2
    <3>6. QED
      BY <3>2, <3>4, <3>5
  <2> HIDE DEF a, b
  <2>3. ASSUME NEW j \in 1..z PROVE b[j] = a[j]
    <3>1. PICK e : e = n + j
      OBVIOUS
    <3>2. e \in 1..Len(q) /\ e + Len(p) = i + j
      BY <1>1, <1>2, <2>0, <3>1
    <3>3. flow[e + Len(p)] = q[e]
      BY <3>2, ConcatAt
    <3>4. QED
      BY <2>1, <2>2, <3>1, <3>2, <3>3
  <2>4. b = a
    BY <2>1, <2>2, <2>3, SeqEqual
  <2>5. QED
    BY <2>4 DEF a, b
<1>7. QED
  BY <1>1, <1>2, <1>5, <1>6

\* What is left in the buffer and what is still to come are what the pump has
\* not handled.
LEMMA LeftOn ==
    ASSUME NEW S, NEW flow \in Seq(S), NEW i \in Nat, i <= Len(flow), NEW h \in 0..i
    PROVE  /\ SubSeq(flow, h + 1, i) \o SubSeq(flow, i + 1, Len(flow)) =
                SubSeq(flow, h + 1, Len(flow))
           /\ h = i => SubSeq(flow, h + 1, i) = <<>>
<1>1. PICK m : m = h + 1
  OBVIOUS
<1>2. Len(flow) \in Nat /\ m - 1 = h /\ h \in Nat
  BY <1>1
<1>3. m \in 1..Len(flow) + 1 /\ i \in m - 1..Len(flow) /\ Len(flow) \in i..Len(flow)
  BY <1>1, <1>2
<1>4. SubSeq(flow, m, i) \o SubSeq(flow, i + 1, Len(flow)) = SubSeq(flow, m, Len(flow))
  BY <1>3, ConcatAdjacentSubSeq
<1>5. ASSUME h = i PROVE SubSeq(flow, h + 1, i) = <<>>
  <2>1. m \in Int /\ i \in Int /\ i < m
    BY <1>1, <1>2, <1>5
  <2>2. SubSeq(flow, m, i) = <<>>
    BY <2>1, SubSeqEmpty
  <2>3. QED
    BY <1>1, <2>2
<1>6. QED
  BY <1>1, <1>4, <1>5
=============================================================================

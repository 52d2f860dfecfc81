----------------------------- MODULE ProofLemmas -----------------------------
(***************************************************************************)
(* Facts about numbers, sets and sequences on which the proofs about the   *)
(* components rest.                                                        *)
(***************************************************************************)
EXTENDS Naturals, Sequences, FiniteSets, Functions,
        FiniteSetTheorems, SequenceTheorems, WellFoundedInduction, TLAPS

\* A non-empty set of numbers has a least one.
LEMMA LeastOfNaturals ==
  ASSUME NEW S \in SUBSET Nat, S # {}
  PROVE  \E m \in S : \A n \in S : m <= n
<1>1. PICK x \in S : \A y \in S : ~ (<<y, x>> \in OpToRel(<, Nat))
  BY WFMin, NatLessThanWellFounded
<1>2. ASSUME NEW y \in S PROVE x <= y
  <2>1. x \in Nat /\ y \in Nat
    OBVIOUS
  <2>2. ~ (y < x)
    BY <1>1, <2>1 DEF OpToRel
  <2>3. QED
    BY <2>1, <2>2
<1>3. QED
  BY <1>2

\* The messages of the queues are numbered in order, and the oldest one is
\* chosen: there is one.
LEMMA LeastIsChosen ==
  ASSUME NEW S \in SUBSET Nat, S # {}
  PROVE  LET m == CHOOSE x \in S : \A y \in S : x <= y
         IN  m \in S /\ \A y \in S : m <= y
BY LeastOfNaturals

\* Where x is in the sequence s.
Positions(s, x) == {i \in 1..Len(s) : s[i] = x}

LEMMA PositionsAreFinite ==
  ASSUME NEW T, NEW s \in Seq(T), NEW x
  PROVE  IsFiniteSet(Positions(s, x)) /\ Cardinality(Positions(s, x)) \in Nat
<1>1. Len(s) \in Nat
  OBVIOUS
<1>2. IsFiniteSet(1..Len(s))
  BY <1>1, FS_Interval
<1>3. IsFiniteSet(Positions(s, x))
  BY <1>2, FS_Subset DEF Positions
<1>4. QED
  BY <1>3, FS_CardinalityType

\* An element that is appended has one place more, the others as many as
\* before.
LEMMA PositionsAppend ==
  ASSUME NEW T, NEW s \in Seq(T), NEW e \in T, NEW x
  PROVE  Cardinality(Positions(Append(s, e), x)) =
            IF x = e THEN Cardinality(Positions(s, x)) + 1 ELSE Cardinality(Positions(s, x))
<1> DEFINE n == Len(s) + 1
<1>1. /\ Len(Append(s, e)) = n
      /\ \A i \in 1..Len(s) : Append(s, e)[i] = s[i]
      /\ Append(s, e)[n] = e
      /\ Len(s) \in Nat
  BY AppendProperties
<1>2. \A i : i \in 1..n <=> i \in 1..Len(s) \/ i = n
  BY <1>1
<1>3. IsFiniteSet(Positions(s, x)) /\ n \notin Positions(s, x)
  <2>1. IsFiniteSet(Positions(s, x))
    BY PositionsAreFinite
  <2>2. n \notin 1..Len(s)
    BY <1>1
  <2>3. QED
    BY <2>1, <2>2 DEF Positions
<1>4. CASE x = e
  <2>1. Positions(Append(s, e), x) = Positions(s, x) \cup {n}
    BY <1>1, <1>2, <1>4 DEF Positions
  <2>2. QED
    BY <1>3, <1>4, <2>1, FS_AddElement
<1>5. CASE x # e
  <2>1. Positions(Append(s, e), x) = Positions(s, x)
    BY <1>1, <1>2, <1>5 DEF Positions
  <2>2. QED
    BY <1>5, <2>1
<1>6. QED
  BY <1>4, <1>5

\* What a sequence contains when an element is appended, and when its first
\* one is taken.
LEMMA RangeAppend ==
  ASSUME NEW T, NEW s \in Seq(T), NEW e \in T
  PROVE  Range(Append(s, e)) = Range(s) \cup {e}
<1>1. /\ Len(Append(s, e)) = Len(s) + 1
      /\ \A i \in 1..Len(s) : Append(s, e)[i] = s[i]
      /\ Append(s, e)[Len(s) + 1] = e
      /\ Len(s) \in Nat
      /\ DOMAIN s = 1..Len(s)
      /\ DOMAIN Append(s, e) = 1..(Len(s) + 1)
  BY AppendProperties
<1>2. \A i : i \in 1..(Len(s) + 1) <=> i \in 1..Len(s) \/ i = Len(s) + 1
  BY <1>1
<1>3. QED
  BY <1>1, <1>2 DEF Range

LEMMA RangeTail ==
  ASSUME NEW T, NEW s \in Seq(T), s # <<>>
  PROVE  Range(s) = {Head(s)} \cup Range(Tail(s))
<1>1. /\ Len(s) \in Nat /\ Len(s) >= 1
      /\ DOMAIN s = 1..Len(s)
      /\ Head(s) = s[1]
      /\ Len(Tail(s)) = Len(s) - 1
      /\ DOMAIN Tail(s) = 1..(Len(s) - 1)
      /\ \A i \in 1..(Len(s) - 1) : Tail(s)[i] = s[i + 1]
  BY HeadTailProperties, EmptySeq
<1>2. ASSUME NEW x \in Range(s) PROVE x \in {Head(s)} \cup Range(Tail(s))
  <2>1. PICK i \in 1..Len(s) : s[i] = x
    BY <1>1, <1>2 DEF Range
  <2>2. CASE i = 1
    BY <1>1, <2>1, <2>2
  <2>3. CASE i # 1
    <3>1. i - 1 \in 1..(Len(s) - 1) /\ Tail(s)[i - 1] = x
      BY <1>1, <2>1, <2>3
    <3>2. QED
      BY <1>1, <3>1 DEF Range
  <2>4. QED
    BY <2>2, <2>3
<1>3. ASSUME NEW x \in Range(Tail(s)) PROVE x \in Range(s)
  <2>1. PICK i \in 1..(Len(s) - 1) : Tail(s)[i] = x
    BY <1>1, <1>3 DEF Range
  <2>2. i + 1 \in 1..Len(s) /\ s[i + 1] = x
    BY <1>1, <2>1
  <2>3. QED
    BY <1>1, <2>2 DEF Range
<1>4. Head(s) \in Range(s)
  BY <1>1 DEF Range
<1>5. QED
  BY <1>2, <1>3, <1>4

LEMMA RangeEmpty == Range(<<>>) = {}
BY DEF Range

LEMMA RangeType ==
  ASSUME NEW T, NEW s \in Seq(T)
  PROVE  /\ Range(s) \in SUBSET T
         /\ IsFiniteSet(Range(s))
         /\ Cardinality(Range(s)) \in Nat
         /\ Cardinality(Range(s)) <= Len(s)
<1>1. /\ Len(s) \in Nat
      /\ DOMAIN s = 1..Len(s)
      /\ \A i \in 1..Len(s) : s[i] \in T
  BY ElementOfSeq, LenProperties
<1>2. Range(s) \in SUBSET T
  BY <1>1 DEF Range
<1>3. s \in Surjection(1..Len(s), Range(s))
  <2>1. s \in [1..Len(s) -> Range(s)]
    BY <1>1 DEF Range
  <2>2. \A x \in Range(s) : \E i \in 1..Len(s) : s[i] = x
    BY <1>1 DEF Range
  <2>3. QED
    BY <2>1, <2>2 DEF Surjection
<1>4. IsFiniteSet(1..Len(s)) /\ Cardinality(1..Len(s)) = Len(s)
  <2>1. 1 \in Int /\ Len(s) \in Int /\ Len(s) >= 0
    BY <1>1
  <2>2. /\ IsFiniteSet(1..Len(s))
        /\ Cardinality(1..Len(s)) = IF 1 > Len(s) THEN 0 ELSE Len(s) - 1 + 1
    BY <2>1, FS_Interval
  <2>3. QED
    BY <1>1, <2>2
<1>5. IsFiniteSet(Range(s)) /\ Cardinality(Range(s)) <= Len(s)
  BY <1>3, <1>4, FS_Surjection
<1>6. QED
  BY <1>2, <1>5, FS_CardinalityType

\* An element that is appended to a sequence that has it is one more
\* repetition.
LEMMA RepeatsAppend ==
  ASSUME NEW T, NEW s \in Seq(T), NEW e \in T
  PROVE  Len(Append(s, e)) - Cardinality(Range(Append(s, e))) =
            Len(s) - Cardinality(Range(s)) + IF e \in Range(s) THEN 1 ELSE 0
<1>1. Len(Append(s, e)) = Len(s) + 1 /\ Len(s) \in Nat
  BY AppendProperties
<1>2. Range(Append(s, e)) = Range(s) \cup {e}
  BY RangeAppend
<1>3. IsFiniteSet(Range(s)) /\ Cardinality(Range(s)) \in Nat
  BY RangeType
<1>4. Cardinality(Range(s) \cup {e}) =
         IF e \in Range(s) THEN Cardinality(Range(s)) ELSE Cardinality(Range(s)) + 1
  BY <1>3, FS_AddElement
<1>5. QED
  BY <1>1, <1>2, <1>3, <1>4

\* No element of s is repeated.
NoRepeats(s) == \A i, j \in 1..Len(s) : s[i] = s[j] => i = j

LEMMA AppendNoRepeats ==
  ASSUME NEW T, NEW s \in Seq(T), NEW e \in T, NoRepeats(s), e \notin Range(s)
  PROVE  NoRepeats(Append(s, e))
<1>1. /\ Len(Append(s, e)) = Len(s) + 1
      /\ \A i \in 1..Len(s) : Append(s, e)[i] = s[i]
      /\ Append(s, e)[Len(s) + 1] = e
      /\ Len(s) \in Nat
      /\ DOMAIN s = 1..Len(s)
  BY AppendProperties
<1>2. \A i : i \in 1..(Len(s) + 1) <=> i \in 1..Len(s) \/ i = Len(s) + 1
  BY <1>1
<1>3. \A i \in 1..Len(s) : s[i] # e
  BY <1>1 DEF Range
<1>4. QED
  BY <1>1, <1>2, <1>3 DEF NoRepeats

LEMMA TailNoRepeats ==
  ASSUME NEW T, NEW s \in Seq(T), s # <<>>, NoRepeats(s)
  PROVE  NoRepeats(Tail(s)) /\ Head(s) \notin Range(Tail(s))
<1>1. /\ Len(s) \in Nat /\ Len(s) >= 1
      /\ Head(s) = s[1]
      /\ Len(Tail(s)) = Len(s) - 1
      /\ DOMAIN Tail(s) = 1..(Len(s) - 1)
      /\ \A i \in 1..(Len(s) - 1) : Tail(s)[i] = s[i + 1]
  BY HeadTailProperties, EmptySeq
<1>2. \A i \in 1..(Len(s) - 1) : i + 1 \in 1..Len(s) /\ i + 1 # 1
  BY <1>1
<1>3. 1 \in 1..Len(s)
  BY <1>1
<1>4. NoRepeats(Tail(s))
  <2>1. SUFFICES ASSUME NEW i \in 1..(Len(s) - 1), NEW j \in 1..(Len(s) - 1),
                        s[i + 1] = s[j + 1]
                 PROVE  i = j
    BY <1>1 DEF NoRepeats
  <2>2. i + 1 = j + 1
    BY <1>2, <2>1 DEF NoRepeats
  <2>3. QED
    BY <1>1, <2>2
<1>5. Head(s) \notin Range(Tail(s))
  <2>1. SUFFICES ASSUME NEW i \in 1..(Len(s) - 1), Tail(s)[i] = Head(s)
                 PROVE  FALSE
    BY <1>1 DEF Range
  <2>2. s[i + 1] = s[1]
    BY <1>1, <2>1
  <2>3. QED
    BY <1>2, <1>3, <2>2 DEF NoRepeats
<1>6. QED
  BY <1>4, <1>5

-----------------------------------------------------------------------------
(* How often an element is in a sequence of sequences *)

\* Where x is in the sequences of ss.
Spots(ss, x) == UNION {{<<i, j>> : j \in Positions(ss[i], x)} : i \in 1..Len(ss)}

LEMMA SpotsAre ==
  ASSUME NEW ss, NEW x, NEW p
  PROVE  p \in Spots(ss, x) <=> \E i \in 1..Len(ss) : \E j \in Positions(ss[i], x) : p = <<i, j>>
BY DEF Spots

\* Sets of which one is the image of the other, one to one, are of a size.
LEMMA SameSize ==
  ASSUME NEW S, NEW T, IsFiniteSet(S), NEW f \in [S -> T],
         \A a, b \in S : f[a] = f[b] => a = b,
         \A t \in T : \E a \in S : f[a] = t
  PROVE  IsFiniteSet(T) /\ Cardinality(T) = Cardinality(S)
<1>1. f \in Bijection(S, T)
  BY DEF Bijection, Injection, IsInjective, Surjection
<1>2. QED
  BY <1>1, FS_Bijection DEF ExistsBijection

\* Without its first element a sequence has it one time less.
LEMMA PositionsTail ==
  ASSUME NEW T, NEW s \in Seq(T), s # <<>>, NEW x
  PROVE  Cardinality(Positions(s, x)) =
            Cardinality(Positions(Tail(s), x)) + IF x = Head(s) THEN 1 ELSE 0
<1> DEFINE P == Positions(Tail(s), x)
           Q == {i \in Positions(s, x) : i # 1}
           f == [i \in P |-> i + 1]
<1>1. /\ Len(s) \in Nat /\ Len(s) >= 1
      /\ Head(s) = s[1]
      /\ Len(Tail(s)) = Len(s) - 1
      /\ \A i \in 1..(Len(s) - 1) : Tail(s)[i] = s[i + 1]
      /\ Tail(s) \in Seq(T)
  BY HeadTailProperties, EmptySeq
<1>2. IsFiniteSet(P) /\ Cardinality(P) \in Nat
  BY <1>1, PositionsAreFinite
<1>3. P \subseteq Nat /\ \A i \in P : i + 1 \in Q
  <2>1. ASSUME NEW i \in P PROVE i \in Nat /\ i + 1 \in Q
    <3>1. i \in 1..(Len(s) - 1) /\ Tail(s)[i] = x
      BY <1>1, <2>1 DEF Positions
    <3>2. i \in Nat /\ i + 1 \in 1..Len(s) /\ i + 1 # 1
      BY <1>1, <3>1
    <3>3. s[i + 1] = x
      BY <1>1, <3>1
    <3>4. QED
      BY <3>2, <3>3 DEF Positions
  <2>2. QED
    BY <2>1
<1>4. ASSUME NEW q \in Q PROVE q - 1 \in P /\ q = (q - 1) + 1
  <2>1. q \in 1..Len(s) /\ s[q] = x /\ q # 1
    BY <1>4 DEF Positions
  <2>2. q - 1 \in 1..(Len(s) - 1) /\ q = (q - 1) + 1
    BY <1>1, <2>1
  <2>3. Tail(s)[q - 1] = x
    BY <1>1, <2>1, <2>2
  <2>4. QED
    BY <1>1, <2>2, <2>3 DEF Positions
<1>5. IsFiniteSet(Q) /\ Cardinality(Q) = Cardinality(P)
  <2>1. f \in [P -> Q]
    BY <1>3
  <2>2. \A a, b \in P : f[a] = f[b] => a = b
    BY <1>3
  <2>3. \A q \in Q : \E a \in P : f[a] = q
    BY <1>4
  <2>4. QED
    BY <1>2, <2>1, <2>2, <2>3, SameSize
<1>6. CASE x = Head(s)
  <2>1. Positions(s, x) = Q \cup {1} /\ 1 \notin Q
    BY <1>1, <1>6 DEF Positions
  <2>2. Cardinality(Q \cup {1}) = Cardinality(Q) + 1
    BY <1>5, <2>1, FS_AddElement
  <2>3. QED
    BY <1>5, <1>6, <2>1, <2>2
<1>7. CASE x # Head(s)
  <2>1. Positions(s, x) = Q
    BY <1>1, <1>7 DEF Positions
  <2>2. Cardinality(Positions(s, x)) = Cardinality(P)
    BY <1>5, <2>1
  <2>3. QED
    BY <1>2, <1>7, <2>2
<1>8. QED
  BY <1>6, <1>7

LEMMA PositionsEmpty ==
  ASSUME NEW x
  PROVE  Cardinality(Positions(<<>>, x)) = 0
<1>1. Positions(<<>>, x) = {}
  BY DEF Positions
<1>2. QED
  BY <1>1, FS_EmptySet

LEMMA SpotsEmpty ==
  ASSUME NEW x
  PROVE  IsFiniteSet(Spots(<<>>, x)) /\ Cardinality(Spots(<<>>, x)) = 0
<1>1. Spots(<<>>, x) = {}
  BY DEF Spots
<1>2. QED
  BY <1>1, FS_EmptySet

\* The places of x in a sequence of sequences are finitely many.
LEMMA SpotsAreFinite ==
  ASSUME NEW T, NEW ss \in Seq(Seq(T)), NEW x
  PROVE  IsFiniteSet(Spots(ss, x)) /\ Cardinality(Spots(ss, x)) \in Nat
<1> DEFINE row == [i \in 1..Len(ss) |-> {<<i, j>> : j \in Positions(ss[i], x)}]
           rows == {row[i] : i \in 1..Len(ss)}
<1>1. Len(ss) \in Nat /\ \A i \in 1..Len(ss) : ss[i] \in Seq(T)
  BY ElementOfSeq, LenProperties
<1>2. IsFiniteSet(1..Len(ss))
  BY <1>1, FS_Interval
<1>3. row \in Surjection(1..Len(ss), rows)
  BY DEF Surjection
<1>4. IsFiniteSet(rows)
  <2> HIDE DEF row, rows
  <2>1. QED
    BY <1>2, <1>3, FS_Surjection
<1>5. ASSUME NEW i \in 1..Len(ss) PROVE IsFiniteSet(row[i])
  <2> DEFINE P == Positions(ss[i], x)
             f == [j \in P |-> <<i, j>>]
  <2>1. IsFiniteSet(P)
    BY <1>1, PositionsAreFinite
  <2>2. f \in Surjection(P, row[i])
    BY DEF Surjection
  <2> HIDE DEF row, P, f
  <2>3. QED
    BY <2>1, <2>2, FS_Surjection
<1>6. Spots(ss, x) = UNION rows
  BY DEF Spots
<1>7. IsFiniteSet(UNION rows)
  BY <1>4, <1>5, FS_UNION
<1>8. QED
  BY <1>6, <1>7, FS_CardinalityType

\* Two sets that differ in x at most.
LEMMA SizeButOne ==
  ASSUME NEW H, NEW G, NEW x, IsFiniteSet(H), H \ {x} = G \ {x}
  PROVE  /\ IsFiniteSet(G) /\ Cardinality(G) \in Nat /\ Cardinality(H) \in Nat
         /\ x \in H /\ x \notin G => Cardinality(H) = Cardinality(G) + 1
         /\ x \notin H /\ x \in G => Cardinality(G) = Cardinality(H) + 1
         /\ (x \in H <=> x \in G) => Cardinality(G) = Cardinality(H)
<1>1. IsFiniteSet(H \ {x})
  BY FS_Subset
<1>2. H = H \ {x} \/ H = (H \ {x}) \cup {x}
  OBVIOUS
<1>3. G = H \ {x} \/ G = (H \ {x}) \cup {x}
  OBVIOUS
<1>4. IsFiniteSet(G)
  BY <1>1, <1>3, FS_AddElement
<1>5. Cardinality(G) \in Nat /\ Cardinality(H) \in Nat
  BY <1>4, FS_CardinalityType
<1>6. x \in H /\ x \notin G => Cardinality(H) = Cardinality(G) + 1
  <2>1. SUFFICES ASSUME x \in H, x \notin G PROVE Cardinality(H) = Cardinality(G) + 1
    OBVIOUS
  <2>2. H = G \cup {x}
    BY <2>1
  <2>3. QED
    BY <1>4, <2>1, <2>2, FS_AddElement
<1>7. x \notin H /\ x \in G => Cardinality(G) = Cardinality(H) + 1
  <2>1. SUFFICES ASSUME x \notin H, x \in G PROVE Cardinality(G) = Cardinality(H) + 1
    OBVIOUS
  <2>2. G = H \cup {x}
    BY <2>1
  <2>3. QED
    BY <2>1, <2>2, FS_AddElement
<1>8. (x \in H <=> x \in G) => G = H
  OBVIOUS
<1>9. QED
  BY <1>4, <1>5, <1>6, <1>7, <1>8

\* A sequence of sequences that gets one more.
LEMMA SpotsAppend ==
  ASSUME NEW T, NEW ss \in Seq(Seq(T)), NEW s \in Seq(T), NEW x,
         IsFiniteSet(Spots(ss, x))
  PROVE  /\ IsFiniteSet(Spots(Append(ss, s), x))
         /\ Cardinality(Spots(Append(ss, s), x)) =
               Cardinality(Spots(ss, x)) + Cardinality(Positions(s, x))
<1> DEFINE n == Len(ss) + 1
           P == Positions(s, x)
           N == {<<n, j>> : j \in P}
           f == [j \in P |-> <<n, j>>]
<1>1. /\ Len(Append(ss, s)) = n
      /\ \A i \in 1..Len(ss) : Append(ss, s)[i] = ss[i]
      /\ Append(ss, s)[n] = s
      /\ Len(ss) \in Nat
  BY AppendProperties
<1>2. (\A i : i \in 1..n <=> i \in 1..Len(ss) \/ i = n) /\ n \notin 1..Len(ss)
  BY <1>1
<1>3. IsFiniteSet(P) /\ Cardinality(P) \in Nat
  BY PositionsAreFinite
<1>4. IsFiniteSet(N) /\ Cardinality(N) = Cardinality(P)
  <2>1. f \in [P -> N]
    OBVIOUS
  <2>2. \A a, b \in P : f[a] = f[b] => a = b
    OBVIOUS
  <2>3. \A t \in N : \E a \in P : f[a] = t
    OBVIOUS
  <2>4. QED
    BY ONLY <1>3, <2>1, <2>2, <2>3, SameSize
<1> HIDE DEF n
<1>5. Spots(Append(ss, s), x) = Spots(ss, x) \cup N
  BY <1>1, <1>2 DEF Spots
<1>6. Spots(ss, x) \cap N = {}
  BY <1>2 DEF Spots
<1>7. Cardinality({}) = 0
  BY FS_EmptySet
<1>8. Cardinality(Spots(ss, x)) \in Nat
  BY FS_CardinalityType
<1> HIDE DEF N
<1>9. /\ IsFiniteSet(Spots(ss, x) \cup N)
      /\ Cardinality(Spots(ss, x) \cup N) =
            Cardinality(Spots(ss, x)) + Cardinality(N) - Cardinality(Spots(ss, x) \cap N)
  BY <1>4, FS_Union
<1>10. Cardinality(Spots(ss, x) \cap N) = 0
  BY <1>6, <1>7
<1>11. Cardinality(Spots(ss, x) \cup N) = Cardinality(Spots(ss, x)) + Cardinality(P)
  BY <1>3, <1>4, <1>8, <1>9, <1>10
<1>12. QED
  BY <1>5, <1>9, <1>11

\* A sequence of sequences that loses its first one.
LEMMA SpotsTail ==
  ASSUME NEW T, NEW ss \in Seq(Seq(T)), ss # <<>>, NEW x,
         IsFiniteSet(Spots(ss, x))
  PROVE  /\ IsFiniteSet(Spots(Tail(ss), x))
         /\ Cardinality(Spots(ss, x)) =
               Cardinality(Positions(Head(ss), x)) + Cardinality(Spots(Tail(ss), x))
<1> DEFINE P == Positions(Head(ss), x)
           N == {<<1, j>> : j \in P}
           f == [j \in P |-> <<1, j>>]
           R == {p \in Spots(ss, x) : p[1] # 1}
           S == Spots(Tail(ss), x)
           g == [p \in R |-> <<p[1] - 1, p[2]>>]
<1>1. /\ Len(ss) \in Nat /\ Len(ss) >= 1
      /\ Head(ss) = ss[1] /\ Head(ss) \in Seq(T)
      /\ Len(Tail(ss)) = Len(ss) - 1
      /\ \A i \in 1..(Len(ss) - 1) : Tail(ss)[i] = ss[i + 1]
  BY HeadTailProperties, EmptySeq
<1>2. IsFiniteSet(P) /\ Cardinality(P) \in Nat
  BY <1>1, PositionsAreFinite
<1>3. IsFiniteSet(N) /\ Cardinality(N) = Cardinality(P)
  <2>1. f \in [P -> N]
    OBVIOUS
  <2>2. \A a, b \in P : f[a] = f[b] => a = b
    OBVIOUS
  <2>3. \A t \in N : \E a \in P : f[a] = t
    OBVIOUS
  <2>4. QED
    BY ONLY <1>2, <2>1, <2>2, <2>3, SameSize
<1>4. ASSUME NEW p \in R
      PROVE  /\ p[1] \in 1..Len(ss) /\ p[1] # 1 /\ p[2] \in Positions(ss[p[1]], x)
             /\ p = <<p[1], p[2]>>
             /\ <<p[1] - 1, p[2]>> \in S
  <2>0. PICK i \in 1..Len(ss) : \E j \in Positions(ss[i], x) : p = <<i, j>>
    BY <1>4, SpotsAre
  <2>1. PICK j \in Positions(ss[i], x) : p = <<i, j>>
    BY <2>0
  <2>2. i # 1
    BY <1>4, <2>1
  <2>3. i - 1 \in 1..(Len(ss) - 1) /\ (i - 1) + 1 = i
    BY <1>1, <2>1, <2>2
  <2>4. Tail(ss)[i - 1] = ss[i]
    BY <1>1, <2>3
  <2>5. <<i - 1, j>> \in S
    BY <1>1, <2>3, <2>4, SpotsAre
  <2>6. QED
    BY <2>1, <2>2, <2>5
<1>5. ASSUME NEW q \in S PROVE \E p \in R : g[p] = q
  <2> DEFINE t == Tail(ss)
  <2>a. 1..Len(t) = 1..(Len(ss) - 1)
    BY <1>1
  <2> HIDE DEF t
  <2>b. q \in Spots(t, x)
    BY <1>5 DEF t
  <2>c. PICK i \in 1..Len(t) : \E j \in Positions(t[i], x) : q = <<i, j>>
    BY <2>b, SpotsAre
  <2>0. i \in 1..(Len(ss) - 1) /\ \E j \in Positions(Tail(ss)[i], x) : q = <<i, j>>
    BY <2>a, <2>c DEF t
  <2>1. PICK j \in Positions(Tail(ss)[i], x) : q = <<i, j>>
    BY <2>0
  <2>2. i + 1 \in 1..Len(ss) /\ i + 1 # 1 /\ (i + 1) - 1 = i
    BY <1>1, <2>0
  <2>3. Tail(ss)[i] = ss[i + 1]
    BY <1>1, <2>0
  <2>4. <<i + 1, j>> \in Spots(ss, x)
    BY <2>1, <2>2, <2>3, SpotsAre
  <2>5. <<i + 1, j>> \in R
    BY <2>2, <2>4
  <2>6. g[<<i + 1, j>>] = <<i, j>>
    BY <2>2, <2>5
  <2>7. QED
    BY <2>1, <2>5, <2>6
<1>6. IsFiniteSet(R)
  BY FS_Subset
<1>7. IsFiniteSet(S) /\ Cardinality(S) = Cardinality(R)
  <2>1. g \in [R -> S]
    BY <1>4
  <2>2. ASSUME NEW a \in R, NEW b \in R, g[a] = g[b] PROVE a = b
    <3>1. a[1] - 1 = b[1] - 1 /\ a[2] = b[2]
      BY <2>2
    <3>2. a[1] \in 1..Len(ss) /\ b[1] \in 1..Len(ss)
      BY <1>4
    <3>3. a[1] = b[1]
      BY <1>1, <3>1, <3>2
    <3>4. QED
      BY <1>4, <3>1, <3>3
  <2>3. \A q \in S : \E p \in R : g[p] = q
    BY <1>5
  <2> HIDE DEF g, R, S
  <2>4. QED
    BY <1>6, <2>1, <2>2, <2>3, SameSize
<1>8. Spots(ss, x) = N \cup R
  <2>1. ASSUME NEW p \in Spots(ss, x) PROVE p \in N \cup R
    <3>0. PICK i \in 1..Len(ss) : \E j \in Positions(ss[i], x) : p = <<i, j>>
      BY <2>1, SpotsAre
    <3>1. PICK j \in Positions(ss[i], x) : p = <<i, j>>
      BY <3>0
    <3>2. CASE i = 1
      BY <1>1, <3>1, <3>2
    <3>3. CASE i # 1
      BY <3>1, <3>3
    <3>4. QED
      BY <3>2, <3>3
  <2>2. ASSUME NEW p \in N PROVE p \in Spots(ss, x)
    <3>1. 1 \in 1..Len(ss)
      BY <1>1
    <3>2. QED
      BY <1>1, <2>2, <3>1, SpotsAre
  <2>3. QED
    BY <2>1, <2>2
<1>9. N \cap R = {}
  OBVIOUS
<1>10. Cardinality({}) = 0
  BY FS_EmptySet
<1>11. Cardinality(R) \in Nat
  BY <1>6, FS_CardinalityType
<1> HIDE DEF N, R, S, P
<1>12. Cardinality(N \cup R) = Cardinality(N) + Cardinality(R) - Cardinality(N \cap R)
  BY <1>3, <1>6, FS_Union
<1>13. Cardinality(N \cap R) = 0
  BY <1>9, <1>10
<1>14. Cardinality(N \cup R) = Cardinality(P) + Cardinality(S)
  BY <1>2, <1>3, <1>7, <1>11, <1>12, <1>13
<1>15. QED
  BY <1>7, <1>8, <1>14 DEF P, S

-----------------------------------------------------------------------------
(* Division, and sets in increasing order *)

LEMMA Division ==
  ASSUME NEW k \in Nat, NEW B \in Nat \ {0}
  PROVE  k \div B \in Nat /\ k % B \in 0..(B - 1) /\ k = (k \div B) * B + (k % B)
OBVIOUS

LEMMA Multiples ==
  ASSUME NEW a \in Nat, NEW b \in Nat, NEW B \in Nat, a < b
  PROVE  a * B \in Nat /\ b * B \in Nat /\ a * B + B <= b * B
<1>1. a * B + B <= b * B
  <2>1. b - a - 1 \in Nat /\ b = a + 1 + (b - a - 1)
    OBVIOUS
  <2>2. \A d \in Nat : (a + 1 + d) * B = a * B + B + d * B /\ d * B \in Nat /\ a * B \in Nat
    OBVIOUS
  <2>3. b * B = a * B + B + (b - a - 1) * B
    BY <2>1, <2>2
  <2>4. (b - a - 1) * B \in Nat /\ a * B \in Nat
    BY <2>1, <2>2
  <2>5. QED
    BY <2>3, <2>4
<1>2. a * B \in Nat /\ b * B \in Nat
  OBVIOUS
<1>3. QED
  BY <1>1, <1>2

\* Places in consecutive groups of B are different.
LEMMA GroupsAreApart ==
  ASSUME NEW a \in Nat, NEW b \in Nat, NEW B \in Nat,
         NEW r \in 1..B, NEW t \in 1..B, a * B + r = b * B + t
  PROVE  a = b /\ r = t
<1>1. ~(a < b)
  <2>1. SUFFICES ASSUME a < b PROVE FALSE
    OBVIOUS
  <2>2. a * B \in Nat /\ b * B \in Nat /\ a * B + B <= b * B
    BY <2>1, Multiples
  <2>3. QED
    BY <2>2
<1>2. ~(b < a)
  <2>1. SUFFICES ASSUME b < a PROVE FALSE
    OBVIOUS
  <2>2. a * B \in Nat /\ b * B \in Nat /\ b * B + B <= a * B
    BY <2>1, Multiples
  <2>3. QED
    BY <2>2
<1>3. a = b
  BY <1>1, <1>2
<1>4. a * B \in Nat
  OBVIOUS
<1>5. QED
  BY <1>3, <1>4

Increasing(s, n) == \A i, j \in 1..n : i < j => s[i] < s[j]

\* Every set of numbers up to n can be put in increasing order.
LEMMA OrderExists ==
  ASSUME NEW n \in Nat
  PROVE  \A S \in SUBSET (1..n) :
            /\ IsFiniteSet(S) /\ Cardinality(S) \in Nat
            /\ \E s \in [1..Cardinality(S) -> S] : Increasing(s, Cardinality(S))
<1> DEFINE Ordered(S) == \E s \in [1..Cardinality(S) -> S] : Increasing(s, Cardinality(S))
           Bad == {k \in Nat : \E S \in SUBSET (1..k) : ~Ordered(S)}
<1>1. ASSUME NEW k \in Nat, NEW S \in SUBSET (1..k)
      PROVE  IsFiniteSet(S) /\ Cardinality(S) \in Nat
  <2>1. IsFiniteSet(1..k)
    BY FS_Interval
  <2>2. IsFiniteSet(S)
    BY <2>1, FS_Subset
  <2>3. QED
    BY <2>2, FS_CardinalityType
<1>2. SUFFICES Bad = {}
  BY <1>1
<1>3. SUFFICES ASSUME Bad # {} PROVE FALSE
  OBVIOUS
<1>4. PICK k \in Bad : \A j \in Bad : k <= j
  BY <1>3, LeastOfNaturals
<1>5. PICK S \in SUBSET (1..k) : ~Ordered(S)
  BY <1>4
<1>6. k \in Nat
  BY <1>4
<1>7. k # 0
  <2>1. SUFFICES ASSUME k = 0 PROVE FALSE
    OBVIOUS
  <2>2. S = {}
    BY <1>5, <2>1
  <2>3. Cardinality(S) = 0
    BY <2>2, FS_EmptySet
  <2>4. 1..Cardinality(S) = {}
    BY <2>3
  <2>5. [i \in 1..Cardinality(S) |-> i] \in [1..Cardinality(S) -> S]
    BY <2>4
  <2>6. Increasing([i \in 1..Cardinality(S) |-> i], Cardinality(S))
    BY <2>4 DEF Increasing
  <2>7. QED
    BY <1>5, <2>5, <2>6
<1>8. k - 1 \in Nat /\ ~(k <= k - 1)
  BY <1>6, <1>7
<1>9. \A U \in SUBSET (1..(k - 1)) : Ordered(U)
  BY <1>4, <1>8
<1>10. k \in S
  <2>1. SUFFICES ASSUME k \notin S PROVE FALSE
    OBVIOUS
  <2>2. S \in SUBSET (1..(k - 1))
    BY <1>5, <1>6, <2>1
  <2>3. QED
    BY <1>5, <1>9, <2>2
<1> DEFINE U == S \ {k}
           c == Cardinality(U)
<1>11. U \in SUBSET (1..(k - 1))
  BY <1>5, <1>6
<1>12. IsFiniteSet(S) /\ Cardinality(S) \in Nat
  BY <1>1, <1>5, <1>6
<1>13. IsFiniteSet(U) /\ c \in Nat
  BY <1>1, <1>8, <1>11
<1>14. Cardinality(S) = c + 1
  <2>1. Cardinality(U) = Cardinality(S) - 1
    BY <1>10, <1>12, FS_RemoveElement
  <2>2. QED
    BY <1>12, <1>13, <2>1
<1>15. PICK t \in [1..c -> U] : Increasing(t, c)
  BY <1>9, <1>11
<1> DEFINE s == [i \in 1..(c + 1) |-> IF i = c + 1 THEN k ELSE t[i]]
<1> HIDE DEF c
<1>16. \A i : i \in 1..(c + 1) <=> i \in 1..c \/ i = c + 1
  BY <1>13
<1>17. \A i \in 1..c : i # c + 1 /\ s[i] = t[i] /\ t[i] \in U /\ t[i] < k
  <2>1. ASSUME NEW i \in 1..c PROVE i # c + 1 /\ s[i] = t[i]
    BY <1>13, <1>16
  <2>2. ASSUME NEW i \in 1..c PROVE t[i] \in U
    OBVIOUS
  <2>3. \A u \in U : u < k
    BY <1>6, <1>11
  <2>4. QED
    BY <2>1, <2>2, <2>3
<1>18. s[c + 1] = k
  BY <1>16
<1>19. s \in [1..(c + 1) -> S]
  BY <1>10, <1>16, <1>17, <1>18
<1>20. Increasing(s, c + 1)
  <2>1. SUFFICES ASSUME NEW i \in 1..(c + 1), NEW j \in 1..(c + 1), i < j PROVE s[i] < s[j]
    BY DEF Increasing
  <2>2. i \in 1..c
    BY <1>13, <2>1
  <2>3. CASE j = c + 1
    BY <1>17, <1>18, <2>2, <2>3
  <2>4. CASE j # c + 1
    <3>1. j \in 1..c
      BY <1>16, <2>4
    <3>2. t[i] < t[j]
      BY <1>15, <2>1, <2>2, <3>1 DEF Increasing
    <3>3. QED
      BY <1>17, <2>2, <3>1, <3>2
  <2>5. QED
    BY <2>3, <2>4
<1>21. Ordered(S)
  BY <1>14, <1>19, <1>20
<1>22. QED
  BY <1>5, <1>21

\* An increasing sequence as long as a set of numbers has each of them once.
LEMMA OrderIsComplete ==
  ASSUME NEW n \in Nat, NEW S \in SUBSET (1..n), NEW s \in [1..Cardinality(S) -> S],
         Increasing(s, Cardinality(S))
  PROVE  /\ s \in Seq(S) /\ Len(s) = Cardinality(S) /\ Len(s) \in Nat
         /\ \A i \in 1..Len(s) : s[i] \in S
         /\ NoRepeats(s)
         /\ \A x \in S : \E i \in 1..Len(s) : s[i] = x
<1> DEFINE c == Cardinality(S)
<1>1. IsFiniteSet(S) /\ c \in Nat
  BY OrderExists
<1>2. s \in Seq(S) /\ Len(s) = c
  <2>1. s \in [1..c -> S]
    OBVIOUS
  <2> HIDE DEF c
  <2>2. QED
    BY <1>1, <2>1
<1>3. \A i, j \in 1..c : s[i] = s[j] => i = j
  <2>1. SUFFICES ASSUME NEW i \in 1..c, NEW j \in 1..c, s[i] = s[j], i # j PROVE FALSE
    OBVIOUS
  <2>2. s[i] \in S /\ s[j] \in S
    OBVIOUS
  <2>7. S \subseteq Nat
    OBVIOUS
  <2>6. s[i] \in Nat /\ s[j] \in Nat
    BY ONLY <2>2, <2>7
  <2>3. i < j \/ j < i
    BY <1>1, <2>1
  <2>4. s[i] < s[j] \/ s[j] < s[i]
    BY <2>3 DEF Increasing
  <2>5. QED
    BY <2>1, <2>4, <2>6
<1>4. s \in Injection(1..c, S)
  BY <1>3 DEF Injection, IsInjective
<1>5. Cardinality(1..c) = c /\ IsFiniteSet(1..c)
  <2>1. 1 \in Int /\ c \in Int /\ c >= 0
    BY <1>1
  <2>2. IsFiniteSet(1..c) /\ Cardinality(1..c) = IF 1 > c THEN 0 ELSE c - 1 + 1
    BY <2>1, FS_Interval
  <2>3. QED
    BY <1>1, <2>2
<1>6. s \in Surjection(1..c, S)
  BY <1>1, <1>4, <1>5, FS_Injection
<1>7. \A x \in S : \E i \in 1..c : s[i] = x
  BY <1>6 DEF Surjection
<1>8. \A i \in 1..c : s[i] \in S
  OBVIOUS
<1> HIDE DEF c
<1>9. QED
  BY <1>1, <1>2, <1>3, <1>7, <1>8 DEF NoRepeats, c

\* N groups of B for n places: every group begins within them, and every
\* place is in a group.
Grouped(n, B, N) ==
    /\ N \in Nat
    /\ \A i \in 1..N : (i - 1) * B \in Nat /\ (i - 1) * B + B = i * B /\ (i - 1) * B < n
    /\ \A k \in 1..n : \E i \in 1..N : \E j \in 1..B : k = (i - 1) * B + j

LEMMA Groups ==
  ASSUME NEW n \in Nat, NEW B \in Nat \ {0}, NEW N, N = (n + B - 1) \div B
  PROVE  Grouped(n, B, N)
<1> DEFINE r == (n + B - 1) % B
<1>1. n + B - 1 \in Nat
  OBVIOUS
<1>2. N \in Nat /\ r \in 0..(B - 1) /\ n + B - 1 = N * B + r
  BY <1>1, Division
<1> HIDE DEF r
<1>3. N * B \in Nat
  BY <1>2
<1>4. ASSUME NEW i \in 1..N
      PROVE  (i - 1) * B \in Nat /\ (i - 1) * B + B = i * B /\ (i - 1) * B < n
  <2>1. i - 1 \in Nat /\ i - 1 < N /\ i = (i - 1) + 1
    BY <1>2
  <2>2. (i - 1) * B \in Nat /\ (i - 1) * B + B <= N * B
    BY <1>2, <2>1, Multiples
  <2>3. \A d \in Nat : (d + 1) * B = d * B + B
    OBVIOUS
  <2>4. i * B = (i - 1) * B + B
    BY <2>1, <2>3
  <2>5. (i - 1) * B < n
    BY <1>2, <1>3, <2>2
  <2>6. QED
    BY <2>2, <2>4, <2>5
<1>5. ASSUME NEW k \in 1..n
      PROVE  \E i \in 1..N : \E j \in 1..B : k = (i - 1) * B + j
  <2> DEFINE q == (k - 1) \div B
             t == (k - 1) % B
  <2>1. k - 1 \in Nat
    OBVIOUS
  <2>2. q \in Nat /\ t \in 0..(B - 1) /\ k - 1 = q * B + t
    BY <2>1, Division
  <2> HIDE DEF q, t
  <2>3. q < N
    <3>1. SUFFICES ASSUME ~(q < N) PROVE FALSE
      OBVIOUS
    <3>2. q * B \in Nat
      BY <2>2
    <3>3. N * B <= q * B
      <4>1. CASE N = q
        BY <3>2, <4>1
      <4>2. CASE N # q
        <5>1. N < q
          BY <1>2, <2>2, <3>1, <4>2
        <5>2. QED
          BY <1>2, <2>2, <5>1, Multiples
      <4>3. QED
        BY <4>1, <4>2
    <3>4. QED
      BY <1>2, <1>3, <2>2, <3>2, <3>3
  <2>4. q + 1 \in 1..N /\ t + 1 \in 1..B /\ (q + 1) - 1 = q
    BY <1>2, <2>2, <2>3
  <2>5. k = q * B + (t + 1)
    <3>1. q * B \in Nat
      BY <2>2
    <3>2. QED
      BY <2>2, <3>1
  <2>6. k = ((q + 1) - 1) * B + (t + 1)
    BY <2>4, <2>5
  <2>7. QED
    BY <2>4, <2>6
<1>6. QED
  BY <1>2, <1>4, <1>5 DEF Grouped
=============================================================================

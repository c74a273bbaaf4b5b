---------------------------- MODULE QueueLemmas -----------------------------
(***************************************************************************)
(* What the queue manipulations of the model do to the members of a queue  *)
(* without repetitions: Append (enqueue), Tail (dequeue) and RemoveAt (the *)
(* splice in removeWaiter and parker.remove); and the least and greatest   *)
(* element of a finite set of integers (MIN and MAX in the Job store).     *)
(***************************************************************************)
EXTENDS Integers, Sequences, SequencesExt, FiniteSets, SequenceTheorems, FiniteSetTheorems,
        WellFoundedInduction, TLAPS

\* The members of a sequence are its values at 1..Len.
LEMMA QueueMembers ==
  ASSUME NEW S, NEW q \in Seq(S)
  PROVE  /\ DOMAIN q = 1..Len(q)
         /\ Len(q) \in Nat
         /\ \A e : e \in Range(q) <=> \E i \in 1..Len(q) : q[i] = e
         /\ Range(q) \subseteq S
         /\ q = <<>> <=> Range(q) = {}
  <1>1. DOMAIN q = 1..Len(q) /\ Len(q) \in Nat /\ \A i \in 1..Len(q) : q[i] \in S
    OBVIOUS
  <1>2. \A e : e \in Range(q) <=> \E i \in 1..Len(q) : q[i] = e
    BY <1>1, Zenon DEF Range
  <1>3. Range(q) \subseteq S
    BY <1>1, <1>2
  <1>4. ASSUME q # <<>> PROVE Range(q) # {}
    <2>1. 1 \in 1..Len(q)
      BY <1>1, <1>4
    <2>2. q[1] \in Range(q)
      BY <2>1, <1>2
    <2> QED BY <2>2
  <1>5. ASSUME q = <<>> PROVE Range(q) = {}
    BY <1>2, <1>5
  <1> QED BY <1>1, <1>2, <1>3, <1>4, <1>5

\* Enqueueing a new element adds exactly that element and keeps the queue repetition-free.
LEMMA AppendQueue ==
  ASSUME NEW S, NEW q \in Seq(S), NEW e \in S, IsInjective(q), e \notin Range(q)
  PROVE  /\ Append(q, e) \in Seq(S)
         /\ Len(Append(q, e)) = Len(q) + 1
         /\ IsInjective(Append(q, e))
         /\ Range(Append(q, e)) = Range(q) \cup {e}
  <1> DEFINE p == Append(q, e)
  <1>1. p \in Seq(S) /\ Len(p) = Len(q) + 1
    OBVIOUS
  <1>2. /\ \A j \in 1..Len(q) : p[j] = q[j]
        /\ p[Len(q) + 1] = e
    OBVIOUS
  <1>3. /\ Len(q) \in Nat
        /\ DOMAIN q = 1..Len(q)
        /\ DOMAIN p = 1..Len(q) + 1
    BY <1>1
  <1> HIDE DEF p
  <1>4. \A x : x \in Range(p) <=> \E j \in 1..Len(q) + 1 : p[j] = x
    BY <1>1, QueueMembers
  <1>5. \A x : x \in Range(q) <=> \E j \in 1..Len(q) : q[j] = x
    BY QueueMembers
  <1>6. Range(p) = Range(q) \cup {e}
    BY <1>2, <1>3, <1>4, <1>5
  <1>7. IsInjective(p)
    BY <1>2, <1>3, <1>5 DEF IsInjective
  <1> QED BY <1>1, <1>6, <1>7 DEF p

\* Dequeueing removes exactly the head and keeps the queue repetition-free.
LEMMA TailQueue ==
  ASSUME NEW S, NEW q \in Seq(S), IsInjective(q), q # <<>>
  PROVE  /\ Tail(q) \in Seq(S)
         /\ Len(Tail(q)) = Len(q) - 1
         /\ IsInjective(Tail(q))
         /\ Head(q) = q[1]
         /\ Head(q) \in Range(q)
         /\ Range(Tail(q)) = Range(q) \ {Head(q)}
  <1> DEFINE p == Tail(q)
  <1>1. p \in Seq(S) /\ Len(p) = Len(q) - 1 /\ Len(q) \in Nat \ {0}
    OBVIOUS
  <1>2. Head(q) = q[1] /\ \A j \in 1..Len(q) - 1 : p[j] = q[j + 1]
    OBVIOUS
  <1>3. DOMAIN q = 1..Len(q) /\ DOMAIN p = 1..Len(q) - 1
    BY <1>1
  <1> HIDE DEF p
  <1>4. \A x : x \in Range(p) <=> \E j \in 1..Len(q) - 1 : p[j] = x
    BY <1>1, QueueMembers
  <1>5. \A x : x \in Range(q) <=> \E j \in 1..Len(q) : q[j] = x
    BY QueueMembers
  <1>6. q[1] \in Range(q)
    BY <1>1, <1>5
  <1>7. IsInjective(p)
    BY <1>1, <1>2, <1>3 DEF IsInjective
  <1>8. ASSUME NEW x \in Range(p) PROVE x \in Range(q) \ {q[1]}
    <2>1. PICK j \in 1..Len(q) - 1 : p[j] = x
      BY <1>4
    <2>2. q[j + 1] = x /\ j + 1 \in 1..Len(q) /\ 1 \in 1..Len(q) /\ j + 1 # 1
      BY <1>1, <1>2, <2>1
    <2> QED BY <1>3, <1>5, <2>2 DEF IsInjective
  <1>9. ASSUME NEW x \in Range(q) \ {q[1]} PROVE x \in Range(p)
    <2>1. PICK j \in 1..Len(q) : q[j] = x
      BY <1>5
    <2>2. j - 1 \in 1..Len(q) - 1 /\ p[j - 1] = x
      BY <1>1, <1>2, <1>9, <2>1
    <2> QED BY <1>4, <2>2
  <1>10. Range(p) = Range(q) \ {q[1]}
    BY <1>8, <1>9
  <1> QED BY <1>1, <1>2, <1>6, <1>7, <1>10 DEF p

\* The head and the tail of any queue, repetition-free or not, make up its members.
LEMMA TailMembers ==
  ASSUME NEW S, NEW q \in Seq(S), q # <<>>
  PROVE  /\ Tail(q) \in Seq(S)
         /\ Head(q) \in Range(q)
         /\ Range(q) = Range(Tail(q)) \cup {Head(q)}
  <1> DEFINE p == Tail(q)
  <1>1. p \in Seq(S) /\ Len(p) = Len(q) - 1 /\ Len(q) \in Nat \ {0}
    OBVIOUS
  <1>2. Head(q) = q[1] /\ \A j \in 1..Len(q) - 1 : p[j] = q[j + 1]
    OBVIOUS
  <1> HIDE DEF p
  <1>3. \A x : x \in Range(p) <=> \E j \in 1..Len(q) - 1 : p[j] = x
    BY <1>1, QueueMembers
  <1>4. \A x : x \in Range(q) <=> \E j \in 1..Len(q) : q[j] = x
    BY QueueMembers
  <1>5. q[1] \in Range(q)
    BY <1>1, <1>4
  <1>6. ASSUME NEW x \in Range(p) PROVE x \in Range(q)
    <2>1. PICK j \in 1..Len(q) - 1 : p[j] = x
      BY <1>3
    <2>2. q[j + 1] = x /\ j + 1 \in 1..Len(q)
      BY <1>1, <1>2, <2>1
    <2> QED BY <1>4, <2>2
  <1>7. ASSUME NEW x \in Range(q), x # q[1] PROVE x \in Range(p)
    <2>1. PICK j \in 1..Len(q) : q[j] = x
      BY <1>4
    <2>2. j - 1 \in 1..Len(q) - 1 /\ p[j - 1] = x
      BY <1>1, <1>2, <1>7, <2>1
    <2> QED BY <1>3, <2>2
  <1> QED BY <1>1, <1>2, <1>5, <1>6, <1>7 DEF p

\* Splicing position i out removes exactly that element, keeps the order of the others and
\* keeps the queue repetition-free.
LEMMA RemoveAtQueue ==
  ASSUME NEW S, NEW q \in Seq(S), IsInjective(q), NEW i \in 1..Len(q)
  PROVE  /\ RemoveAt(q, i) \in Seq(S)
         /\ Len(RemoveAt(q, i)) = Len(q) - 1
         /\ \A j \in 1..Len(q) - 1 :
              RemoveAt(q, i)[j] = IF j < i THEN q[j] ELSE q[j + 1]
         /\ IsInjective(RemoveAt(q, i))
         /\ Range(RemoveAt(q, i)) = Range(q) \ {q[i]}
  <1> DEFINE p == RemoveAt(q, i)
             l == SubSeq(q, 1, i - 1)
             r == SubSeq(q, i + 1, Len(q))
  <1>0. Len(q) \in Nat /\ DOMAIN q = 1..Len(q) /\ i \in Int /\ \A j \in 1..Len(q) : q[j] \in S
    OBVIOUS
  <1>1. /\ l \in Seq(S) /\ Len(l) = i - 1
        /\ \A j \in 1..i - 1 : l[j] = q[j]
    <2>1. \A j \in 1..i - 1 : q[j] \in S
      BY <1>0
    <2> QED BY <1>0, <2>1, SubSeqProperties
  <1>2. /\ r \in Seq(S) /\ Len(r) = Len(q) - i
        /\ \A j \in 1..Len(q) - i : r[j] = q[i + j]
    <2>1. \A j \in i + 1..Len(q) : q[j] \in S
      BY <1>0
    <2>2. /\ r \in Seq(S)
          /\ Len(r) = IF i + 1 <= Len(q) THEN Len(q) - (i + 1) + 1 ELSE 0
          /\ \A j \in 1..Len(q) - (i + 1) + 1 : r[j] = q[i + 1 + j - 1]
      BY <1>0, <2>1, SubSeqProperties
    <2> HIDE DEF r, l, p
    <2>3. Len(r) = Len(q) - i
      <3>1. CASE i + 1 <= Len(q)
        BY <1>0, <2>2, <3>1
      <3>2. CASE ~(i + 1 <= Len(q))
        <4>1. Len(r) = 0
          BY <2>2, <3>2, Zenon
        <4>2. i = Len(q)
          <5> DEFINE n == Len(q)
          <5>1. n \in Nat /\ i \in 1..n /\ ~(i + 1 <= n)
            BY <1>0, <3>2
          <5> HIDE DEF n
          <5>2. i = n
            BY <5>1
          <5> QED BY <5>2 DEF n
        <4> QED BY <1>0, <4>1, <4>2
      <3> QED BY <3>1, <3>2
    <2>4. ASSUME NEW j \in 1..Len(q) - i PROVE r[j] = q[i + j]
      <3>1. j \in 1..Len(q) - (i + 1) + 1 /\ i + 1 + j - 1 = i + j
        BY <1>0
      <3> QED BY <2>2, <3>1
    <2> QED BY <2>2, <2>3, <2>4
  <1>3. p = l \o r
    BY DEF RemoveAt
  <1> HIDE DEF p, l, r
  <1>4. /\ p \in Seq(S)
        /\ Len(p) = Len(q) - 1
        /\ \A j \in 1..Len(q) - 1 : p[j] = IF j <= i - 1 THEN l[j] ELSE r[j - (i - 1)]
    <2>1. /\ l \o r \in Seq(S)
          /\ Len(l \o r) = Len(l) + Len(r)
          /\ \A j \in 1..Len(l) + Len(r) :
               (l \o r)[j] = IF j <= Len(l) THEN l[j] ELSE r[j - Len(l)]
      BY <1>1, <1>2, ConcatProperties
    <2>2. Len(l) = i - 1 /\ Len(l) + Len(r) = Len(q) - 1
      BY <1>0, <1>1, <1>2
    <2> QED BY <1>3, <2>1, <2>2, Zenon
  <1>5. \A j \in 1..Len(q) - 1 : p[j] = IF j < i THEN q[j] ELSE q[j + 1]
    BY <1>0, <1>1, <1>2, <1>4
  <1>6. DOMAIN p = 1..Len(q) - 1
    BY <1>4
  <1>7. IsInjective(p)
    BY <1>0, <1>5, <1>6 DEF IsInjective
  <1>8. \A x : x \in Range(p) <=> \E j \in 1..Len(q) - 1 : p[j] = x
    BY <1>4, QueueMembers
  <1>9. \A x : x \in Range(q) <=> \E j \in 1..Len(q) : q[j] = x
    BY QueueMembers
  <1>10. ASSUME NEW x \in Range(p) PROVE x \in Range(q) \ {q[i]}
    <2>1. PICK j \in 1..Len(q) - 1 : p[j] = x
      BY <1>8
    <2>2. PICK k \in 1..Len(q) : k # i /\ q[k] = x
      BY <1>0, <1>5, <2>1
    <2> QED BY <1>0, <1>9, <2>2 DEF IsInjective
  <1>11. ASSUME NEW x \in Range(q) \ {q[i]} PROVE x \in Range(p)
    <2>1. PICK k \in 1..Len(q) : q[k] = x
      BY <1>9
    <2>2. CASE k < i
      <3>1. k \in 1..Len(q) - 1 /\ p[k] = x
        BY <1>0, <1>5, <2>1, <2>2
      <3> QED BY <1>8, <3>1
    <2>3. CASE k > i
      <3>1. k - 1 \in 1..Len(q) - 1 /\ p[k - 1] = x
        BY <1>0, <1>5, <2>1, <2>3
      <3> QED BY <1>8, <3>1
    <2>4. k # i
      BY <1>11, <2>1
    <2> QED BY <1>0, <2>1, <2>2, <2>3, <2>4
  <1>12. Range(p) = Range(q) \ {q[i]}
    BY <1>10, <1>11
  <1> QED BY <1>4, <1>5, <1>7, <1>12 DEF p

\* Cutting a queue after its first n elements (the splice of drainOneBurst) loses no element
\* and keeps the two parts apart.
LEMMA SplitQueue ==
  ASSUME NEW S, NEW q \in Seq(S), IsInjective(q), NEW n \in 0..Len(q)
  PROVE  LET f == SubSeq(q, 1, n)
             b == SubSeq(q, n + 1, Len(q))
         IN  /\ f \in Seq(S) /\ b \in Seq(S)
             /\ Len(b) = Len(q) - n
             /\ IsInjective(b)
             /\ Range(q) = Range(f) \cup Range(b)
             /\ \A j \in 1..Len(q) : q[j] \in Range(f) <=> j <= n
             /\ \A j \in 1..Len(q) : q[j] \in Range(b) <=> j > n
  <1> DEFINE f == SubSeq(q, 1, n)
             b == SubSeq(q, n + 1, Len(q))
  <1>0. /\ Len(q) \in Nat /\ DOMAIN q = 1..Len(q) /\ n \in Nat /\ n <= Len(q)
        /\ \A j \in 1..Len(q) : q[j] \in S
        /\ \A i, j \in 1..Len(q) : q[i] = q[j] => i = j
    BY DEF IsInjective
  <1>1. /\ f \in Seq(S) /\ Len(f) = n
        /\ \A j \in 1..n : f[j] = q[j]
    <2>1. \A j \in 1..n : q[j] \in S
      BY <1>0
    <2>2. /\ f \in Seq(S)
          /\ Len(f) = IF 1 <= n THEN n - 1 + 1 ELSE 0
          /\ \A j \in 1..n - 1 + 1 : f[j] = q[1 + j - 1]
      BY <1>0, <2>1, SubSeqProperties
    <2> HIDE DEF f
    <2>3. Len(f) = n
      BY <1>0, <2>2
    <2>4. ASSUME NEW j \in 1..n PROVE f[j] = q[j]
      <3>1. j \in 1..n - 1 + 1 /\ 1 + j - 1 = j
        BY <1>0
      <3> QED BY <2>2, <3>1
    <2> QED BY <2>2, <2>3, <2>4
  <1>2. /\ b \in Seq(S) /\ Len(b) = Len(q) - n
        /\ \A j \in 1..Len(q) - n : b[j] = q[n + j]
    <2>1. \A j \in n + 1..Len(q) : q[j] \in S
      BY <1>0
    <2>2. /\ b \in Seq(S)
          /\ Len(b) = IF n + 1 <= Len(q) THEN Len(q) - (n + 1) + 1 ELSE 0
          /\ \A j \in 1..Len(q) - (n + 1) + 1 : b[j] = q[n + 1 + j - 1]
      BY <1>0, <2>1, SubSeqProperties
    <2> DEFINE m == Len(q)
    <2>3. m \in Nat /\ n <= m /\ Len(b) = IF n + 1 <= m THEN m - (n + 1) + 1 ELSE 0
      BY <1>0, <2>2
    <2> HIDE DEF b, m
    <2>4. Len(b) = m - n
      BY <1>0, <2>3
    <2>5. ASSUME NEW j \in 1..Len(q) - n PROVE b[j] = q[n + j]
      <3>1. j \in 1..Len(q) - (n + 1) + 1 /\ n + 1 + j - 1 = n + j
        BY <1>0
      <3> QED BY <2>2, <3>1
    <2> QED BY <2>2, <2>4, <2>5 DEF m
  <1> HIDE DEF f, b
  <1>3. \A x : x \in Range(f) <=> \E j \in 1..n : f[j] = x
    BY <1>1, QueueMembers
  <1>4. \A x : x \in Range(b) <=> \E j \in 1..Len(q) - n : b[j] = x
    BY <1>2, QueueMembers
  <1>5. ASSUME NEW j \in 1..Len(q) PROVE q[j] \in Range(f) <=> j <= n
    BY <1>0, <1>1, <1>3
  <1>6. ASSUME NEW j \in 1..Len(q) PROVE q[j] \in Range(b) <=> j > n
    <2>1. ASSUME j > n PROVE q[j] \in Range(b)
      <3>1. j - n \in 1..Len(q) - n /\ n + (j - n) = j
        BY <1>0, <2>1
      <3> QED BY <1>2, <1>4, <3>1
    <2>2. ASSUME q[j] \in Range(b) PROVE j > n
      <3>1. PICK k \in 1..Len(q) - n : b[k] = q[j]
        BY <1>4, <2>2
      <3>2. n + k \in 1..Len(q) /\ q[n + k] = q[j]
        BY <1>0, <1>2, <3>1
      <3>3. n + k = j
        BY <1>0, <3>2
      <3> QED BY <1>0, <3>1, <3>3
    <2> QED BY <1>0, <2>1, <2>2
  <1>7. \A x : x \in Range(q) <=> \E j \in 1..Len(q) : q[j] = x
    BY QueueMembers
  <1>8. ASSUME NEW x \in Range(f) \cup Range(b) PROVE x \in Range(q)
    <2>1. CASE x \in Range(f)
      <3>1. PICK j \in 1..n : f[j] = x
        BY <1>3, <2>1
      <3>2. j \in 1..Len(q) /\ q[j] = x
        BY <1>0, <1>1, <3>1
      <3> QED BY <1>7, <3>2
    <2>2. CASE x \in Range(b)
      <3>1. PICK j \in 1..Len(q) - n : b[j] = x
        BY <1>4, <2>2
      <3>2. n + j \in 1..Len(q) /\ q[n + j] = x
        BY <1>0, <1>2, <3>1
      <3> QED BY <1>7, <3>2
    <2> QED BY <2>1, <2>2
  <1>9. Range(q) = Range(f) \cup Range(b)
    <2>1. ASSUME NEW x \in Range(q) PROVE x \in Range(f) \cup Range(b)
      BY <1>0, <1>5, <1>6, <1>7
    <2> QED BY <1>8, <2>1
  <1>10. IsInjective(b)
    <2>1. DOMAIN b = 1..Len(q) - n
      BY <1>2
    <2>2. ASSUME NEW j \in 1..Len(q) - n, NEW k \in 1..Len(q) - n, b[j] = b[k] PROVE j = k
      <3>1. n + j \in 1..Len(q) /\ n + k \in 1..Len(q) /\ q[n + j] = q[n + k]
        BY <1>0, <1>2, <2>2
      <3>2. n + j = n + k
        BY <1>0, <3>1
      <3> QED BY <1>0, <3>2
    <2> QED BY <2>1, <2>2 DEF IsInjective
  <1> QED BY <1>1, <1>2, <1>5, <1>6, <1>9, <1>10 DEF f, b

-----------------------------------------------------------------------------
(* Finite sets, without an induction theorem: a counterexample no proper   *)
(* subset of which is one.                                                 *)

\* Among finite sets there is one none of whose proper subsets is among them.
LEMMA SmallestSet ==
  ASSUME NEW U, NEW C, C \subseteq FiniteSubsetsOf(U), C # {}
  PROVE  \E S \in C : \A T \in C : T \subseteq S => T = S
  <1>1. PICK S \in C : \A T \in C : ~(<<T, S>> \in StrictSubsetOrdering(U))
    BY FS_StrictSubsetOrderingWellFounded, WFMin
  <1>2. ASSUME NEW T \in C, T \subseteq S PROVE T = S
    <2>1. T # S => <<T, S>> \in StrictSubsetOrdering(U)
      BY <1>2 DEF StrictSubsetOrdering, FiniteSubsetsOf
    <2> QED BY <1>1, <2>1
  <1> QED BY <1>2, Zenon

\* A finite set of integers has a least and a greatest element.
LEMMA FiniteMinMax ==
  ASSUME NEW H \in SUBSET Int, IsFiniteSet(H), H # {}
  PROVE  /\ Min(H) \in H /\ \A h \in H : Min(H) <= h
         /\ Max(H) \in H /\ \A h \in H : Max(H) >= h
  <1> DEFINE Bounded(S) == /\ \E m \in S : \A h \in S : m <= h
                           /\ \E m \in S : \A h \in S : m >= h
             C == {S \in SUBSET Int : IsFiniteSet(S) /\ S # {} /\ ~Bounded(S)}
  <1>1. C = {}
    <2>1. SUFFICES ASSUME C # {} PROVE FALSE
      OBVIOUS
    <2>2. PICK S \in C : \A T \in C : T \subseteq S => T = S
      <3>1. C \subseteq FiniteSubsetsOf(Int)
        BY DEF FiniteSubsetsOf
      <3> HIDE DEF C
      <3> QED BY <2>1, <3>1, SmallestSet
    <2>3. PICK x \in S : TRUE
      BY <2>2
    <2> DEFINE R == S \ {x}
    <2>4. IsFiniteSet(R) /\ R \in SUBSET Int
      BY <2>2, FS_RemoveElement
    <2>5. CASE R = {}
      <3>1. S = {x} /\ x \in Int
        BY <2>2, <2>3, <2>5
      <3>2. Bounded(S)
        BY <3>1
      <3> QED BY <2>2, <3>2
    <2>6. CASE R # {}
      <3>1. R # S
        BY <2>3
      <3>2. Bounded(R)
        BY <2>2, <2>4, <2>6, <3>1
      <3>3. PICK l \in R : \A h \in R : l <= h
        BY <3>2
      <3>4. PICK g \in R : \A h \in R : g >= h
        BY <3>2
      <3>5. S = R \cup {x} /\ x \in Int /\ S \subseteq Int
        BY <2>2, <2>3
      <3> HIDE DEF R
      <3>6. \E m \in S : \A h \in S : m <= h
        <4>1. CASE x <= l
          BY <2>4, <3>3, <3>5, <4>1
        <4>2. CASE ~(x <= l)
          BY <2>4, <3>3, <3>5, <4>2
        <4> QED BY <4>1, <4>2
      <3>7. \E m \in S : \A h \in S : m >= h
        <4>1. CASE x >= g
          BY <2>4, <3>4, <3>5, <4>1
        <4>2. CASE ~(x >= g)
          BY <2>4, <3>4, <3>5, <4>2
        <4> QED BY <4>1, <4>2
      <3> QED BY <2>2, <3>6, <3>7
    <2> QED BY <2>5, <2>6
  <1>2. Bounded(H)
    BY <1>1
  <1> QED BY <1>2, Zenon DEF Min, Max

=============================================================================

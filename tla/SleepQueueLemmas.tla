-------------------------- MODULE SleepQueueLemmas --------------------------
(***************************************************************************)
(* What Select picks out of a queue, for every queue and every set: its    *)
(* type, its members, and how it commutes with appending, joining and      *)
(* selecting again.  The induction is carried by sets of numbers and of    *)
(* sequences, from the least element of a set of naturals.                 *)
(***************************************************************************)
EXTENDS SleepQueue, SequenceTheorems, WellFoundedInduction, TLAPS

-----------------------------------------------------------------------------
(***************************************************************************)
(* Induction over sets.                                                    *)
(***************************************************************************)

\* A set of naturals that is not empty has a least element.
LEMMA LeastNatural ==
  ASSUME NEW N \in SUBSET Nat, N # {}
  PROVE  \E m \in N : \A n \in N : m <= n
  <1>1. PICK R : R = {p \in Nat \X Nat : p[1] < p[2]}
    OBVIOUS
  <1>2. IsWellFoundedOn(R, Nat)
    BY <1>1, NatLessThanWellFounded DEF OpToRel
  <1>3. PICK m \in N : \A n \in N : <<n, m>> \notin R
    BY <1>2, WFMin
  <1>4. ASSUME NEW n \in N PROVE m <= n
    <2>1. m \in Nat /\ n \in Nat
      OBVIOUS
    <2>2. ~ (n < m)
      BY <1>1, <1>3, <2>1
    <2> QED  BY <2>1, <2>2
  <1> QED  BY <1>4

\* A set with zero that is closed under successor has all naturals.
LEMMA NatSetInduction ==
  ASSUME NEW N, 0 \in N, \A n \in Nat : n \in N => n + 1 \in N
  PROVE  Nat \subseteq N
  <1> SUFFICES ASSUME Nat \ N # {} PROVE FALSE
    OBVIOUS
  <1>1. PICK m \in Nat \ N : \A n \in Nat \ N : m <= n
    BY LeastNatural
  <1>2. m = 0 \/ m - 1 \in Nat
    OBVIOUS
  <1> QED  BY <1>1, <1>2

\* A set with the empty sequence that is closed under Append has all sequences.
LEMMA SeqSetInduction ==
  ASSUME NEW T, NEW P,
         <<>> \in P,
         \A q \in Seq(T), e \in T : q \in P => Append(q, e) \in P
  PROVE  Seq(T) \subseteq P
  <1> DEFINE N == {n \in Nat : \A q \in Seq(T) : Len(q) = n => q \in P}
  <1>1. 0 \in N
    <2>1. \A q \in Seq(T) : Len(q) = 0 => q = <<>>
      OBVIOUS
    <2> QED  BY <2>1
  <1>2. ASSUME NEW n \in Nat, n \in N PROVE n + 1 \in N
    <2>1. ASSUME NEW q \in Seq(T), Len(q) = n + 1 PROVE q \in P
      <3>1. q # <<>>
        BY <2>1, EmptySeq
      <3>2. PICK r \in Seq(T), e \in T : q = Append(r, e)
        BY <3>1, SequenceEmptyOrAppend
      <3>3. Len(r) = n
        BY <2>1, <3>2, AppendProperties, LenProperties
      <3> QED  BY <1>2, <3>2, <3>3
    <2> QED  BY <2>1
  <1>3. Nat \subseteq N
    <2> HIDE DEF N
    <2> QED  BY <1>1, <1>2, NatSetInduction
  <1> QED  BY <1>3, LenProperties

-----------------------------------------------------------------------------
(***************************************************************************)
(* The recursion of Select.                                                *)
(***************************************************************************)

\* What the function in Select computes for the first n elements of q.
Walks(F, n, q, S, T) ==
  /\ F \in [0 .. n -> Seq(T)]
  /\ F[0] = <<>>
  /\ \A i \in 1 .. n : F[i] = IF q[i] \in S THEN Append(F[i - 1], q[i]) ELSE F[i - 1]

\* There is such a function for every part of a queue.
LEMMA WalkExists ==
  ASSUME NEW T, NEW S, NEW q \in Seq(T)
  PROVE  \A n \in 0 .. Len(q) : \E F : Walks(F, n, q, S, T)
  <1> DEFINE N == {n \in Nat : n <= Len(q) => \E F : Walks(F, n, q, S, T)}
  <1>1. 0 \in N
    <2>1. Walks([i \in 0 .. 0 |-> <<>>], 0, q, S, T)
      BY EmptySeq DEF Walks
    <2> QED  BY <2>1
  <1>2. ASSUME NEW n \in Nat, n \in N PROVE n + 1 \in N
    <2> SUFFICES ASSUME n + 1 <= Len(q) PROVE \E F : Walks(F, n + 1, q, S, T)
      OBVIOUS
    <2>1. PICK F : Walks(F, n, q, S, T)
      BY <1>2, LenProperties
    <2> DEFINE last == IF q[n + 1] \in S THEN Append(F[n], q[n + 1]) ELSE F[n]
               G == [i \in 0 .. n + 1 |-> IF i = n + 1 THEN last ELSE F[i]]
    <2>2. q[n + 1] \in T /\ F[n] \in Seq(T)
      BY <2>1, ElementOfSeq, LenProperties DEF Walks
    <2>3. last \in Seq(T)
      BY <2>2
    <2>4. G \in [0 .. n + 1 -> Seq(T)]
      BY <2>1, <2>3 DEF Walks
    <2>5. G[0] = <<>>
      BY <2>1 DEF Walks
    <2>6. ASSUME NEW i \in 1 .. n + 1
          PROVE  G[i] = IF q[i] \in S THEN Append(G[i - 1], q[i]) ELSE G[i - 1]
      <3>1. CASE i = n + 1
        <4>1. G[i] = last /\ G[i - 1] = F[n]
          BY <3>1
        <4> QED  BY <3>1, <4>1
      <3>2. CASE i # n + 1
        <4>1. i \in 1 .. n /\ G[i] = F[i] /\ G[i - 1] = F[i - 1]
          BY <3>2
        <4> QED  BY <4>1, <2>1 DEF Walks
      <3> QED  BY <3>1, <3>2
    <2> QED  BY <2>4, <2>5, <2>6 DEF Walks
  <1>3. Nat \subseteq N
    <2> HIDE DEF N
    <2> QED  BY <1>1, <1>2, NatSetInduction
  <1> QED  BY <1>3, LenProperties

\* Select is the last value of such a function.
LEMMA SelectWalks ==
  ASSUME NEW T, NEW S, NEW q \in Seq(T)
  PROVE  \E F : Walks(F, Len(q), q, S, T) /\ Select(q, S) = F[Len(q)]
  <1> DEFINE Step(f) == [i \in 0 .. Len(q) |->
                           IF i = 0 THEN <<>>
                           ELSE IF q[i] \in S THEN Append(f[i - 1], q[i]) ELSE f[i - 1]]
             G == CHOOSE f : f = Step(f)
  <1>1. Select(q, S) = G[Len(q)]
    BY DEF Select
  <1>2. G = Step(G)
    <2>1. Len(q) \in 0 .. Len(q)
      BY LenProperties
    <2>2. PICK F : Walks(F, Len(q), q, S, T)
      BY <2>1, WalkExists
    <2>3. \A i \in 0 .. Len(q) : i # 0 => i \in 1 .. Len(q)
      BY LenProperties
    <2>4. \A i \in 0 .. Len(q) :
            F[i] = IF i = 0 THEN <<>>
                   ELSE IF q[i] \in S THEN Append(F[i - 1], q[i]) ELSE F[i - 1]
      BY <2>2, <2>3, Zenon DEF Walks
    <2>5. F = [i \in 0 .. Len(q) |-> F[i]]
      BY <2>2 DEF Walks
    <2>6. F = Step(F)
      BY <2>4, <2>5, Zenon
    <2> QED  BY <2>6, Zenon
  <1> HIDE DEF G
  <1>3. /\ Len(q) \in Nat
        /\ G[0] = <<>>
        /\ \A i \in 1 .. Len(q) :
             G[i] = IF q[i] \in S THEN Append(G[i - 1], q[i]) ELSE G[i - 1]
    <2>1. Len(q) \in Nat
      BY LenProperties
    <2>2. \A i \in 0 .. Len(q) :
            G[i] = IF i = 0 THEN <<>>
                   ELSE IF q[i] \in S THEN Append(G[i - 1], q[i]) ELSE G[i - 1]
      BY <1>2, Zenon
    <2>3. 0 \in 0 .. Len(q) /\ \A i \in 1 .. Len(q) : i \in 0 .. Len(q) /\ i # 0
      BY <2>1
    <2> QED  BY <2>1, <2>2, <2>3, Zenon
  <1> DEFINE N == {n \in Nat : n <= Len(q) => G[n] \in Seq(T)}
  <1>4. 0 \in N
    BY <1>3, EmptySeq
  <1>5. ASSUME NEW n \in Nat, n \in N PROVE n + 1 \in N
    <2> SUFFICES ASSUME n + 1 <= Len(q) PROVE G[n + 1] \in Seq(T)
      OBVIOUS
    <2>1. n + 1 \in 1 .. Len(q) /\ (n + 1) - 1 = n
      BY <1>3
    <2>2. q[n + 1] \in T /\ G[n] \in Seq(T)
      BY <1>3, <1>5, <2>1, ElementOfSeq
    <2>3. G[n + 1] = IF q[n + 1] \in S THEN Append(G[n], q[n + 1]) ELSE G[n]
      BY <1>3, <2>1
    <2> QED  BY <2>2, <2>3, AppendProperties
  <1>6. Nat \subseteq N
    <2> HIDE DEF N
    <2> QED  BY <1>4, <1>5, NatSetInduction
  <1>7. \A i \in 0 .. Len(q) : G[i] \in Seq(T)
    BY <1>3, <1>6
  <1>8. G = [i \in 0 .. Len(q) |-> G[i]]
    BY <1>2
  <1>9. Walks(G, Len(q), q, S, T)
    BY <1>3, <1>7, <1>8 DEF Walks
  <1> QED  BY <1>1, <1>9

\* Two walks along queues that begin alike agree on the common part.
LEMMA WalksAgree ==
  ASSUME NEW T, NEW S, NEW q, NEW r, NEW m \in Nat, NEW n \in Nat, m <= n,
         NEW F, Walks(F, m, q, S, T), NEW G, Walks(G, n, r, S, T),
         \A i \in 1 .. m : q[i] = r[i]
  PROVE  F[m] = G[m]
  <1> DEFINE N == {i \in Nat : i <= m => F[i] = G[i]}
  <1>1. 0 \in N
    BY DEF Walks
  <1>2. ASSUME NEW i \in Nat, i \in N PROVE i + 1 \in N
    <2> SUFFICES ASSUME i + 1 <= m PROVE F[i + 1] = G[i + 1]
      OBVIOUS
    <2>1. /\ i + 1 \in 1 .. m /\ i + 1 \in 1 .. n /\ (i + 1) - 1 = i
          /\ F[i] = G[i] /\ q[i + 1] = r[i + 1]
      BY <1>2
    <2> QED  BY <2>1 DEF Walks
  <1>3. Nat \subseteq N
    <2> HIDE DEF N
    <2> QED  BY <1>1, <1>2, NatSetInduction
  <1> QED  BY <1>3

-----------------------------------------------------------------------------
(***************************************************************************)
(* Select.                                                                 *)
(***************************************************************************)

\* Nothing is picked out of nothing.
LEMMA SelectEmpty ==
  ASSUME NEW S
  PROVE  Select(<<>>, S) = <<>>
  <1>1. <<>> \in Seq({}) /\ Len(<<>>) = 0
    OBVIOUS
  <1>2. PICK F : Walks(F, Len(<<>>), <<>>, S, {}) /\ Select(<<>>, S) = F[Len(<<>>)]
    BY <1>1, SelectWalks
  <1> QED  BY <1>1, <1>2 DEF Walks

\* A selection of a queue is a queue.
LEMMA SelectType ==
  ASSUME NEW T, NEW S, NEW q \in Seq(T)
  PROVE  Select(q, S) \in Seq(T)
  <1>1. PICK F : Walks(F, Len(q), q, S, T) /\ Select(q, S) = F[Len(q)]
    BY SelectWalks
  <1>2. Len(q) \in 0 .. Len(q)
    BY LenProperties
  <1> QED  BY <1>1, <1>2 DEF Walks

\* A new last element is picked or not.
LEMMA SelectAppend ==
  ASSUME NEW T, NEW S, NEW q \in Seq(T), NEW e \in T
  PROVE  Select(Append(q, e), S) =
           IF e \in S THEN Append(Select(q, S), e) ELSE Select(q, S)
  <1> DEFINE r == Append(q, e)  n == Len(q)
  <1>1. /\ r \in Seq(T) /\ Len(r) = n + 1 /\ n \in Nat /\ r[n + 1] = e
        /\ \A i \in 1 .. n : q[i] = r[i]
    BY AppendProperties, LenProperties
  <1> HIDE DEF r
  <1>2. PICK F : Walks(F, n, q, S, T) /\ Select(q, S) = F[n]
    BY SelectWalks
  <1>3. PICK G : Walks(G, n + 1, r, S, T) /\ Select(r, S) = G[n + 1]
    BY <1>1, SelectWalks
  <1>4. F[n] = G[n]
    <2>1. n <= n + 1 /\ n + 1 \in Nat
      BY <1>1
    <2> QED  BY <1>1, <1>2, <1>3, <2>1, WalksAgree
  <1>5. G[n + 1] = IF r[n + 1] \in S THEN Append(G[n], r[n + 1]) ELSE G[n]
    <2>1. n + 1 \in 1 .. n + 1 /\ (n + 1) - 1 = n
      BY <1>1
    <2> QED  BY <1>3, <2>1 DEF Walks
  <1> QED  BY <1>1, <1>2, <1>3, <1>4, <1>5 DEF r

\* A single element is picked or not.
LEMMA SelectOne ==
  ASSUME NEW S, NEW e
  PROVE  Select(<<e>>, S) = IF e \in S THEN <<e>> ELSE <<>>
  <1>1. <<>> \in Seq({e}) /\ e \in {e} /\ Append(<<>>, e) = <<e>>
    OBVIOUS
  <1>2. Select(Append(<<>>, e), S)
          = IF e \in S THEN Append(Select(<<>>, S), e) ELSE Select(<<>>, S)
    BY <1>1, SelectAppend, Zenon
  <1> QED  BY <1>1, <1>2, SelectEmpty

\* Two queues one behind the other are walked one after the other.
LEMMA SelectConcat ==
  ASSUME NEW T, NEW S, NEW q \in Seq(T), NEW r \in Seq(T)
  PROVE  Select(q \o r, S) = Select(q, S) \o Select(r, S)
  <1> DEFINE P == {t \in Seq(T) : Select(q \o t, S) = Select(q, S) \o Select(t, S)}
  <1>1. Select(q, S) \in Seq(T)
    BY SelectType
  <1>2. <<>> \in P
    BY <1>1, SelectEmpty, ConcatEmptySeq, EmptySeq
  <1>3. ASSUME NEW t \in Seq(T), NEW e \in T, t \in P PROVE Append(t, e) \in P
    <2>1. Append(t, e) \in Seq(T) /\ q \o t \in Seq(T) /\ Select(t, S) \in Seq(T)
      BY AppendProperties, ConcatProperties, SelectType
    <2>2. q \o Append(t, e) = Append(q \o t, e)
      OBVIOUS
    <2>3. Select(q, S) \o Append(Select(t, S), e) = Append(Select(q, S) \o Select(t, S), e)
      BY <1>1, <2>1
    <2>4. Select(Append(q \o t, e), S)
            = IF e \in S THEN Append(Select(q \o t, S), e) ELSE Select(q \o t, S)
      <3> DEFINE u == q \o t
      <3>1. u \in Seq(T)
        BY <2>1
      <3> HIDE DEF u
      <3>2. Select(Append(u, e), S) = IF e \in S THEN Append(Select(u, S), e) ELSE Select(u, S)
        BY <3>1, SelectAppend
      <3> QED  BY <3>2 DEF u
    <2>5. Select(Append(t, e), S) = IF e \in S THEN Append(Select(t, S), e) ELSE Select(t, S)
      BY SelectAppend
    <2>6. Select(q \o t, S) = Select(q, S) \o Select(t, S)
      BY <1>3
    <2>7. Select(q \o Append(t, e), S) = Select(q, S) \o Select(Append(t, e), S)
      <3>1. CASE e \in S  BY <2>2, <2>3, <2>4, <2>5, <2>6, <3>1, Zenon
      <3>2. CASE e \notin S  BY <2>2, <2>4, <2>5, <2>6, <3>2, Zenon
      <3> QED  BY <3>1, <3>2
    <2> QED  BY <2>1, <2>7
  <1>4. Seq(T) \subseteq P
    <2> HIDE DEF P
    <2> QED  BY <1>2, <1>3, SeqSetInduction
  <1> QED  BY <1>4

\* A queue that is not empty is its head and its tail.
LEMMA HeadThenTail ==
  ASSUME NEW T, NEW q \in Seq(T), q # <<>>
  PROVE  /\ Head(q) \in T /\ <<Head(q)>> \in Seq(T) /\ Tail(q) \in Seq(T)
         /\ q = <<Head(q)>> \o Tail(q)
  <1>1. Head(q) \in T /\ Tail(q) \in Seq(T) /\ <<Head(q)>> \in Seq(T)
    BY HeadTailProperties
  <1>2. q = <<Head(q)>> \o Tail(q)
    OBVIOUS
  <1> QED  BY <1>1, <1>2

\* What is picked is in the set and was in the queue.
LEMMA SelectMembers ==
  ASSUME NEW T, NEW S, NEW q \in Seq(T)
  PROVE  \A i \in 1 .. Len(Select(q, S)) :
           Select(q, S)[i] \in S /\ \E j \in 1 .. Len(q) : Select(q, S)[i] = q[j]
  <1> DEFINE Good(t) == \A i \in 1 .. Len(Select(t, S)) :
               Select(t, S)[i] \in S /\ \E j \in 1 .. Len(t) : Select(t, S)[i] = t[j]
             P == {t \in Seq(T) : Good(t)}
  <1>1. <<>> \in P
    BY SelectEmpty, EmptySeq
  <1>2. ASSUME NEW t \in Seq(T), NEW e \in T, t \in P PROVE Append(t, e) \in P
    <2>1. /\ Select(t, S) \in Seq(T) /\ Len(t) \in Nat /\ Len(Select(t, S)) \in Nat
          /\ Append(t, e) \in Seq(T) /\ Len(Append(t, e)) = Len(t) + 1
          /\ Append(t, e)[Len(t) + 1] = e
          /\ \A j \in 1 .. Len(t) : Append(t, e)[j] = t[j]
      BY SelectType, LenProperties, AppendProperties
    <2>2. Good(t)
      BY <1>2
    <2>3. CASE e \notin S
      <3>1. Select(Append(t, e), S) = Select(t, S)
        BY <2>3, SelectAppend
      <3>2. 1 .. Len(t) \subseteq 1 .. Len(Append(t, e))
        BY <2>1
      <3> QED  BY <2>1, <2>2, <3>1, <3>2
    <2>4. CASE e \in S
      <3> DEFINE r == Append(Select(t, S), e)
      <3>1. Select(Append(t, e), S) = r
        BY <2>4, SelectAppend
      <3>2. /\ Len(r) = Len(Select(t, S)) + 1 /\ r[Len(Select(t, S)) + 1] = e
            /\ \A i \in 1 .. Len(Select(t, S)) : r[i] = Select(t, S)[i]
        BY <2>1, AppendProperties
      <3> HIDE DEF r
      <3>3. ASSUME NEW i \in 1 .. Len(r)
            PROVE  r[i] \in S /\ \E j \in 1 .. Len(Append(t, e)) : r[i] = Append(t, e)[j]
        <4>1. CASE i = Len(Select(t, S)) + 1
          BY <2>1, <2>4, <3>2, <4>1
        <4>2. CASE i # Len(Select(t, S)) + 1
          <5>1. i \in 1 .. Len(Select(t, S))
            BY <2>1, <3>2, <4>2
          <5>2. PICK j \in 1 .. Len(t) : Select(t, S)[i] = t[j]
            BY <2>2, <5>1
          <5>3. r[i] \in S /\ r[i] = Append(t, e)[j] /\ j \in 1 .. Len(Append(t, e))
            BY <2>1, <2>2, <3>2, <5>1, <5>2
          <5> QED  BY <5>3
        <4> QED  BY <4>1, <4>2
      <3> QED  BY <2>1, <3>1, <3>3
    <2> QED  BY <2>3, <2>4
  <1>3. Seq(T) \subseteq P
    <2> HIDE DEF P
    <2> QED  BY <1>1, <1>2, SeqSetInduction
  <1> QED  BY <1>3

\* Sets that agree on the elements pick the same.
LEMMA SelectSame ==
  ASSUME NEW T, NEW A, NEW B, NEW q \in Seq(T), \A e \in T : e \in A <=> e \in B
  PROVE  Select(q, A) = Select(q, B)
  <1> DEFINE P == {t \in Seq(T) : Select(t, A) = Select(t, B)}
  <1>1. <<>> \in P
    BY SelectEmpty, EmptySeq
  <1>2. ASSUME NEW t \in Seq(T), NEW e \in T, t \in P PROVE Append(t, e) \in P
    <2>1. Append(t, e) \in Seq(T)
      BY AppendProperties
    <2>2. /\ Select(Append(t, e), A) = IF e \in A THEN Append(Select(t, A), e) ELSE Select(t, A)
          /\ Select(Append(t, e), B) = IF e \in B THEN Append(Select(t, B), e) ELSE Select(t, B)
      BY SelectAppend
    <2>3. Select(t, A) = Select(t, B) /\ (e \in A <=> e \in B)
      BY <1>2
    <2>4. Select(Append(t, e), A) = Select(Append(t, e), B)
      <3>1. CASE e \in A  BY <2>2, <2>3, <3>1, Zenon
      <3>2. CASE e \notin A  BY <2>2, <2>3, <3>2, Zenon
      <3> QED  BY <3>1, <3>2
    <2> QED  BY <2>1, <2>4
  <1>3. Seq(T) \subseteq P
    <2> HIDE DEF P
    <2> QED  BY <1>1, <1>2, SeqSetInduction
  <1> QED  BY <1>3

\* Picking twice is picking what belongs to both sets.
LEMMA SelectTwice ==
  ASSUME NEW T, NEW A, NEW B, NEW q \in Seq(T)
  PROVE  Select(Select(q, A), B) = Select(q, A \cap B)
  <1> DEFINE P == {t \in Seq(T) : Select(Select(t, A), B) = Select(t, A \cap B)}
  <1>1. <<>> \in P
    BY SelectEmpty, EmptySeq
  <1>2. ASSUME NEW t \in Seq(T), NEW e \in T, t \in P PROVE Append(t, e) \in P
    <2>1. Append(t, e) \in Seq(T) /\ Select(t, A) \in Seq(T)
      BY AppendProperties, SelectType
    <2>2. Select(Append(t, e), A) = IF e \in A THEN Append(Select(t, A), e) ELSE Select(t, A)
      BY SelectAppend
    <2>3. Select(Append(Select(t, A), e), B)
            = IF e \in B THEN Append(Select(Select(t, A), B), e) ELSE Select(Select(t, A), B)
      BY <2>1, SelectAppend
    <2>4. Select(Append(t, e), A \cap B)
            = IF e \in A \cap B THEN Append(Select(t, A \cap B), e) ELSE Select(t, A \cap B)
      BY SelectAppend
    <2>5. Select(Select(t, A), B) = Select(t, A \cap B)
      BY <1>2
    <2>6. Select(Select(Append(t, e), A), B) = Select(Append(t, e), A \cap B)
      <3>1. CASE e \in A
        <4>1. Select(Append(t, e), A) = Append(Select(t, A), e)
          BY <2>2, <3>1
        <4>2. CASE e \in B
          BY <2>3, <2>4, <2>5, <3>1, <4>1, <4>2, Zenon
        <4>3. CASE e \notin B
          BY <2>3, <2>4, <2>5, <3>1, <4>1, <4>3, Zenon
        <4> QED  BY <4>2, <4>3
      <3>2. CASE e \notin A
        BY <2>2, <2>4, <2>5, <3>2, Zenon
      <3> QED  BY <3>1, <3>2
    <2> QED  BY <2>1, <2>6
  <1>3. Seq(T) \subseteq P
    <2> HIDE DEF P
    <2> QED  BY <1>1, <1>2, SeqSetInduction
  <1> QED  BY <1>3

\* A set with all elements picks all.
LEMMA SelectAll ==
  ASSUME NEW T, NEW S, T \subseteq S, NEW q \in Seq(T)
  PROVE  Select(q, S) = q
  <1> DEFINE P == {t \in Seq(T) : Select(t, S) = t}
  <1>1. <<>> \in P
    BY SelectEmpty, EmptySeq
  <1>2. ASSUME NEW t \in Seq(T), NEW e \in T, t \in P PROVE Append(t, e) \in P
    <2>1. Append(t, e) \in Seq(T)
      BY AppendProperties
    <2>2. Select(Append(t, e), S) = Append(Select(t, S), e)
      BY SelectAppend
    <2> QED  BY <1>2, <2>1, <2>2
  <1>3. Seq(T) \subseteq P
    <2> HIDE DEF P
    <2> QED  BY <1>1, <1>2, SeqSetInduction
  <1> QED  BY <1>3

\* A set with none of the elements picks nothing.
LEMMA SelectNone ==
  ASSUME NEW T, NEW S, T \cap S = {}, NEW q \in Seq(T)
  PROVE  Select(q, S) = <<>>
  <1> DEFINE P == {t \in Seq(T) : Select(t, S) = <<>>}
  <1>1. <<>> \in P
    BY SelectEmpty, EmptySeq
  <1>2. ASSUME NEW t \in Seq(T), NEW e \in T, t \in P PROVE Append(t, e) \in P
    BY <1>2, SelectAppend, AppendProperties
  <1>3. Seq(T) \subseteq P
    <2> HIDE DEF P
    <2> QED  BY <1>1, <1>2, SeqSetInduction
  <1> QED  BY <1>3

\* Two sets that share out the elements pick a queue's length together.
LEMMA SelectParts ==
  ASSUME NEW T, NEW A, NEW B, NEW q \in Seq(T), \A e \in T : e \in A <=> e \notin B
  PROVE  /\ Len(Select(q, A)) \in Nat /\ Len(Select(q, B)) \in Nat /\ Len(q) \in Nat
         /\ Len(Select(q, A)) + Len(Select(q, B)) = Len(q)
  <1> DEFINE P == {t \in Seq(T) : Len(Select(t, A)) + Len(Select(t, B)) = Len(t)}
  <1>1. <<>> \in P
    BY SelectEmpty, EmptySeq
  <1>2. ASSUME NEW t \in Seq(T), NEW e \in T, t \in P PROVE Append(t, e) \in P
    <2>1. /\ Append(t, e) \in Seq(T) /\ Select(t, A) \in Seq(T) /\ Select(t, B) \in Seq(T)
          /\ Len(Append(t, e)) = Len(t) + 1 /\ Len(t) \in Nat
          /\ Len(Select(t, A)) \in Nat /\ Len(Select(t, B)) \in Nat
          /\ Len(Append(Select(t, A), e)) = Len(Select(t, A)) + 1
          /\ Len(Append(Select(t, B), e)) = Len(Select(t, B)) + 1
      BY AppendProperties, SelectType, LenProperties
    <2>2. /\ Select(Append(t, e), A) = IF e \in A THEN Append(Select(t, A), e) ELSE Select(t, A)
          /\ Select(Append(t, e), B) = IF e \in B THEN Append(Select(t, B), e) ELSE Select(t, B)
      BY SelectAppend
    <2>3. Len(Select(t, A)) + Len(Select(t, B)) = Len(t)
      BY <1>2
    <2>4. \A a \in Nat, b \in Nat : (a + 1) + b = (a + b) + 1 /\ a + (b + 1) = (a + b) + 1
      OBVIOUS
    <2>5. Len(Select(Append(t, e), A)) + Len(Select(Append(t, e), B)) = Len(Append(t, e))
      <3>1. CASE e \in A
        <4>1. /\ Len(Select(Append(t, e), A)) = Len(Select(t, A)) + 1
              /\ Len(Select(Append(t, e), B)) = Len(Select(t, B))
          BY <2>1, <2>2, <3>1, Zenon
        <4> QED  BY <2>1, <2>3, <2>4, <4>1, Zenon
      <3>2. CASE e \notin A
        <4>1. /\ Len(Select(Append(t, e), A)) = Len(Select(t, A))
              /\ Len(Select(Append(t, e), B)) = Len(Select(t, B)) + 1
          BY <2>1, <2>2, <3>2, Zenon
        <4> QED  BY <2>1, <2>3, <2>4, <4>1, Zenon
      <3> QED  BY <3>1, <3>2
    <2> QED  BY <2>1, <2>5
  <1>3. Seq(T) \subseteq P
    <2> HIDE DEF P
    <2> QED  BY <1>1, <1>2, SeqSetInduction
  <1> QED  BY <1>3, SelectType, LenProperties

=============================================================================
